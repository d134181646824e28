----------------------- MODULE TenantFootprintProofs -----------------------
(***************************************************************************)
(* Theorems of TenantFootprint, on top of those of TenantLifecycle: the    *)
(* layer takes only steps of TenantLifecycle, series of gone POs are owed  *)
(* to lost answers, running tenants keep their cluster-scoped objects, and *)
(* the books agree with the spec when nothing is left to do.               *)
(***************************************************************************)
EXTENDS TenantFootprint, TenantCustodyProofs, FiniteSetTheorems

\* A step of the layer is a step of TenantLifecycle, or leaves it as it is.
LEMMA LayerSteps == FootprintNext => [Next]_vars
  <1> SUFFICES ASSUME FootprintNext PROVE [Next]_vars
    OBVIOUS
  <1>1. ASSUME NEW p \in PO, Inside(p) PROVE Next
    BY <1>1 DEF Inside, Next, Step
  <1>2. ASSUME NEW p \in PO, Outside(p) PROVE Next
    BY <1>2 DEF Outside, CleanupEntry, Next, Step
  <1>3. QED BY <1>1, <1>2 DEF FootprintNext, RestartEmpty, Next

\* So what holds of the passes holds of them with what they leave outside.
LEMMA LayerImplements == FootprintSpec => Spec
  <1>1. FootprintInit => Init
    BY DEF FootprintInit
  <1>2. [FootprintNext]_<<vars, footprint>> => [Next]_vars
    BY LayerSteps
  <1>3. QED BY <1>1, <1>2, PTL DEF FootprintSpec, Spec

\* The steps that leave every series and every finalizer alone.
Keeps ==
    \/ Users \/ Cluster
    \/ \E p \in PO :
          \/ Inside(p) \/ ListOrphans(p) \/ CallFails(p)
          \/ \E n \in NS : WriteTenant(p, n) \/ CleanupEntry(p, n) \/ JudgeEntry(p, n)

\* A finalizer is not lost in any of them.
LEMMA FinalizerKept ==
    ASSUME TypeOK, FinalizerNotForgotten, Keeps, NEW p \in PO, po[p].fin
    PROVE  po'[p].fin
  <1>1. ASSUME NEW q \in PO, CreateObject(q) \/ EditSpec(q) \/ TogglePause(q) \/ DeleteObject(q)
        PROVE  po'[p].fin
    <2>1. po[p].state \in {"live", "deleting"}
      BY DEF FinalizerNotForgotten, FinalizerKnown
    <2>2. CASE CreateObject(q)
      BY <2>1, <2>2 DEF CreateObject, WriteObject, TypeOK, ServerOK
    <2>3. CASE EditSpec(q)
      BY <2>3 DEF EditSpec, WriteObject, TypeOK, ServerOK, Object
    <2>4. CASE TogglePause(q)
      BY <2>4 DEF TogglePause, WriteObject, TypeOK, ServerOK, Object
    <2>5. CASE DeleteObject(q)
      BY <2>5 DEF DeleteObject, WriteObject, TypeOK, ServerOK, Object
    <2>6. QED BY <1>1, <2>2, <2>3, <2>4, <2>5
  <1>2. ASSUME NEW q \in PO, AddFinalizer(q) PROVE po'[p].fin
    BY <1>2 DEF AddFinalizer, TypeOK, ServerOK, Object
  <1>3. ASSUME NEW n \in NS, UserCreatesNamespace(n) \/ UserDeletesNamespace(n) PROVE po'[p].fin
    BY <1>3 DEF UserCreatesNamespace, UserDeletesNamespace
  <1>4. CASE Cluster
    BY <1>4 DEF Cluster, SyncObject, TimerFires, Resync, SyncNamespace,
                NamespaceTerminated, GarbageCollect, server, vars
  <1>5. ASSUME NEW q \in PO, Inside(q) PROVE po'[p].fin
    <2>1. CASE AddFinalizer(q)
      BY <1>2, <2>1
    <2>2. CASE ~AddFinalizer(q)
      BY <1>5, <2>2 DEF Inside, Start, FinalizerPresent, UpdateConflict, ListOffboarded,
                        BeginEntries, DeleteOffboarded, ReadTenant, WriteTenantRefused,
                        ReportBlocked, server
    <2>3. QED BY <2>1, <2>2
  <1>6. ASSUME NEW q \in PO, ListOrphans(q) \/ CallFails(q) PROVE po'[p].fin
    BY <1>6 DEF ListOrphans, CallFails, server
  <1>7. ASSUME NEW q \in PO, NEW n \in NS,
               WriteTenant(q, n) \/ CleanupEntry(q, n) \/ JudgeEntry(q, n)
        PROVE  po'[p].fin
    BY <1>7 DEF WriteTenant, CleanupEntry, ReadOffboarded, JudgeEntry, server
  <1>8. QED BY <1>1, <1>3, <1>4, <1>5, <1>6, <1>7 DEF Keeps, Users

\* Faults are only ever added.
LEMMA FaultsGrow ==
    ASSUME TypeOK, [Next]_vars
    PROVE  faults' >= faults
  <1>1. faults \in Nat
    BY ConstantsAssumption DEF TypeOK
  <1>2. CASE Users
    <2>1. ASSUME NEW p \in PO, CreateObject(p) PROVE faults' = faults
      BY <2>1 DEF CreateObject, bounds
    <2>2. ASSUME NEW p \in PO, EditSpec(p) \/ TogglePause(p) \/ DeleteObject(p)
          PROVE  faults' = faults
      BY <2>2 DEF EditSpec, TogglePause, DeleteObject, Edit
    <2>3. ASSUME NEW n \in NS, UserCreatesNamespace(n) \/ UserDeletesNamespace(n)
          PROVE  faults' = faults
      BY <2>3 DEF UserCreatesNamespace, UserDeletesNamespace, Edit
    <2>4. faults' = faults
      BY <1>2, <2>1, <2>2, <2>3 DEF Users
    <2>5. QED BY <1>1, <2>4
  <1>3. CASE Cluster
    BY <1>1, <1>3 DEF Cluster, SyncObject, TimerFires, Resync, SyncNamespace, NamespaceTerminated,
                GarbageCollect, bounds
  <1>4. CASE Restart \/ \E p \in PO : Start(p) \/ CallFails(p)
    BY <1>1, <1>4 DEF Start, CallFails, Restart, bounds
  <1>5. ASSUME NEW p \in PO, Step(p) PROVE faults' >= faults
    <2>1. (\E ok \in BOOLEAN : Answer(ok)) \/ UNCHANGED bounds
      <3>1. CASE AddFinalizer(p) \/ UpdateStatus(p) \/ RemoveFinalizer(p)
        BY <3>1 DEF AddFinalizer, UpdateStatus, RemoveFinalizer
      <3>2. CASE \E n \in NS : DeleteOffboarded(p, n) \/ WriteTenant(p, n)
        BY <3>2 DEF DeleteOffboarded, WriteTenant
      <3>3. CASE \/ FinalizerPresent(p) \/ UpdateConflict(p) \/ ListOffboarded(p)
                 \/ BeginEntries(p) \/ ListOrphans(p) \/ ReportBlocked(p)
        BY <3>3 DEF FinalizerPresent, UpdateConflict, ListOffboarded, BeginEntries, ListOrphans,
                    ReportBlocked, bounds
      <3>4. CASE \E n \in NS : \/ ReadOffboarded(p, n) \/ ReadTenant(p, n)
                               \/ WriteTenantRefused(p, n) \/ JudgeEntry(p, n)
        BY <3>4 DEF ReadOffboarded, ReadTenant, WriteTenantRefused, JudgeEntry, bounds
      <3>5. QED BY <1>5, <3>1, <3>2, <3>3, <3>4 DEF Step
    <2>2. QED BY <1>1, <2>1 DEF Answer, bounds
  <1>6. CASE UNCHANGED vars
    BY <1>1, <1>6 DEF vars, bounds
  <1>7. QED
    BY <1>1, <1>2, <1>3, <1>4, <1>5, <1>6 DEF Next

\* The domain of the gauge makes it inductive.
GaugeInv == gauge = [p \in PO |-> gauge[p]] /\ GaugeOwned

\* No step leaves a series to a PO without its finalizer, but for a lost answer.
LEMMA GaugeNext ==
    ASSUME TypeOK, FinalizerNotForgotten, GaugeInv, [FootprintNext]_<<vars, footprint>>
    PROVE  GaugeInv'
  <1>0. [Next]_vars /\ faults \in Nat /\ faults' \in Nat /\ faults' >= faults
    <2>1. [Next]_vars
      BY LayerSteps
    <2>2. QED BY <2>1, NextTypeOK, FaultsGrow, ConstantsAssumption DEF TypeOK
  <1>1. CASE Keeps /\ UNCHANGED gauge
    BY <1>0, <1>1, FinalizerKept DEF GaugeInv, GaugeOwned
  <1>2. ASSUME NEW p \in PO, RemoveFinalizer(p), DeleteTenantMetrics(p) PROVE GaugeInv'
    <2>1. gauge' = [q \in PO |-> gauge'[q]]
      BY <1>2 DEF DeleteTenantMetrics, GaugeInv
    <2>2. ASSUME NEW q \in PO, gauge'[q] # None, ~(faults' > 0) PROVE po'[q].fin
      <3>1. faults' = faults /\ ~(faults > 0)
        BY <1>0, <2>2
      <3>2. gauge' = [gauge EXCEPT ![p] = None]
        BY <1>2, <3>1 DEF DeleteTenantMetrics, Answered
      <3>3. q # p /\ gauge[q] # None
        BY <2>2, <3>2 DEF GaugeInv
      <3>4. po[q].fin
        BY <3>1, <3>3 DEF GaugeInv, GaugeOwned
      <3>5. po'[q] = po[q]
        BY <1>2, <3>3 DEF RemoveFinalizer, TypeOK, ServerOK
      <3>6. QED BY <3>4, <3>5
    <2>3. QED BY <2>1, <2>2 DEF GaugeInv, GaugeOwned
  <1>3. ASSUME NEW p \in PO, UpdateStatus(p), SetActiveTenantCount(p) PROVE GaugeInv'
    <2>1. po' = po /\ po[p].fin
      BY <1>3 DEF UpdateStatus, FinalizerNotForgotten, FinalizerKnown, Provisioning
    <2>2. gauge' = [q \in PO |-> gauge'[q]] /\ \A q \in PO \ {p} : gauge'[q] = gauge[q]
      BY <1>3 DEF SetActiveTenantCount, GaugeInv
    <2>3. QED BY <1>0, <2>1, <2>2 DEF GaugeInv, GaugeOwned
  <1>4. CASE RestartEmpty
    BY <1>4 DEF RestartEmpty, GaugeInv, GaugeOwned
  <1>5. CASE UNCHANGED <<vars, footprint>>
    BY <1>5 DEF vars, server, bounds, footprint, GaugeInv, GaugeOwned
  <1>6. QED
    BY <1>1, <1>2, <1>3, <1>4, <1>5 DEF FootprintNext, Outside, Keeps, footprint

\* No pass that was overtaken by the deletion of its PO leaves a series behind:
\* where one outlives the finalizer, an answer was lost.
THEOREM SeriesAreOwned == FootprintSpec => []GaugeOwned
  <1>1. FootprintInit => GaugeInv
    BY DEF FootprintInit, GaugeInv, GaugeOwned
  <1>2. TypeOK /\ FinalizerNotForgotten /\ GaugeInv /\ [FootprintNext]_<<vars, footprint>>
          => GaugeInv'
    BY GaugeNext
  <1>3. GaugeInv => GaugeOwned
    BY DEF GaugeInv
  <1>4. QED
    BY <1>1, <1>2, <1>3, LayerImplements, TypeCorrect, FinalizerRemembered, PTL DEF FootprintSpec

-----------------------------------------------------------------------------
\* What a step removes is of a tenant that is not shown to run, or was offboarded.
LEMMA RemovedWithReason ==
    ASSUME Grounds, FootprintNext,
           NEW p \in PO, NEW n \in NS, <<p, n>> \in shared, <<p, n>> \notin shared',
           Tenant(p, n), nsCache[n] = ns[n]
    PROVE  Offboarded(p, n)
  <1>1. ManagedNamespaceExists(p, n) /\ NamespaceExists(n)
    <2>1. nsCache[n] = [phase |-> "active", label |-> p, owner |-> p]
      BY TenantIs DEF Grounds
    <2>2. QED BY <2>1 DEF ManagedBy, ManagedNamespaceExists, NamespaceExists
  <1>2. ASSUME NEW q \in PO, NEW N, Removes(q, N) PROVE q = p /\ n \in N
    BY <1>2 DEF Removes
  <1>3. n \notin ReleasedTenants(p)
    BY <1>1 DEF ReleasedTenants
  <1>4. ASSUME NEW q \in PO, NEW m \in NS, CleanupEntry(q, m)
        PROVE  Offboarded(p, n)
    <2>1. q = p /\ n = m
      BY <1>2, <1>4 DEF CleanupEntry
    <2>2. QED BY <1>4, <2>1 DEF CleanupEntry, ReadOffboarded, Offboarded
  <1>5. ASSUME NEW q \in PO, NEW m \in NS, JudgeEntry(q, m), Judged(q, m)
        PROVE  FALSE
    <2>1. Removes(q, {m}) /\ ~ManagedNamespaceExists(q, m)
      BY <1>5 DEF Judged
    <2>2. QED BY <1>1, <1>2, <2>1
  <1>6. ASSUME NEW q \in PO, ListOrphans(q), Removes(q, ReleasedTenants(q))
        PROVE  FALSE
    BY <1>2, <1>3, <1>6
  <1>7. ASSUME NEW q \in PO, PartlyRemoved(q)
        PROVE  Offboarded(p, n)
    <2>1. CASE \E m \in todo[q] \ todo'[q] :
                 /\ snap[q].spec[m] = "offboard"
                      \/ (pc[q] = "finalize" /\ ~ManagedNamespaceExists(q, m))
                 /\ Removes(q, {m})
      <3>1. PICK m \in todo[q] \ todo'[q] :
                 /\ snap[q].spec[m] = "offboard"
                      \/ (pc[q] = "finalize" /\ ~ManagedNamespaceExists(q, m))
                 /\ Removes(q, {m})
        BY <2>1
      <3>2. q = p /\ n = m
        BY <1>2, <3>1
      <3>3. QED BY <1>1, <3>1, <3>2 DEF Offboarded
    <2>2. CASE \E m \in ReleasedTenants(q) : Removes(q, {m})
      BY <1>2, <1>3, <2>2
    <2>3. QED BY <1>7, <2>1, <2>2 DEF PartlyRemoved
  <1>8. ASSUME NEW q \in PO, NEW m \in NS, Provisions(q, m) PROVE FALSE
    BY <1>8 DEF Provisions
  <1>9. CASE UNCHANGED shared
    BY <1>9
  <1>10. QED
    BY <1>4, <1>5, <1>6, <1>7, <1>8, <1>9
    DEF FootprintNext, Outside, RestartEmpty, footprint

\* A tenant that is shown to run keeps its Group and EgressIP until it is offboarded,
\* however often a blocked deletion is looked at again.
THEOREM RunningTenantsKeepTheirs == PlainLabels => (FootprintSpec => TenantsKeepTheirs)
  <1> SUFFICES ASSUME PlainLabels PROVE FootprintSpec => TenantsKeepTheirs
    OBVIOUS
  <1>1. Grounds /\ [FootprintNext]_<<vars, footprint>> =>
          \A p \in PO, n \in NS :
              /\ <<p, n>> \in shared /\ <<p, n>> \notin shared'
              /\ Tenant(p, n) /\ nsCache[n] = ns[n]
              => Offboarded(p, n)
    <2> SUFFICES ASSUME Grounds, [FootprintNext]_<<vars, footprint>>,
                        NEW p \in PO, NEW n \in NS,
                        <<p, n>> \in shared, <<p, n>> \notin shared',
                        Tenant(p, n), nsCache[n] = ns[n]
                 PROVE  Offboarded(p, n)
      OBVIOUS
    <2>1. FootprintNext
      BY DEF footprint
    <2>2. QED BY <2>1, RemovedWithReason
  <1>2. QED
    BY <1>1, LayerImplements, GroundsHold, PTL DEF FootprintSpec, TenantsKeepTheirs

-----------------------------------------------------------------------------
(***************************************************************************)
(* Types.                                                                  *)
(***************************************************************************)

\* The entries of a spec are counted by a number no larger than that of the names.
LEMMA CountOK ==
    ASSUME NEW spec
    PROVE  ActiveTenantCount(spec) \in 0 .. Cardinality(NS)
  <1> DEFINE S == {n \in NS : spec[n] \in {"active", "override"}}
  <1>1. S \subseteq NS
    OBVIOUS
  <1> HIDE DEF S
  <1>2. IsFiniteSet(S) /\ Cardinality(S) <= Cardinality(NS)
    BY <1>1, NamesAssumption, FS_Subset
  <1>3. Cardinality(S) \in Nat /\ Cardinality(NS) \in Nat
    BY <1>2, NamesAssumption, FS_CardinalityType
  <1>4. ActiveTenantCount(spec) = Cardinality(S)
    BY DEF ActiveTenantCount, S
  <1>5. QED BY <1>2, <1>3, <1>4

\* Every step keeps the types.
LEMMA FootprintTypeNext ==
    ASSUME FootprintTypeOK, [FootprintNext]_<<vars, footprint>>
    PROVE  FootprintTypeOK'
  <1>1. CASE UNCHANGED footprint
    BY <1>1 DEF footprint, FootprintTypeOK
  <1>2. ASSUME NEW p \in PO, SetActiveTenantCount(p) \/ DeleteTenantMetrics(p)
        PROVE  gauge' \in [PO -> (0 .. Cardinality(NS)) \cup {None}]
    BY <1>2, CountOK DEF SetActiveTenantCount, DeleteTenantMetrics, FootprintTypeOK
  <1>3. ASSUME NEW p \in PO, NEW N, Removes(p, N) PROVE shared' \subseteq PO \X NS
    BY <1>3 DEF Removes, FootprintTypeOK
  <1>4. ASSUME NEW p \in PO, Outside(p) PROVE FootprintTypeOK'
    <2>1. gauge' \in [PO -> (0 .. Cardinality(NS)) \cup {None}]
      BY <1>2, <1>4 DEF Outside, FootprintTypeOK
    <2>2. shared' \subseteq PO \X NS
      <3>1. CASE UNCHANGED shared
        BY <3>1 DEF FootprintTypeOK
      <3>2. ASSUME NEW n \in NS, Provisions(p, n) PROVE shared' \subseteq PO \X NS
        BY <3>2 DEF Provisions, FootprintTypeOK
      <3>3. ASSUME NEW n \in NS, CleanupEntry(p, n) PROVE shared' \subseteq PO \X NS
        BY <1>3, <3>3 DEF CleanupEntry
      <3>4. ASSUME NEW n \in NS, Judged(p, n) PROVE shared' \subseteq PO \X NS
        BY <1>3, <3>1, <3>4 DEF Judged
      <3>5. CASE PartlyRemoved(p)
        BY <1>3, <3>1, <3>5 DEF PartlyRemoved
      <3>6. QED BY <1>3, <1>4, <3>1, <3>2, <3>3, <3>4, <3>5 DEF Outside
    <2>3. QED BY <2>1, <2>2 DEF FootprintTypeOK
  <1>5. CASE RestartEmpty
    BY <1>5 DEF RestartEmpty, FootprintTypeOK
  <1>6. QED BY <1>1, <1>4, <1>5 DEF FootprintNext, footprint

\* A series counts entries and every object is some tenant's, whatever happens.
THEOREM FootprintTypeCorrect == FootprintSpec => []FootprintTypeOK
  <1>1. FootprintInit => FootprintTypeOK
    BY DEF FootprintInit, FootprintTypeOK
  <1>2. QED BY <1>1, FootprintTypeNext, PTL DEF FootprintSpec

-----------------------------------------------------------------------------
(***************************************************************************)
(* Nothing watches what is outside, so the passes must have written it.    *)
(***************************************************************************)

Booked(p, n) ==
    /\ po[p].spec[n] = "active" => <<p, n>> \in shared
    /\ po[p].spec[n] = "offboard" => <<p, n>> \notin shared

\* Unless something has happened since, the loop over the entries has booked those
\* it is done with, and removed what an entry has whose namespace it is about to
\* delete; a pass that was the last has booked them all, and counted them.
Accounting(p) ==
    Undisturbed(p) =>
        /\ pc[p] = "entries" => \A n \in NS : n \notin todo[p] => Booked(p, n)
        /\ pc[p] = "entries" /\ at[p] # None /\ po[p].spec[at[p]] = "offboard"
              => <<p, at[p]>> \notin shared
        /\ pc[p] = "idle" /\ po[p].state = "live" /\ ~po[p].paused =>
              /\ gauge[p] = ActiveTenantCount(po[p].spec)
              /\ \A n \in NS : Booked(p, n)

AccountInv == \A p \in PO : Accounting(p)

\* No wake-up that is waiting or on its way is withdrawn.
EventsKept == queue \subseteq queue' /\ \A n \in NS : owed[n] \subseteq owed'[n]

\* A write of a namespace, or none, only adds events.
LEMMA WritesKeepEvents ==
    ASSUME TypeOK, NEW n \in NS,
           DeleteNamespaceCall(n) \/ NamespaceUntouched \/ \E rec : WriteNamespace(n, rec)
    PROVE  EventsKept
  <1>1. CASE NamespaceUntouched
    BY <1>1 DEF NamespaceUntouched, EventsKept
  <1>2. ASSUME NEW rec, WriteNamespace(n, rec) PROVE EventsKept
    BY <1>2 DEF WriteNamespace, TypeOK, CachesOK, EventsKept
  <1>3. QED BY <1>1, <1>2 DEF DeleteNamespaceCall

\* What a step leaves of PO q's own, and that it hides no disturbance of it.
Beside(q) ==
    /\ pc'[q] = pc[q] /\ todo'[q] = todo[q] /\ at'[q] = at[q]
    /\ Undisturbed(q)' => Undisturbed(q) /\ po'[q] = po[q]

\* Users and the cluster touch no pass, and a user's write of a PO disturbs it.
LEMMA BesideOthers ==
    ASSUME TypeOK, Users \/ Cluster, NEW q \in PO
    PROVE  Beside(q)
  <1> USE DEF Beside, Undisturbed
  <1>1. ASSUME NEW p \in PO, NEW rec, WriteObject(p, rec),
               UNCHANGED <<owed, wakeups, pc, todo, at, failed>>
        PROVE  Beside(q)
    BY <1>1 DEF WriteObject, wakeups, TypeOK, ServerOK, CachesOK
  <1>2. ASSUME NEW n \in NS, UNCHANGED <<po, poFresh, delayed, pass>>,
               DeleteNamespaceCall(n) \/ \E rec : WriteNamespace(n, rec)
        PROVE  Beside(q)
    BY <1>2, WritesKeepEvents DEF EventsKept, pass
  <1>3. ASSUME NEW p \in PO, CreateObject(p) \/ EditSpec(p) \/ TogglePause(p) \/ DeleteObject(p)
        PROVE  Beside(q)
    <2>1. UNCHANGED <<owed, wakeups, pc, todo, at, failed>>
      BY <1>3 DEF CreateObject, EditSpec, TogglePause, DeleteObject
    <2>2. \E rec : WriteObject(p, rec)
      <3>1. CASE CreateObject(p)
        BY <3>1 DEF CreateObject
      <3>2. CASE EditSpec(p)
        BY <3>2 DEF EditSpec
      <3>3. CASE TogglePause(p) \/ DeleteObject(p)
        BY <3>3 DEF TogglePause, DeleteObject
      <3>4. QED BY <1>3, <3>1, <3>2, <3>3
    <2>3. QED BY <1>1, <2>1, <2>2
  <1>4. ASSUME NEW n \in NS, \/ UserCreatesNamespace(n) \/ UserDeletesNamespace(n)
                            \/ NamespaceTerminated(n) \/ GarbageCollect(n)
        PROVE  Beside(q)
    BY <1>2, <1>4 DEF UserCreatesNamespace, UserDeletesNamespace, NamespaceTerminated, GarbageCollect
  <1>5. ASSUME NEW p \in PO, SyncObject(p) \/ TimerFires(p) \/ Resync(p) PROVE Beside(q)
    BY <1>5 DEF SyncObject, TimerFires, Resync, pass, server, caches, TypeOK, CachesOK
  <1>6. ASSUME NEW n \in NS, SyncNamespace(n) PROVE Beside(q)
    BY <1>6 DEF SyncNamespace, pass, server, TypeOK, CachesOK
  <1>7. QED BY <1>3, <1>4, <1>5, <1>6 DEF Users, Cluster

\* A pass leaves the other POs and their passes alone, and withdraws no wake-up
\* of theirs.
LEMMA BesidePass ==
    ASSUME TypeOK, NEW p \in PO, Start(p) \/ Step(p) \/ CallFails(p), NEW q \in PO \ {p}
    PROVE  Beside(q)
  <1> USE DEF Beside, Undisturbed
  <1>1. ASSUME Finish(p), delayed \subseteq delayed', EventsKept,
               po'[q] = po[q], poFresh'[q] => poFresh[q]
        PROVE  Beside(q)
    BY <1>1 DEF Finish, EventsKept, TypeOK, LocalsOK
  <1>2. ASSUME NEW n \in NS, EntryDone(p, n) \/ EntryFails(p, n) \/ Reads(p, n), EventsKept,
               UNCHANGED <<po, poFresh>>
        PROVE  Beside(q)
    BY <1>1, <1>2 DEF EntryDone, EntryFails, Reads, Leaves, Retry, EventsKept, TypeOK, LocalsOK
  <1>3. UNCHANGED <<owed, queue>> => EventsKept
    BY DEF EventsKept
  <1>4. CASE Start(p)
    BY <1>4 DEF Start, Goto, server, caches, TypeOK, LocalsOK
  <1>5. CASE FinalizerPresent(p) \/ UpdateConflict(p)
    BY <1>1, <1>3, <1>5 DEF FinalizerPresent, UpdateConflict, AfterEnsure, Goto, Done, Retry, server, caches,
       TypeOK, LocalsOK
  <1>6. CASE AddFinalizer(p)
    <2>1. po'[q] = po[q] /\ poFresh'[q] = poFresh[q] /\ UNCHANGED <<owed, queue>>
      BY <1>6 DEF AddFinalizer, TypeOK, ServerOK, CachesOK
    <2>2. CASE Done(p) \/ Retry(p)
      BY <1>1, <1>3, <2>1, <2>2 DEF Done, Retry
    <2>3. CASE Goto(p, "list") /\ UNCHANGED <<delayed, todo, at, failed>>
      BY <2>1, <2>3 DEF Goto, TypeOK, LocalsOK
    <2>4. QED BY <1>6, <2>2, <2>3 DEF AddFinalizer
  <1>7. CASE UpdateStatus(p) \/ ReportBlocked(p) \/ RemoveFinalizer(p)
    <2>1. po'[q] = po[q] /\ (poFresh'[q] => poFresh[q]) /\ UNCHANGED <<owed, queue>>
      BY <1>7 DEF UpdateStatus, ReportBlocked, RemoveFinalizer, WriteStatus, TypeOK, ServerOK, CachesOK
    <2>2. Done(p) \/ Retry(p)
      BY <1>7 DEF UpdateStatus, ReportBlocked, RemoveFinalizer
    <2>3. QED BY <1>1, <1>3, <2>1, <2>2 DEF Done, Retry
  <1>8. CASE ListOffboarded(p) \/ BeginEntries(p) \/ ListOrphans(p)
    BY <1>8 DEF ListOffboarded, BeginEntries, ListOrphans, Goto, server, caches, wakeups, TypeOK, LocalsOK
  <1>9. ASSUME NEW n \in NS, JudgeEntry(p, n) PROVE Beside(q)
    BY <1>9 DEF JudgeEntry, Leaves, server, caches, wakeups, TypeOK, LocalsOK
  <1>10. ASSUME NEW n \in NS, \/ ReadOffboarded(p, n) \/ ReadTenant(p, n) \/ WriteTenantRefused(p, n)
                             \/ DeleteOffboarded(p, n) \/ WriteTenant(p, n)
         PROVE  Beside(q)
    <2>1. UNCHANGED <<po, poFresh>>
      BY <1>10 DEF ReadOffboarded, ReadTenant, WriteTenantRefused, DeleteOffboarded, WriteTenant, server, caches
    <2>2. EntryDone(p, n) \/ EntryFails(p, n) \/ Reads(p, n)
      BY <1>10 DEF ReadOffboarded, ReadTenant, WriteTenantRefused, DeleteOffboarded, WriteTenant
    <2>3. EventsKept
      <3>1. CASE DeleteOffboarded(p, n) \/ WriteTenant(p, n)
        BY <3>1, WritesKeepEvents DEF DeleteOffboarded, WriteTenant
      <3>2. CASE ~(DeleteOffboarded(p, n) \/ WriteTenant(p, n))
        BY <1>3, <1>10, <3>2 DEF ReadOffboarded, ReadTenant, WriteTenantRefused, caches
      <3>3. QED BY <3>1, <3>2
    <2>4. QED BY <1>2, <2>1, <2>2, <2>3
  <1>11. CASE CallFails(p)
    <2>1. (\E n \in NS : EntryFails(p, n)) \/ Retry(p)
      BY <1>11 DEF CallFails, TypeOK, LocalsOK
    <2>2. QED BY <1>1, <1>2, <1>3, <1>11, <2>1 DEF CallFails, Retry, server, caches
  <1>12. QED
    BY <1>4, <1>5, <1>6, <1>7, <1>8, <1>9, <1>10, <1>11 DEF Step

\* The books of a PO stay in order while nobody writes in them.
LEMMA AccountBeside ==
    ASSUME NEW q \in PO, Accounting(q), Beside(q), gauge'[q] = gauge[q],
           \A n \in NS : <<q, n>> \in shared' <=> <<q, n>> \in shared, at[q] \in NS \cup {None}
    PROVE  Accounting(q)'
  BY DEF Accounting, Beside, Booked

\* A pass that comes back is not the last, nor is one with an entry that failed.
LEMMA AccountUndone ==
    ASSUME TypeOK, NEW p \in PO, Retry(p) \/ \E n \in NS : EntryFails(p, n)
    PROVE  Accounting(p)'
  <1>1. CASE Retry(p)
    BY <1>1 DEF Retry, Accounting, Undisturbed
  <1>2. ASSUME NEW n \in NS, EntryFails(p, n) PROVE Accounting(p)'
    BY <1>1, <1>2 DEF EntryFails, TypeOK, LocalsOK, Accounting, Undisturbed
  <1>3. QED BY <1>1, <1>2

\* An entry that is done is booked.
LEMMA AccountDone ==
    ASSUME TypeOK, NEW p \in PO, NEW n \in NS, Accounting(p), EntryDone(p, n), EventsKept,
           UNCHANGED po, poFresh'[p] => poFresh[p], pc[p] # "idle",
           Undisturbed(p)' /\ pc[p] = "entries" => Booked(p, n)',
           \A m \in NS \ {n} : <<p, m>> \in shared' <=> <<p, m>> \in shared
    PROVE  Accounting(p)'
  <1>1. Undisturbed(p)' => Undisturbed(p)
    BY DEF Undisturbed, EntryDone, EventsKept
  <1>2. UNCHANGED pc /\ at'[p] = None /\ todo'[p] = todo[p] \ {n}
    BY DEF EntryDone, Leaves, TypeOK, LocalsOK
  <1>3. \A m \in NS \ {n} : Booked(p, m) => Booked(p, m)'
    BY DEF Booked
  <1>4. QED BY <1>1, <1>2, <1>3 DEF Accounting

\* An entry that is read has no objects left if its namespace is to be deleted.
LEMMA AccountReads ==
    ASSUME TypeOK, NEW p \in PO, NEW n \in NS, Accounting(p), Visits(p, n), Reads(p, n),
           UNCHANGED <<po, poFresh, owed, queue>>, pc[p] # "idle",
           Undisturbed(p) /\ pc[p] = "entries" /\ po[p].spec[n] = "offboard" => <<p, n>> \notin shared',
           \A m \in NS \ {n} : <<p, m>> \in shared' <=> <<p, m>> \in shared
    PROVE  Accounting(p)'
  <1>1. Undisturbed(p)' => Undisturbed(p)
    BY DEF Undisturbed, Reads
  <1>2. UNCHANGED <<pc, todo>> /\ at'[p] = n /\ n \in todo[p]
    BY DEF Reads, Visits, TypeOK, LocalsOK
  <1>3. \A m \in NS \ {n} : Booked(p, m) => Booked(p, m)'
    BY DEF Booked
  <1>4. QED BY <1>1, <1>2, <1>3 DEF Accounting

\* The steps of a pass that write nothing outside.
LEMMA AccountInside ==
    ASSUME TypeOK, FinalizerNotForgotten, WakeInv, NEW p \in PO, Accounting(p),
           Inside(p), UNCHANGED footprint
    PROVE  Accounting(p)'
  <1> USE DEF server, caches, wakeups, footprint
  <1>0. Settling(p) /\ PassInHand(p) /\ PassOK(p)
    BY DEF WakeInv, SettlingInv, HandsInv, TypeOK
  <1>1. CASE Start(p)
    <2>1. poFresh[p] => poCache[p] = po[p]
      BY DEF FinalizerNotForgotten, FinalizerKnown
    <2>2. /\ UNCHANGED <<po, poFresh>>
          /\ poCache[p].state \in {"absent", "gone"} \/ pc'[p] \in {"ensure", "finalize"}
      BY <1>1 DEF Start, Goto, TypeOK, LocalsOK
    <2>3. poCache[p].state \in {"absent", "gone"} => pc'[p] = "idle"
      BY <1>1 DEF Start
    <2>4. QED BY <2>1, <2>2, <2>3 DEF Accounting, Undisturbed
  <1>2. CASE FinalizerPresent(p)
    <2>1. CASE snap[p].paused
      <3>1. Done(p) /\ UNCHANGED <<po, poFresh, owed, queue>> /\ pc'[p] = "idle" /\ pc[p] = "ensure"
        BY <1>2, <2>1 DEF FinalizerPresent, AfterEnsure, Done, Finish, TypeOK, LocalsOK
      <3>2. Undisturbed(p)' => snap[p] = po[p]
        BY <1>0, <3>1 DEF Undisturbed, Settling, PassInHand, Done
      <3>3. QED BY <2>1, <3>1, <3>2 DEF Accounting
    <2>2. CASE ~snap[p].paused
      BY <1>2, <2>2 DEF FinalizerPresent, AfterEnsure, Goto, TypeOK, LocalsOK, Accounting
    <2>3. QED BY <2>1, <2>2
  <1>3. CASE AddFinalizer(p)
    <2>1. ~poFresh'[p]
      BY <1>3 DEF AddFinalizer, TypeOK, CachesOK
    <2>2. QED BY <2>1 DEF Accounting, Undisturbed
  <1>4. CASE UpdateConflict(p) \/ ReportBlocked(p)
    BY <1>4, AccountUndone DEF UpdateConflict, ReportBlocked
  <1>5. CASE ListOffboarded(p)
    BY <1>5 DEF ListOffboarded, Goto, TypeOK, LocalsOK, Accounting
  <1>6. CASE BeginEntries(p)
    <2>1. /\ pc[p] = "prune" /\ pc'[p] = "entries" /\ at'[p] = None
          /\ UNCHANGED <<po, poFresh, owed, queue, delayed, failed>>
          /\ todo'[p] = {n \in NS : snap[p].spec[n] \notin {"none", "frozen"}}
      BY <1>0, <1>6 DEF BeginEntries, Goto, TypeOK, LocalsOK, PassOK
    <2>2. Undisturbed(p)' => snap[p] = po[p]
      BY <1>0, <2>1 DEF Undisturbed, Settling
    <2>3. QED BY <2>1, <2>2 DEF Accounting, Booked
  <1>7. ASSUME NEW n \in NS, DeleteOffboarded(p, n) PROVE Accounting(p)'
    <2>1. /\ at[p] = n /\ snap[p].spec[n] = "offboard" /\ UNCHANGED <<po, poFresh>>
          /\ EntryDone(p, n) \/ EntryFails(p, n)
      BY <1>7 DEF DeleteOffboarded
    <2>2. EventsKept /\ pc[p] # "idle"
      BY <1>0, <1>7, <2>1, WritesKeepEvents, ConstantsAssumption DEF DeleteOffboarded, PassOK
    <2>3. ASSUME EntryDone(p, n), Undisturbed(p)', pc[p] = "entries" PROVE Booked(p, n)'
      <3>1. Undisturbed(p)
        BY <2>1, <2>2, <2>3 DEF Undisturbed, EntryDone, EventsKept
      <3>2. po[p].spec[n] = "offboard"
        BY <1>0, <2>1, <2>3, <3>1 DEF Settling
      <3>3. <<p, n>> \notin shared
        BY <2>1, <2>3, <3>1, <3>2, ConstantsAssumption DEF Accounting
      <3>4. QED BY <2>1, <3>2, <3>3 DEF Booked
    <2>4. QED BY <2>1, <2>2, <2>3, AccountDone, AccountUndone
  <1>8. ASSUME NEW n \in NS, ReadTenant(p, n) PROVE Accounting(p)'
    <2>1. /\ pc[p] = "entries" /\ Visits(p, n) /\ snap[p].spec[n] # "offboard"
          /\ EntryFails(p, n) \/ Reads(p, n)
          /\ UNCHANGED <<po, poFresh, owed, queue>>
      BY <1>8 DEF ReadTenant
    <2>2. Undisturbed(p) => po[p].spec[n] # "offboard"
      BY <1>0, <2>1 DEF Settling
    <2>3. QED BY <2>1, <2>2, AccountReads, AccountUndone
  <1>9. ASSUME NEW n \in NS, WriteTenantRefused(p, n) PROVE Accounting(p)'
    BY <1>9, AccountUndone DEF WriteTenantRefused
  <1>10. QED
    BY <1>1, <1>2, <1>3, <1>4, <1>5, <1>6, <1>7, <1>8, <1>9 DEF Inside

\* Those that do.
LEMMA AccountOutside ==
    ASSUME TypeOK, FootprintTypeOK, WakeInv, NEW p \in PO, Accounting(p), Outside(p)
    PROVE  Accounting(p)'
  <1> USE DEF server, caches, wakeups
  <1>0. Settling(p) /\ PassInHand(p) /\ PassOK(p) /\ faults \in Nat
    BY ConstantsAssumption DEF WakeInv, SettlingInv, HandsInv, TypeOK
  <1>1. CASE UpdateStatus(p) /\ SetActiveTenantCount(p) /\ UNCHANGED shared
    <2>1. PICK ok \in BOOLEAN : Answer(ok) /\ IF ok /\ ~failed[p] THEN Done(p) ELSE Retry(p)
      BY <1>1 DEF UpdateStatus
    <2>2. CASE ok /\ ~failed[p]
      <3>1. /\ pc[p] = "entries" /\ todo[p] = {} /\ pc'[p] = "idle"
            /\ UNCHANGED <<po, owed, queue, delayed>> /\ (poFresh'[p] => poFresh[p])
        BY <1>1, <2>1, <2>2 DEF UpdateStatus, WriteStatus, Done, Finish, TypeOK, LocalsOK, CachesOK
      <3>2. gauge'[p] = ActiveTenantCount(snap[p].spec)
        BY <1>1, <2>1, <2>2 DEF SetActiveTenantCount, Answered, Answer, FootprintTypeOK
      <3>3. Undisturbed(p)' => Undisturbed(p) /\ snap[p] = po[p]
        BY <1>0, <2>2, <3>1 DEF Undisturbed, Settling
      <3>4. QED BY <1>1, <3>1, <3>2, <3>3 DEF Accounting, Booked
    <2>3. CASE ~(ok /\ ~failed[p])
      BY <2>1, <2>3, AccountUndone
    <2>4. QED BY <2>2, <2>3
  <1>2. CASE RemoveFinalizer(p)
    <2>1. ~poFresh'[p]
      BY <1>2 DEF RemoveFinalizer, TypeOK, CachesOK
    <2>2. QED BY <2>1 DEF Accounting, Undisturbed
  <1>3. ASSUME NEW n \in NS, WriteTenant(p, n), Provisions(p, n) PROVE Accounting(p)'
    <2>1. PICK ok \in BOOLEAN : Answer(ok) /\ IF ok THEN EntryDone(p, n) ELSE EntryFails(p, n)
      BY <1>3 DEF WriteTenant
    <2>2. CASE ok
      <3>1. /\ at[p] = n /\ UNCHANGED <<po, poFresh>> /\ snap[p].spec[n] # "offboard"
            /\ shared' = shared \cup {<<p, n>>}
        BY <1>3, <2>1, <2>2 DEF WriteTenant, Provisions, Answered, Answer
      <3>2. EventsKept /\ pc[p] # "idle"
        BY <1>0, <1>3, <3>1, WritesKeepEvents, ConstantsAssumption DEF WriteTenant, PassOK
      <3>3. ASSUME Undisturbed(p)' PROVE Booked(p, n)'
        <4>1. Undisturbed(p)
          BY <2>1, <2>2, <3>1, <3>2, <3>3 DEF Undisturbed, EntryDone, EventsKept
        <4>2. po[p].spec[n] # "offboard"
          BY <1>0, <3>1, <3>2, <4>1 DEF Settling
        <4>3. QED BY <3>1, <4>2 DEF Booked
      <3>4. QED BY <2>1, <2>2, <3>1, <3>2, <3>3, AccountDone
    <2>3. CASE ~ok
      BY <2>1, <2>3, AccountUndone
    <2>4. QED BY <2>2, <2>3
  <1>4. ASSUME NEW n \in NS, CleanupEntry(p, n) PROVE Accounting(p)'
    <2>1. /\ pc[p] \in Loops /\ Visits(p, n) /\ snap[p].spec[n] = "offboard"
          /\ EntryDone(p, n) \/ Reads(p, n)
          /\ UNCHANGED <<po, poFresh, owed, queue>>
      BY <1>4 DEF CleanupEntry, ReadOffboarded, Loops
    <2>2. <<p, n>> \notin shared' /\ \A m \in NS \ {n} : <<p, m>> \in shared' <=> <<p, m>> \in shared
      BY <1>4 DEF CleanupEntry, Removes
    <2>3. ASSUME EntryDone(p, n), Undisturbed(p)' PROVE Booked(p, n)'
      <3>1. Undisturbed(p)
        BY <2>1, <2>3 DEF Undisturbed, EntryDone
      <3>2. po[p].spec[n] = "offboard"
        BY <1>0, <2>1, <3>1 DEF Settling, Loops
      <3>3. QED BY <2>1, <2>2, <3>2 DEF Booked
    <2>4. pc[p] # "idle" /\ EventsKept
      BY <2>1 DEF Loops, EventsKept
    <2>5. QED BY <2>1, <2>2, <2>3, <2>4, AccountDone, AccountReads
  <1>5. ASSUME NEW n \in NS, JudgeEntry(p, n) PROVE Accounting(p)'
    BY <1>5 DEF JudgeEntry, Accounting
  <1>6. CASE ListOrphans(p)
    BY <1>6 DEF ListOrphans, Goto, TypeOK, LocalsOK, Accounting
  <1>7. CASE CallFails(p)
    <2>1. (\E n \in NS : EntryFails(p, n)) \/ Retry(p)
      BY <1>7 DEF CallFails, TypeOK, LocalsOK
    <2>2. QED BY <2>1, AccountUndone
  <1>8. QED BY <1>1, <1>2, <1>3, <1>4, <1>5, <1>6, <1>7 DEF Outside

\* A pass writes in no other PO's books.
LEMMA OwnBooks ==
    ASSUME FootprintTypeOK, NEW p \in PO, NEW q \in PO \ {p},
           Outside(p) \/ UNCHANGED footprint
    PROVE  gauge'[q] = gauge[q] /\ \A n \in NS : <<q, n>> \in shared' <=> <<q, n>> \in shared
  <1> USE DEF FootprintTypeOK
  <1>1. CASE UNCHANGED footprint
    BY <1>1 DEF footprint
  <1>2. CASE Outside(p)
    <2>1. gauge'[q] = gauge[q]
      BY <1>2 DEF Outside, SetActiveTenantCount, DeleteTenantMetrics
    <2>2. ASSUME NEW N, Removes(p, N) PROVE \A n \in NS : <<q, n>> \in shared' <=> <<q, n>> \in shared
      BY <2>2 DEF Removes
    <2>3. ASSUME NEW n \in NS, NEW m \in NS, Provisions(p, m)
          PROVE  <<q, n>> \in shared' <=> <<q, n>> \in shared
      BY <2>3 DEF Provisions
    <2>4. (\E N : Removes(p, N)) \/ (\E m \in NS : Provisions(p, m)) \/ UNCHANGED shared
      <3>1. CASE PartlyRemoved(p)
        BY <3>1 DEF PartlyRemoved
      <3>2. CASE ~PartlyRemoved(p)
        BY <1>2, <3>2 DEF Outside, CleanupEntry, Judged
      <3>3. QED BY <3>1, <3>2
    <2>5. QED BY <2>1, <2>2, <2>3, <2>4
  <1>3. QED BY <1>1, <1>2

\* The books stay in order.
LEMMA AccountNext ==
    ASSUME TypeOK, FinalizerNotForgotten, FootprintTypeOK, WakeInv, AccountInv,
           [FootprintNext]_<<vars, footprint>>
    PROVE  AccountInv'
  <1>0. \A q \in PO : Accounting(q) /\ at[q] \in NS \cup {None}
    BY DEF AccountInv, TypeOK, LocalsOK
  <1>1. CASE UNCHANGED <<vars, footprint>>
    BY <1>1 DEF vars, server, caches, wakeups, pass, footprint, AccountInv, Accounting, Undisturbed, Booked
  <1>2. CASE (Users \/ Cluster) /\ UNCHANGED footprint
    BY <1>0, <1>2, BesideOthers, AccountBeside DEF AccountInv, footprint
  <1>3. ASSUME NEW p \in PO, (Inside(p) /\ UNCHANGED footprint) \/ Outside(p)
        PROVE  AccountInv'
    <2>1. Start(p) \/ Step(p) \/ CallFails(p)
      BY <1>3 DEF Inside, Outside, CleanupEntry, Step
    <2>2. Accounting(p)'
      BY <1>0, <1>3, AccountInside, AccountOutside
    <2>3. \A q \in PO \ {p} : Accounting(q)'
      BY <1>0, <1>3, <2>1, BesidePass, OwnBooks, AccountBeside
    <2>4. QED BY <2>2, <2>3 DEF AccountInv
  <1>4. CASE RestartEmpty
    BY <1>4 DEF RestartEmpty, Restart, server, AccountInv, Accounting, Undisturbed
  <1>5. QED BY <1>1, <1>2, <1>3, <1>4 DEF FootprintNext

\* With no pass, timer or event left for a live PO that is not paused, the gauge
\* counts its active entries, each has its cluster-scoped objects and no offboarded
\* one has any, although nobody watches them: for all POs, names and claims, with
\* informers that lag, faults and restarts, while no spec label overwrites a managed one.
THEOREM QuietBooks == PlainLabels => (FootprintSpec => []QuietMeansAccounted)
  <1>1. WakeInv /\ AccountInv => QuietMeansAccounted
    <2> SUFFICES ASSUME WakeInv, AccountInv,
                        NEW p \in PO, Quiescent(p), po[p].state = "live", ~po[p].paused
                 PROVE  /\ gauge[p] = Cardinality({n \in NS : po[p].spec[n] = "active"})
                        /\ \A n \in NS : /\ po[p].spec[n] = "active" => <<p, n>> \in shared
                                         /\ po[p].spec[n] = "offboard" => <<p, n>> \notin shared
      BY DEF QuietMeansAccounted
    <2>1. Undisturbed(p)
      BY DEF Undisturbed, Quiescent, WakeInv, HandsInv, PassInHand
    <2>2. gauge[p] = ActiveTenantCount(po[p].spec) /\ \A n \in NS : Booked(p, n)
      BY <2>1 DEF AccountInv, Accounting, Quiescent
    <2>3. {n \in NS : po[p].spec[n] = "active"} = {n \in NS : po[p].spec[n] \in {"active", "override"}}
      BY DEF WakeInv, HandsInv, SpecsPlain, PlainSpec
    <2>4. QED BY <2>2, <2>3 DEF ActiveTenantCount, Booked
  <1>2. FootprintInit => AccountInv
    BY DEF FootprintInit, Init, NoObject, AccountInv, Accounting
  <1>3. ASSUME PlainLabels PROVE FootprintSpec => []QuietMeansAccounted
    <2>1. Spec => []WakeInv
      BY <1>3, WakeHolds
    <2>2. TypeOK /\ FinalizerNotForgotten /\ FootprintTypeOK /\ WakeInv /\ AccountInv
            /\ [FootprintNext]_<<vars, footprint>> => AccountInv'
      BY AccountNext
    <2>3. QED
      BY <1>1, <1>2, <2>1, <2>2, LayerImplements, TypeCorrect, FinalizerRemembered,
         FootprintTypeCorrect, PTL DEF FootprintSpec
  <1>4. QED BY <1>3

=============================================================================
