-------------------------- MODULE TenantFootprint --------------------------
(***************************************************************************)
(* What a PO leaves outside its tenant namespaces, on top of the passes of *)
(* TenantLifecycle: the gauge of its active tenants, which lives in the    *)
(* operator's memory, and the cluster-scoped objects of each tenant (Group *)
(* and EgressIP, enabled on every entry), which live in the API server and *)
(* are not watched.  Every step is a step of TenantLifecycle with what it  *)
(* does outside.  What the garbage collector takes of a PO that is gone    *)
(* is not followed: nothing below asks for the objects of such a PO.       *)
(***************************************************************************)
EXTENDS TenantLifecycle

VARIABLES
    gauge,      \* projectonboarding_tenants_total of each PO, None: no series
    shared      \* <<p, n>>: the cluster-scoped objects p made for tenant n

footprint == <<gauge, shared>>

\* A spec lists finitely many names.
ASSUME NamesAssumption == IsFiniteSet(NS)

FootprintInit ==
    /\ Init
    /\ gauge = [p \in PO |-> None]
    /\ shared = {}

\* The answer of the step's call has reached the pass.
Answered == faults' = faults

\* Enabled entries that are not offboarded.
ActiveTenantCount(spec) == Cardinality({n \in NS : spec[n] \in {"active", "override"}})

\* Mutant: the gauge is added to, not set.
AddActiveTenantCount(p) ==
    gauge' = IF ~Answered THEN gauge
             ELSE [gauge EXCEPT ![p] =
                      ActiveTenantCount(snap[p].spec) + IF @ = None THEN 0 ELSE @]

\* The gauge follows a status update that was answered; the failure of an
\* entry is returned only after it.
SetActiveTenantCount(p) ==
    gauge' = IF Answered THEN [gauge EXCEPT ![p] = ActiveTenantCount(snap[p].spec)] ELSE gauge

\* Mutant: the series stays when the PO goes.
KeepTenantMetrics(p) == UNCHANGED gauge

\* It goes after the finalizer, if the answer to that update arrives.
DeleteTenantMetrics(p) ==
    gauge' = IF Answered THEN [gauge EXCEPT ![p] = None] ELSE gauge

\* The objects of the tenants in N are removed (CleanupNamespaceClusterScoped).
Removes(p, N) == shared' = shared \ ({p} \X N)

\* The rest of ReconcileNamespace after the namespace; it may fail half way.
Provisions(p, n) ==
    \/ shared' = shared \cup {<<p, n>>}
    \/ ~Answered /\ shared' = shared

\* namespaceExists: whoever manages it, running or terminating.
NamespaceExists(n) == nsCache[n].phase # "absent"

\* Mutant: the listed names are not looked up.
ListedTenants(p) == {n \in NS : snap[p].spec[n] # "none"}

\* cleanupClusterScopedForReleasedTenants: the listed names, and those of
\* managed namespaces, that no namespace has any more.
ReleasedTenants(p) ==
    {n \in NS : (snap[p].spec[n] # "none" \/ ManagedBy(p, n)) /\ ~NamespaceExists(n)}

\* finalizeNamespaceEntry removes them when no managed namespace runs.
Judged(p, n) == IF ManagedNamespaceExists(p, n) THEN UNCHANGED shared ELSE Removes(p, {n})

\* A pass that fails in CleanupNamespace, or in one of the removals of a
\* finalization, may have got as far as the objects of the entry it was at.
PartlyRemoved(p) ==
    \/ UNCHANGED shared
    \/ \E n \in todo[p] \ todo'[p] :
          /\ at[p] = None /\ pc[p] \in Loops
          /\ snap[p].spec[n] = "offboard" \/ (pc[p] = "finalize" /\ ~ManagedNamespaceExists(p, n))
          /\ Removes(p, {n})
    \/ /\ pc[p] = "finalize" /\ todo[p] = {}
       /\ \E n \in ReleasedTenants(p) : Removes(p, {n})

\* Mutant: the cluster-scoped objects of an offboarded entry are forgotten.
ReadOffboardedOnly(p, n) == ReadOffboarded(p, n) /\ UNCHANGED shared

\* CleanupNamespace comes to them before it reads the namespace.
CleanupEntry(p, n) == ReadOffboarded(p, n) /\ Removes(p, {n})

\* The steps of a pass with an effect outside the tenant namespaces ...
Outside(p) ==
    \/ UpdateStatus(p) /\ SetActiveTenantCount(p) /\ UNCHANGED shared
    \/ RemoveFinalizer(p) /\ DeleteTenantMetrics(p) /\ UNCHANGED shared
    \/ /\ UNCHANGED gauge
       /\ \/ \E n \in NS : WriteTenant(p, n) /\ Provisions(p, n)
          \/ \E n \in NS : CleanupEntry(p, n)
          \/ \E n \in NS : JudgeEntry(p, n) /\ Judged(p, n)
          \/ ListOrphans(p) /\ Removes(p, ReleasedTenants(p))
          \/ CallFails(p) /\ PartlyRemoved(p)

\* ... and those without.
Inside(p) ==
    \/ Start(p) \/ FinalizerPresent(p) \/ AddFinalizer(p) \/ UpdateConflict(p)
    \/ ListOffboarded(p) \/ BeginEntries(p) \/ ReportBlocked(p)
    \/ \E n \in NS : DeleteOffboarded(p, n) \/ ReadTenant(p, n) \/ WriteTenantRefused(p, n)

\* A new operator starts without series; the API server keeps the rest.
RestartEmpty == Restart /\ gauge' = [p \in PO |-> None] /\ UNCHANGED shared

FootprintNext ==
    \/ (Users \/ Cluster \/ \E p \in PO : Inside(p)) /\ UNCHANGED footprint
    \/ \E p \in PO : Outside(p)
    \/ RestartEmpty

FootprintSpec == FootprintInit /\ [][FootprintNext]_<<vars, footprint>>
-----------------------------------------------------------------------------
\* Types: a series counts entries, and only tenants of POs have objects.
FootprintTypeOK ==
    /\ gauge \in [PO -> (0 .. Cardinality(NS)) \cup {None}]
    /\ shared \subseteq PO \X NS

\* A series of a PO that no longer holds its finalizer, and so will not be
\* visited again, is there only if an answer was lost: no pass that was overtaken
\* by the deletion sets it again after DeleteTenantMetrics (metrics.go:83).
GaugeOwned == \A p \in PO : gauge[p] # None => po[p].fin \/ faults > 0

\* With no pass, timer or event left for a live PO that is not paused, the books
\* outside agree with its spec, whatever failed, was overtaken or restarted on the
\* way: the gauge counts the active entries; an active entry has its objects and
\* an offboarded one has none, although nobody watches them.
QuietMeansAccounted ==
    \A p \in PO : Quiescent(p) /\ po[p].state = "live" /\ ~po[p].paused =>
        /\ gauge[p] = Cardinality({n \in NS : po[p].spec[n] = "active"})
        /\ \A n \in NS : /\ po[p].spec[n] = "active" => <<p, n>> \in shared
                         /\ po[p].spec[n] = "offboard" => <<p, n>> \notin shared

\* A tenant that runs, and is shown to run, keeps its Group and EgressIP until it is
\* offboarded: a blocked deletion, polled as often as it may be, takes nothing from
\* the tenants that block it (deletion.go:65).
TenantsKeepTheirs ==
    [][\A p \in PO, n \in NS :
          /\ <<p, n>> \in shared /\ <<p, n>> \notin shared'
          /\ Tenant(p, n) /\ nsCache[n] = ns[n]
          => Offboarded(p, n)]_<<vars, footprint>>
=============================================================================
