----------------------- MODULE TenantLifecycleProofs -----------------------
(***************************************************************************)
(* Theorems of TenantLifecycle that hold for every deployment: any number  *)
(* of POs, names, workers, edits and faults, names claimed twice or not,   *)
(* informers that lag or not.  Types first, then the inductive invariant   *)
(* FinalizerNotForgotten, then what follows from it.                       *)
(***************************************************************************)
EXTENDS TenantLifecycle, TLAPS

\* A pass that ends leaves locals of the right type, and an idle pass.
LEMMA FinishOK ==
    ASSUME NEW p \in PO, LocalsOK, \A q \in PO : PassOK(q), Finish(p)
    PROVE  LocalsOK' /\ \A q \in PO : PassOK(q)'
  <1>1. NoObject \in Object /\ NoNamespace \in Namespace
    BY DEF NoObject, Object, AllKinds, NoNamespace, Namespace
  <1>2. LocalsOK'
    BY <1>1 DEF LocalsOK, Finish, Stages
  <1>3. ASSUME NEW q \in PO PROVE PassOK(q)'
    <2>1. CASE q = p
      BY <2>1, ConstantsAssumption DEF LocalsOK, Finish, PassOK, Provisioning, Finalizing
    <2>2. CASE q # p
      BY <2>2 DEF LocalsOK, Finish, PassOK, Provisioning, Finalizing, Loops
    <2>3. QED BY <2>1, <2>2
  <1>4. QED BY <1>2, <1>3

\* The API server's write of a namespace keeps the types of all it touches.
LEMMA WriteNamespaceOK ==
    ASSUME NEW n \in NS, NEW rec \in Namespace, ServerOK, CachesOK,
           WriteNamespace(n, rec)
    PROVE  /\ ns' \in [NS -> Namespace]
           /\ nsCache' \in [NS -> Namespace]
           /\ owed' \in [NS -> SUBSET PO]
           /\ queue' \subseteq PO
  <1>1. Watchers(ns[n], rec) \subseteq PO
    BY DEF Watchers, ServerOK, Namespace
  <1>2. QED BY <1>1 DEF WriteNamespace, ServerOK, CachesOK

\* So does its delete call.
LEMMA DeleteNamespaceCallOK ==
    ASSUME NEW n \in NS, ServerOK, CachesOK, DeleteNamespaceCall(n)
    PROVE  /\ ns' \in [NS -> Namespace]
           /\ nsCache' \in [NS -> Namespace]
           /\ owed' \in [NS -> SUBSET PO]
           /\ queue' \subseteq PO
  <1>1. [ns[n] EXCEPT !.phase = "terminating"] \in Namespace
    BY DEF ServerOK, Namespace
  <1>2. QED
    BY <1>1, WriteNamespaceOK DEF DeleteNamespaceCall, NamespaceUntouched, ServerOK, CachesOK

\* So does a user's write of a PO.
LEMMA WriteObjectOK ==
    ASSUME NEW p \in PO, NEW rec \in Object, ServerOK, CachesOK, LocalsOK,
           WriteObject(p, rec)
    PROVE  /\ po' \in [PO -> Object]
           /\ poFresh' \in [PO -> BOOLEAN]
           /\ current' \in [PO -> BOOLEAN]
  BY DEF WriteObject, ServerOK, CachesOK, LocalsOK

\* A PO that gets its finalizer, or loses it for good, is still a PO.
LEMMA WithFinalizerOK ==
    ASSUME NEW o \in Object
    PROVE  /\ [o EXCEPT !.fin = TRUE] \in Object
           /\ [o EXCEPT !.fin = FALSE, !.state = "gone"] \in Object
  BY DEF Object

\* So is a status that a pass reports.
LEMMA ReportedOK ==
    ASSUME NEW st \in Status, NEW ph \in {"ready", "failed"}
    PROVE  [st EXCEPT !.phase = ph, !.observed = TRUE] \in Status
  BY DEF Status

\* The initial state, nothing created and no pass running, is well typed.
LEMMA InitTypeOK == Init => TypeOK
  <1> SUFFICES ASSUME Init PROVE TypeOK
    OBVIOUS
  <1>1. NoObject \in Object /\ NoNamespace \in Namespace
    BY DEF NoObject, Object, AllKinds, NoNamespace, Namespace
  <1>2. [phase |-> "none", pending |-> {}, observed |-> FALSE] \in Status
    BY DEF Status
  <1>3. ServerOK
    BY <1>1, <1>2 DEF Init, ServerOK
  <1>4. CachesOK
    BY <1>3 DEF Init, CachesOK, ServerOK
  <1>5. LocalsOK
    BY <1>1, <1>3 DEF Init, LocalsOK, Stages, ServerOK
  <1>6. ASSUME NEW p \in PO PROVE PassOK(p)
    BY DEF Init, PassOK, Provisioning, Finalizing
  <1>7. QED
    BY <1>3, <1>4, <1>5, <1>6, ConstantsAssumption DEF Init, TypeOK

\* The conjuncts of TypeOK a step leaves alone.
LEMMA StableOK ==
    ASSUME TypeOK
    PROVE  /\ UNCHANGED <<po, status, ns>> => ServerOK'
           /\ UNCHANGED <<caches, wakeups>> => CachesOK'
           /\ UNCHANGED pass => LocalsOK' /\ \A p \in PO : PassOK(p)'
  BY DEF TypeOK, ServerOK, CachesOK, LocalsOK, PassOK, Provisioning, Finalizing, Loops,
         caches, wakeups, pass

\* Informers, timers, the resync, the namespace controller and the garbage
\* collector keep the types.
LEMMA ClusterTypeOK == ASSUME TypeOK, Cluster PROVE TypeOK'
  <1> USE StableOK DEF server, bounds
  <1>1. ASSUME NEW p \in PO, SyncObject(p) PROVE TypeOK'
    <2>1. CachesOK'
      BY <1>1 DEF SyncObject, TypeOK, ServerOK, CachesOK
    <2>2. QED BY <1>1, <2>1 DEF SyncObject, TypeOK
  <1>2. ASSUME NEW p \in PO, TimerFires(p) PROVE TypeOK'
    <2>1. CachesOK'
      BY <1>2 DEF TimerFires, TypeOK, CachesOK, caches
    <2>2. QED BY <1>2, <2>1 DEF TimerFires, TypeOK
  <1>3. ASSUME NEW p \in PO, Resync(p) PROVE TypeOK'
    <2>1. CachesOK'
      BY <1>3 DEF Resync, TypeOK, CachesOK, caches
    <2>2. QED BY <1>3, <2>1 DEF Resync, TypeOK
  <1>4. ASSUME NEW n \in NS, SyncNamespace(n) PROVE TypeOK'
    <2>1. CachesOK'
      BY <1>4 DEF SyncNamespace, TypeOK, ServerOK, CachesOK
    <2>2. QED BY <1>4, <2>1 DEF SyncNamespace, TypeOK
  <1>5. ASSUME NEW n \in NS, NamespaceTerminated(n) PROVE TypeOK'
    <2>1. NoNamespace \in Namespace
      BY DEF NoNamespace, Namespace
    <2>2. CachesOK' /\ ServerOK'
      BY <1>5, <2>1, WriteNamespaceOK DEF NamespaceTerminated, TypeOK, ServerOK, CachesOK
    <2>3. QED BY <1>5, <2>2 DEF NamespaceTerminated, TypeOK
  <1>6. ASSUME NEW n \in NS, GarbageCollect(n) PROVE TypeOK'
    <2>1. CachesOK' /\ ServerOK'
      BY <1>6, DeleteNamespaceCallOK DEF GarbageCollect, TypeOK, ServerOK, CachesOK
    <2>2. QED BY <1>6, <2>1 DEF GarbageCollect, TypeOK
  <1>7. QED BY <1>1, <1>2, <1>3, <1>4, <1>5, <1>6 DEF Cluster

\* A user's write of a PO disturbs po, poFresh and current, and no pass.
LEMMA UserWriteOK ==
    ASSUME TypeOK, NEW p \in PO, NEW rec \in Object, WriteObject(p, rec),
           status' \in [PO -> Status], edits' \in 0 .. MaxEdits,
           UNCHANGED <<ns, poCache, nsCache, owed, wakeups, pc, snap, todo, at,
                       seen, pending, failed, faults>>
    PROVE  TypeOK'
  <1>1. po' \in [PO -> Object] /\ poFresh' \in [PO -> BOOLEAN] /\ current' \in [PO -> BOOLEAN]
    BY WriteObjectOK DEF TypeOK
  <1>2. ServerOK' /\ CachesOK' /\ LocalsOK'
    BY <1>1 DEF TypeOK, ServerOK, CachesOK, LocalsOK, wakeups
  <1>3. \A q \in PO : PassOK(q)'
    BY DEF TypeOK, PassOK, Provisioning, Finalizing, Loops
  <1>4. QED BY <1>2, <1>3 DEF TypeOK

\* Users' edits keep the types.
LEMMA UsersTypeOK == ASSUME TypeOK, Users PROVE TypeOK'
  <1> USE ConstantsAssumption
  <1>0. Edit => edits' \in 0 .. MaxEdits /\ faults' = faults
    BY DEF Edit, TypeOK
  <1>1. ASSUME NEW p \in PO, CreateObject(p) PROVE TypeOK'
    <2>1. PICK spec \in [NS -> Kinds] :
             WriteObject(p, [NoObject EXCEPT !.state = "live", !.spec = spec])
      BY <1>1 DEF CreateObject
    <2>2. [NoObject EXCEPT !.state = "live", !.spec = spec] \in Object
      BY DEF NoObject, Object
    <2>3. QED
      BY <1>1, <2>1, <2>2, UserWriteOK DEF CreateObject, TypeOK, ServerOK, bounds
  <1>2. ASSUME NEW p \in PO, EditSpec(p) PROVE TypeOK'
    <2>1. PICK n \in Claims[p], k \in Kinds : WriteObject(p, [po[p] EXCEPT !.spec[n] = k])
      BY <1>2 DEF EditSpec
    <2>2. [po[p] EXCEPT !.spec[n] = k] \in Object
      BY DEF Object, TypeOK, ServerOK
    <2>3. status' \in [PO -> Status]
      BY <1>2 DEF EditSpec, TypeOK, ServerOK, Status
    <2>4. QED
      BY <1>0, <1>2, <2>1, <2>2, <2>3, UserWriteOK DEF EditSpec
  <1>3. ASSUME NEW p \in PO, TogglePause(p) PROVE TypeOK'
    <2>1. [po[p] EXCEPT !.paused = ~po[p].paused] \in Object
      BY DEF Object, TypeOK, ServerOK
    <2>2. QED
      BY <1>0, <1>3, <2>1, UserWriteOK DEF TogglePause, TypeOK, ServerOK
  <1>4. ASSUME NEW p \in PO, DeleteObject(p) PROVE TypeOK'
    <2>1. [po[p] EXCEPT !.state = IF po[p].fin THEN "deleting" ELSE "gone"] \in Object
      BY DEF Object, TypeOK, ServerOK
    <2>2. QED
      BY <1>0, <1>4, <2>1, UserWriteOK DEF DeleteObject, TypeOK, ServerOK
  <1>5. ASSUME NEW n \in NS, UserCreatesNamespace(n) PROVE TypeOK'
    <2>1. [NoNamespace EXCEPT !.phase = "active"] \in Namespace
      BY DEF NoNamespace, Namespace
    <2>2. CachesOK' /\ ServerOK'
      BY <1>5, <2>1, WriteNamespaceOK DEF UserCreatesNamespace, TypeOK, ServerOK, CachesOK
    <2>3. QED BY <1>0, <1>5, <2>2, StableOK DEF UserCreatesNamespace, TypeOK
  <1>6. ASSUME NEW n \in NS, UserDeletesNamespace(n) PROVE TypeOK'
    <2>1. CachesOK' /\ ServerOK'
      BY <1>6, DeleteNamespaceCallOK DEF UserDeletesNamespace, TypeOK, ServerOK, CachesOK
    <2>2. QED BY <1>0, <1>6, <2>1, StableOK DEF UserDeletesNamespace, TypeOK
  <1>7. QED BY <1>1, <1>2, <1>3, <1>4, <1>5, <1>6 DEF Users

\* How a pass may end or move on: LocalsOK, PassOK and the timers survive it.
LEMMA EndsOK ==
    ASSUME TypeOK, NEW p \in PO, Done(p) \/ Retry(p)
    PROVE  LocalsOK' /\ (\A q \in PO : PassOK(q)') /\ delayed' \subseteq PO
  BY FinishOK DEF Done, Retry, TypeOK, CachesOK

\* An entry that is done leaves a pass that holds no entry.
LEMMA EntryDoneOK ==
    ASSUME TypeOK, NEW p \in PO, NEW n \in NS, EntryDone(p, n)
    PROVE  LocalsOK' /\ (\A q \in PO : PassOK(q)') /\ delayed' \subseteq PO
  <1>1. NoNamespace \in Namespace
    BY DEF NoNamespace, Namespace
  <1>2. LocalsOK' /\ delayed' \subseteq PO
    BY <1>1 DEF EntryDone, Leaves, TypeOK, LocalsOK, CachesOK
  <1>3. \A q \in PO : PassOK(q)'
    BY DEF EntryDone, Leaves, TypeOK, LocalsOK, PassOK
  <1>4. QED BY <1>2, <1>3

\* So does one that fails, in the loop over the entries or by ending the pass.
LEMMA EntryFailsOK ==
    ASSUME TypeOK, NEW p \in PO, NEW n \in NS, EntryFails(p, n)
    PROVE  LocalsOK' /\ (\A q \in PO : PassOK(q)') /\ delayed' \subseteq PO
  <1>1. CASE pc[p] = "entries"
    <2>1. NoNamespace \in Namespace
      BY DEF NoNamespace, Namespace
    <2>2. LocalsOK' /\ delayed' \subseteq PO
      <3>1. failed' = [failed EXCEPT ![p] = TRUE] /\ failed \in [PO -> BOOLEAN]
        BY <1>1 DEF EntryFails, TypeOK, LocalsOK
      <3>2. failed' \in [PO -> BOOLEAN]
        BY <3>1
      <3>3. QED
        BY <1>1, <2>1, <3>2 DEF EntryFails, Leaves, TypeOK, LocalsOK, CachesOK
    <2>3. \A q \in PO : PassOK(q)'
      BY <1>1 DEF EntryFails, Leaves, TypeOK, LocalsOK, PassOK
    <2>4. QED BY <2>2, <2>3
  <1>2. CASE pc[p] # "entries"
    BY <1>2, EndsOK DEF EntryFails
  <1>3. QED BY <1>1, <1>2

\* A read puts the entry in work, and is made inside a loop only.
LEMMA ReadsOK ==
    ASSUME TypeOK, NEW p \in PO, NEW n \in NS, Visits(p, n), Reads(p, n),
           pc[p] \in Loops, pc[p] = "entries" \/ snap[p].spec[n] = "offboard"
    PROVE  LocalsOK' /\ (\A q \in PO : PassOK(q)') /\ delayed' \subseteq PO
  <1>1. LocalsOK' /\ delayed' \subseteq PO
    BY DEF Reads, TypeOK, LocalsOK, CachesOK
  <1>2. \A q \in PO : PassOK(q)'
    BY DEF Reads, Visits, TypeOK, LocalsOK, PassOK, Loops
  <1>3. QED BY <1>1, <1>2

\* A lost answer counts as a fault, within the bound.
LEMMA AnswerOK ==
    ASSUME TypeOK, NEW ok \in BOOLEAN, Answer(ok)
    PROVE  edits' \in 0 .. MaxEdits /\ faults' \in 0 .. MaxFaults
  BY ConstantsAssumption DEF Answer, TypeOK

\* A stage change of pass p that keeps the snapshot and holds no entry.
LEMMA GotoOK ==
    ASSUME TypeOK, NEW p \in PO, NEW stage \in Stages \ {"idle"}, NEW S \in SUBSET NS,
           Goto(p, stage), at[p] = None, todo' = [todo EXCEPT ![p] = S],
           UNCHANGED <<snap, current, at, seen, failed>>, pending' \in [PO -> SUBSET NS],
           stage \in Provisioning \cup {"ensure"} => snap[p].state = "live",
           stage \in Finalizing => snap[p].state = "deleting"
    PROVE  LocalsOK' /\ \A q \in PO : PassOK(q)'
  <1>1. LocalsOK'
    BY DEF Goto, TypeOK, LocalsOK
  <1>2. \A q \in PO : PassOK(q)'
    BY DEF Goto, TypeOK, LocalsOK, PassOK
  <1>3. QED BY <1>1, <1>2

\* A pass starts with a live copy in ensure, with a deleted one in finalize.
LEMMA StartTypeOK == ASSUME TypeOK, NEW p \in PO, Start(p) PROVE TypeOK'
  <1>1. queue' \subseteq PO /\ UNCHANGED <<server, caches, delayed, bounds>>
    BY DEF Start, TypeOK, CachesOK
  <1>2. ServerOK' /\ CachesOK' /\ UNCHANGED <<edits, faults>>
    BY <1>1 DEF TypeOK, ServerOK, CachesOK, server, caches, bounds
  <1>3. at[p] = None /\ todo[p] = {}
    BY DEF Start, TypeOK, PassOK
  <1>4. LocalsOK' /\ \A q \in PO : PassOK(q)'
    <2>1. CASE UNCHANGED <<pc, snap, current, todo>>
      BY <2>1, StableOK DEF Start, pass
    <2>2. CASE /\ poCache[p].state = "live" /\ Goto(p, "ensure")
               /\ snap' = [snap EXCEPT ![p] = poCache[p]]
               /\ current' = [current EXCEPT ![p] = poFresh[p]]
               /\ UNCHANGED todo
      <3>1. LocalsOK'
        BY <2>2 DEF Start, Goto, TypeOK, LocalsOK, CachesOK, Stages
      <3>2. \A q \in PO : PassOK(q)'
        BY <1>3, <2>2 DEF Start, Goto, TypeOK, LocalsOK, CachesOK, PassOK, Provisioning, Finalizing, Loops
      <3>3. QED BY <3>1, <3>2
    <2>3. CASE /\ poCache[p].state = "deleting" /\ Goto(p, "finalize")
               /\ snap' = [snap EXCEPT ![p] = poCache[p]]
               /\ current' = [current EXCEPT ![p] = poFresh[p]]
               /\ todo' = [todo EXCEPT ![p] = {n \in NS : poCache[p].spec[n] # "none"}]
      <3>1. LocalsOK'
        BY <2>3 DEF Start, Goto, TypeOK, LocalsOK, CachesOK, Stages
      <3>2. \A q \in PO : PassOK(q)'
        BY <1>3, <2>3 DEF Start, Goto, TypeOK, LocalsOK, CachesOK, PassOK, Provisioning, Finalizing, Loops
      <3>3. QED BY <3>1, <3>2
    <2>4. QED BY <2>1, <2>2, <2>3 DEF Start
  <1>5. QED BY <1>2, <1>4 DEF TypeOK

\* Every step of a pass keeps the types and what its stage holds.
LEMMA StepTypeOK == ASSUME TypeOK, NEW p \in PO, Step(p) PROVE TypeOK'
  <1> USE DEF bounds, server, caches, wakeups
  <1>1. CASE FinalizerPresent(p)
    <2>1. LocalsOK' /\ (\A q \in PO : PassOK(q)') /\ delayed' \subseteq PO
      <3>1. CASE snap[p].paused
        BY <1>1, <3>1, EndsOK DEF FinalizerPresent, AfterEnsure
      <3>2. CASE ~snap[p].paused
        <4>1. at[p] = None /\ snap[p].state = "live" /\ todo' = [todo EXCEPT ![p] = todo[p]]
          BY <1>1, <3>2 DEF FinalizerPresent, AfterEnsure, TypeOK, LocalsOK, PassOK, Loops
        <4>2. "list" \in Stages \ {"idle"} /\ "list" \notin Finalizing
          BY DEF Stages, Finalizing
        <4>3. QED
          BY <1>1, <3>2, <4>1, <4>2, GotoOK DEF FinalizerPresent, AfterEnsure, TypeOK, LocalsOK, CachesOK
      <3>3. QED BY <3>1, <3>2
    <2>2. QED BY <1>1, <2>1 DEF FinalizerPresent, TypeOK, ServerOK, CachesOK
  <1>2. CASE AddFinalizer(p)
    <2>1. PICK ok \in BOOLEAN : Answer(ok) /\
             IF ok /\ ~snap[p].paused
             THEN /\ Goto(p, "list")
                  /\ snap' = [snap EXCEPT ![p].fin = TRUE]
                  /\ UNCHANGED <<delayed, current, todo, at, seen, pending, failed>>
             ELSE IF ok THEN Done(p) ELSE Retry(p)
      BY <1>2 DEF AddFinalizer
    <2>2. LocalsOK' /\ (\A q \in PO : PassOK(q)') /\ delayed' \subseteq PO
      <3>1. CASE ok /\ ~snap[p].paused
        <4>1. [snap[p] EXCEPT !.fin = TRUE] \in Object
          BY DEF TypeOK, LocalsOK, Object
        <4>2. LocalsOK' /\ delayed' \subseteq PO
          BY <2>1, <3>1, <4>1 DEF Goto, TypeOK, LocalsOK, CachesOK, Stages
        <4>3. at[p] = None /\ snap'[p].state = "live"
          <5>1. at[p] = None /\ snap[p].state = "live"
            BY <1>2 DEF AddFinalizer, TypeOK, LocalsOK, PassOK, Loops
          <5>2. snap'[p] = [snap[p] EXCEPT !.fin = TRUE]
            BY <2>1, <3>1 DEF TypeOK, LocalsOK
          <5>3. QED
            BY <5>1, <5>2 DEF TypeOK, LocalsOK, Object
        <4>4. \A q \in PO : PassOK(q)'
          BY <2>1, <3>1, <4>3 DEF Goto, TypeOK, LocalsOK, PassOK, Finalizing
        <4>5. QED BY <4>2, <4>4
      <3>2. CASE ~(ok /\ ~snap[p].paused)
        BY <2>1, <3>2, EndsOK
      <3>3. QED BY <3>1, <3>2
    <2>3. po' \in [PO -> Object]
      <3>1. po \in [PO -> Object] /\ po' = [po EXCEPT ![p] = [po[p] EXCEPT !.fin = TRUE]]
        BY <1>2 DEF AddFinalizer, TypeOK, ServerOK
      <3>2. QED BY <3>1, WithFinalizerOK
    <2>4. poFresh' \in [PO -> BOOLEAN]
      BY <1>2 DEF AddFinalizer, TypeOK, CachesOK
    <2>5. QED BY <1>2, <2>1, <2>2, <2>3, <2>4, AnswerOK DEF AddFinalizer, TypeOK, ServerOK, CachesOK
  <1>3. CASE UpdateConflict(p)
    BY <1>3, EndsOK DEF UpdateConflict, TypeOK, ServerOK, CachesOK
  <1>4. CASE ListOffboarded(p)
    <2>1. at[p] = None /\ snap[p].state = "live"
      BY <1>4 DEF ListOffboarded, TypeOK, LocalsOK, PassOK, Loops, Provisioning
    <2>2. "prune" \in Stages \ {"idle"} /\ "prune" \notin Finalizing
      BY DEF Stages, Finalizing
    <2>3. LocalsOK' /\ \A q \in PO : PassOK(q)'
      BY <1>4, <2>1, <2>2, GotoOK DEF ListOffboarded, TypeOK, LocalsOK
    <2>4. QED BY <1>4, <2>3 DEF ListOffboarded, TypeOK, ServerOK, CachesOK
  <1>5. CASE BeginEntries(p)
    <2>1. at[p] = None /\ snap[p].state = "live"
      BY <1>5 DEF BeginEntries, TypeOK, LocalsOK, PassOK, Loops, Provisioning
    <2>2. "entries" \in Stages \ {"idle"} /\ "entries" \notin Finalizing
      BY DEF Stages, Finalizing
    <2>3. LocalsOK' /\ \A q \in PO : PassOK(q)'
      BY <1>5, <2>1, <2>2, GotoOK DEF BeginEntries, TypeOK, LocalsOK
    <2>4. QED BY <1>5, <2>3 DEF BeginEntries, TypeOK, ServerOK, CachesOK
  <1>6. ASSUME NEW n \in NS, ReadOffboarded(p, n) PROVE TypeOK'
    <2>1. LocalsOK' /\ (\A q \in PO : PassOK(q)') /\ delayed' \subseteq PO
      BY <1>6, ReadsOK, EntryDoneOK DEF ReadOffboarded, Loops
    <2>2. QED BY <1>6, <2>1 DEF ReadOffboarded, TypeOK, ServerOK, CachesOK
  <1>7. ASSUME NEW n \in NS, DeleteOffboarded(p, n) PROVE TypeOK'
    <2>1. PICK ok \in BOOLEAN : Answer(ok) /\ IF ok THEN EntryDone(p, n) ELSE EntryFails(p, n)
      BY <1>7 DEF DeleteOffboarded
    <2>2. LocalsOK' /\ (\A q \in PO : PassOK(q)') /\ delayed' \subseteq PO
      BY <2>1, EntryDoneOK, EntryFailsOK
    <2>3. QED
      BY <1>7, <2>1, <2>2, AnswerOK, DeleteNamespaceCallOK
      DEF DeleteOffboarded, TypeOK, ServerOK, CachesOK
  <1>8. ASSUME NEW n \in NS, ReadTenant(p, n) PROVE TypeOK'
    <2>1. LocalsOK' /\ (\A q \in PO : PassOK(q)') /\ delayed' \subseteq PO
      BY <1>8, ReadsOK, EntryFailsOK DEF ReadTenant, Loops
    <2>2. QED BY <1>8, <2>1 DEF ReadTenant, TypeOK, ServerOK, CachesOK
  <1>9. ASSUME NEW n \in NS, WriteTenant(p, n) PROVE TypeOK'
    <2>1. PICK ok \in BOOLEAN : Answer(ok) /\ IF ok THEN EntryDone(p, n) ELSE EntryFails(p, n)
      BY <1>9 DEF WriteTenant
    <2>2. LocalsOK' /\ (\A q \in PO : PassOK(q)') /\ delayed' \subseteq PO
      BY <2>1, EntryDoneOK, EntryFailsOK
    <2>3. DesiredLabel(p, n) \in PO \cup {None}
      BY DEF DesiredLabel
    <2>4. /\ [phase |-> "active", label |-> DesiredLabel(p, n), owner |-> p] \in Namespace
          /\ Patched(p, n) \in Namespace
      BY <2>3 DEF Namespace, Patched, TypeOK, ServerOK
    <2>5. QED
      BY <1>9, <2>1, <2>2, <2>4, AnswerOK, WriteNamespaceOK
      DEF WriteTenant, TypeOK, ServerOK, CachesOK
  <1>10. ASSUME NEW n \in NS, WriteTenantRefused(p, n) PROVE TypeOK'
    BY <1>10, EntryFailsOK DEF WriteTenantRefused, TypeOK, ServerOK, CachesOK
  <1>11. CASE UpdateStatus(p)
    <2>1. PICK ok \in BOOLEAN : Answer(ok) /\ IF ok /\ ~failed[p] THEN Done(p) ELSE Retry(p)
      BY <1>11 DEF UpdateStatus
    <2>2. status' \in [PO -> Status]
      <3>1. PICK ph \in {"ready", "failed"} :
              status' = [status EXCEPT ![p] = [status[p] EXCEPT !.phase = ph, !.observed = TRUE]]
        BY <1>11 DEF UpdateStatus, WriteStatus
      <3>2. status \in [PO -> Status]
        BY DEF TypeOK, ServerOK
      <3>3. QED BY <3>1, <3>2, ReportedOK
    <2>3. poFresh' \in [PO -> BOOLEAN]
      BY <1>11 DEF UpdateStatus, WriteStatus, TypeOK, CachesOK
    <2>4. QED
      BY <1>11, <2>1, <2>2, <2>3, AnswerOK, EndsOK DEF UpdateStatus, TypeOK, ServerOK, CachesOK
  <1>12. ASSUME NEW n \in NS, JudgeEntry(p, n) PROVE TypeOK'
    <2>1. NoNamespace \in Namespace
      BY DEF NoNamespace, Namespace
    <2>2. LocalsOK'
      BY <1>12, <2>1 DEF JudgeEntry, Leaves, TypeOK, LocalsOK
    <2>3. \A q \in PO : PassOK(q)'
      BY <1>12 DEF JudgeEntry, Leaves, TypeOK, LocalsOK, PassOK
    <2>4. QED BY <1>12, <2>2, <2>3 DEF JudgeEntry, TypeOK, ServerOK, CachesOK
  <1>13. CASE ListOrphans(p)
    <2>1. at[p] = None /\ snap[p].state = "deleting" /\ todo' = [todo EXCEPT ![p] = todo[p]]
      BY <1>13 DEF ListOrphans, TypeOK, LocalsOK, PassOK, Loops, Finalizing
    <2>2. "settle" \in Stages \ {"idle"} /\ "settle" \notin Provisioning \cup {"ensure"}
      BY DEF Stages, Provisioning
    <2>3. pending' \in [PO -> SUBSET NS]
      BY <1>13 DEF ListOrphans, Orphans, TypeOK, LocalsOK
    <2>4. LocalsOK' /\ \A q \in PO : PassOK(q)'
      BY <1>13, <2>1, <2>2, <2>3, GotoOK DEF ListOrphans, TypeOK, LocalsOK
    <2>5. QED BY <1>13, <2>4 DEF ListOrphans, TypeOK, ServerOK, CachesOK
  <1>14. CASE ReportBlocked(p)
    <2>1. [status[p] EXCEPT !.phase = "blocked", !.pending = pending[p]] \in Status
      <3>1. status[p] \in Status /\ pending[p] \in SUBSET NS
        BY DEF TypeOK, ServerOK, LocalsOK
      <3>2. ASSUME NEW st \in Status, NEW S \in SUBSET NS
            PROVE  [st EXCEPT !.phase = "blocked", !.pending = S] \in Status
        BY DEF Status
      <3>3. QED BY <3>1, <3>2
    <2>2. CASE current[p]
      <3>1. status' \in [PO -> Status]
        BY <1>14, <2>1, <2>2 DEF ReportBlocked, WriteStatus, TypeOK, ServerOK
      <3>2. poFresh' \in [PO -> BOOLEAN]
        BY <1>14, <2>2 DEF ReportBlocked, WriteStatus, TypeOK, CachesOK
      <3>3. QED BY <1>14, <3>1, <3>2, EndsOK DEF ReportBlocked, TypeOK, ServerOK, CachesOK
    <2>3. CASE ~current[p]
      BY <1>14, <2>3, EndsOK DEF ReportBlocked, TypeOK, ServerOK, CachesOK
    <2>4. QED BY <2>2, <2>3
  <1>15. CASE RemoveFinalizer(p)
    <2>1. PICK ok \in BOOLEAN : Answer(ok) /\ IF ok THEN Done(p) ELSE Retry(p)
      BY <1>15 DEF RemoveFinalizer
    <2>2. po' \in [PO -> Object]
      <3>1. /\ po \in [PO -> Object]
            /\ po' = [po EXCEPT ![p] = [po[p] EXCEPT !.fin = FALSE, !.state = "gone"]]
        BY <1>15 DEF RemoveFinalizer, TypeOK, ServerOK
      <3>2. QED BY <3>1, WithFinalizerOK
    <2>3. poFresh' \in [PO -> BOOLEAN]
      BY <1>15 DEF RemoveFinalizer, TypeOK, CachesOK
    <2>4. QED
      BY <1>15, <2>1, <2>2, <2>3, AnswerOK, EndsOK DEF RemoveFinalizer, TypeOK, ServerOK, CachesOK
  <1>16. QED
    BY <1>1, <1>2, <1>3, <1>4, <1>5, <1>6, <1>7, <1>8, <1>9, <1>10, <1>11, <1>12,
       <1>13, <1>14, <1>15 DEF Step

\* A failed call and a restart keep the types.
LEMMA FaultsTypeOK ==
    ASSUME TypeOK, Restart \/ \E p \in PO : CallFails(p)
    PROVE  TypeOK'
  <1> USE ConstantsAssumption DEF server, caches
  <1>1. ASSUME NEW p \in PO, CallFails(p) PROVE TypeOK'
    <2>1. LocalsOK' /\ (\A q \in PO : PassOK(q)') /\ delayed' \subseteq PO
      <3>1. todo[p] \subseteq NS
        BY DEF TypeOK, LocalsOK
      <3>2. QED BY <1>1, <3>1, EntryFailsOK, EndsOK DEF CallFails
    <2>2. QED BY <1>1, <2>1 DEF CallFails, TypeOK, ServerOK, CachesOK
  <1>2. CASE Restart
    <2>1. NoObject \in Object /\ NoNamespace \in Namespace
      BY DEF NoObject, Object, AllKinds, NoNamespace, Namespace
    <2>2. ServerOK' /\ CachesOK'
      BY <1>2 DEF Restart, TypeOK, ServerOK, CachesOK
    <2>3. LocalsOK'
      BY <1>2, <2>1 DEF Restart, LocalsOK, Stages
    <2>4. \A q \in PO : PassOK(q)'
      BY <1>2 DEF Restart, PassOK, Provisioning, Finalizing
    <2>5. QED BY <1>2, <2>2, <2>3, <2>4 DEF Restart, TypeOK
  <1>3. QED BY <1>1, <1>2

\* The inductive step of type correctness.
LEMMA NextTypeOK == TypeOK /\ [Next]_vars => TypeOK'
  <1> SUFFICES ASSUME TypeOK, [Next]_vars PROVE TypeOK'
    OBVIOUS
  <1>1. CASE UNCHANGED vars
    BY <1>1, StableOK DEF vars, server, bounds, TypeOK
  <1>2. QED
    BY <1>1, UsersTypeOK, ClusterTypeOK, StartTypeOK, StepTypeOK, FaultsTypeOK DEF Next

\* Every variable keeps its type, and a pass holds in each stage what that
\* stage of Reconcile holds, for all POs, names, claims, bounds and lags.
THEOREM TypeCorrect == Spec => []TypeOK
  BY InitTypeOK, NextTypeOK, PTL DEF Spec

-----------------------------------------------------------------------------
(***************************************************************************)
(* Provisioning happens under the finalizer, for any lag of the caches.    *)
(***************************************************************************)

\* A step that touches neither the POs nor their copies nor the stages.
LEMMA FinalizerStable ==
    ASSUME FinalizerNotForgotten, UNCHANGED <<po, poCache, poFresh, pc, snap, current>>
    PROVE  FinalizerNotForgotten'
  BY DEF FinalizerNotForgotten, FinalizerKnown, Provisioning, Finalizing

\* A pass ends and the PO stays as it is.
LEMMA FinalizerFinish ==
    ASSUME TypeOK, FinalizerNotForgotten, NEW p \in PO, Finish(p),
           UNCHANGED <<po, poCache>>, poFresh' \in [PO -> BOOLEAN],
           \A q \in PO : poFresh'[q] => poFresh[q]
    PROVE  FinalizerNotForgotten'
  <1>1. ASSUME NEW q \in PO PROVE FinalizerKnown(q)'
    BY DEF Finish, TypeOK, LocalsOK, FinalizerNotForgotten, FinalizerKnown, Provisioning, Finalizing
  <1>2. QED BY <1>1 DEF FinalizerNotForgotten

\* No PO exists at first, hence no finalizer.
LEMMA FinalizerInit == Init => FinalizerNotForgotten
  BY DEF Init, NoObject, FinalizerNotForgotten, FinalizerKnown, Provisioning, Finalizing

\* Users' writes make every copy stale and touch no finalizer.
LEMMA FinalizerUsers ==
    ASSUME TypeOK, FinalizerNotForgotten, Users PROVE FinalizerNotForgotten'
  <1>1. ASSUME NEW p \in PO, NEW rec \in Object, WriteObject(p, rec),
               UNCHANGED <<poCache, pc, snap>>,
               rec.fin = po[p].fin,
               rec.fin => rec.state \in {"live", "deleting"},
               rec.state = "deleting" => rec.fin,
               po[p].state \in {"deleting", "gone"} => rec.state \in {"deleting", "gone"}
        PROVE  FinalizerNotForgotten'
    <2>1. ASSUME NEW q \in PO PROVE FinalizerKnown(q)'
      <3>1. CASE q = p
        BY <1>1, <3>1 DEF WriteObject, TypeOK, ServerOK, CachesOK, LocalsOK,
              FinalizerNotForgotten, FinalizerKnown, Provisioning, Finalizing
      <3>2. CASE q # p
        BY <1>1, <3>2 DEF WriteObject, TypeOK, ServerOK, CachesOK, LocalsOK,
              FinalizerNotForgotten, FinalizerKnown, Provisioning, Finalizing
      <3>3. QED BY <3>1, <3>2
    <2>2. QED BY <2>1 DEF FinalizerNotForgotten
  <1>2. ASSUME NEW p \in PO, CreateObject(p) PROVE FinalizerNotForgotten'
    <2>1. PICK spec \in [NS -> Kinds] :
             WriteObject(p, [NoObject EXCEPT !.state = "live", !.spec = spec])
      BY <1>2 DEF CreateObject
    <2>2. /\ [NoObject EXCEPT !.state = "live", !.spec = spec] \in Object
          /\ [NoObject EXCEPT !.state = "live", !.spec = spec].state = "live"
          /\ ~[NoObject EXCEPT !.state = "live", !.spec = spec].fin
      BY ConstantsAssumption DEF NoObject, Object
    <2>3. po[p].state = "absent" /\ ~po[p].fin
      BY <1>2 DEF CreateObject, FinalizerNotForgotten, FinalizerKnown
    <2>4. [NoObject EXCEPT !.state = "live", !.spec = spec].fin = po[p].fin
      <3>1. [NoObject EXCEPT !.state = "live", !.spec = spec].fin = FALSE
        BY DEF NoObject
      <3>2. po[p].fin \in BOOLEAN
        BY DEF TypeOK, ServerOK, Object
      <3>3. QED BY <2>3, <3>1, <3>2
    <2>5. QED
      BY <1>1, <1>2, <2>1, <2>2, <2>3, <2>4 DEF CreateObject
  <1>3. ASSUME NEW p \in PO, EditSpec(p) PROVE FinalizerNotForgotten'
    <2>1. PICK n \in Claims[p], k \in Kinds : WriteObject(p, [po[p] EXCEPT !.spec[n] = k])
      BY <1>3 DEF EditSpec
    <2>2. /\ [po[p] EXCEPT !.spec[n] = k] \in Object
          /\ [po[p] EXCEPT !.spec[n] = k].state = po[p].state
          /\ [po[p] EXCEPT !.spec[n] = k].fin = po[p].fin
      BY ConstantsAssumption DEF Object, TypeOK, ServerOK
    <2>3. QED
      BY <1>1, <1>3, <2>1, <2>2 DEF EditSpec, FinalizerNotForgotten, FinalizerKnown
  <1>4. ASSUME NEW p \in PO, TogglePause(p) PROVE FinalizerNotForgotten'
    <2>1. /\ [po[p] EXCEPT !.paused = ~po[p].paused] \in Object
          /\ [po[p] EXCEPT !.paused = ~po[p].paused].state = po[p].state
          /\ [po[p] EXCEPT !.paused = ~po[p].paused].fin = po[p].fin
      BY DEF Object, TypeOK, ServerOK
    <2>2. QED
      BY <1>1, <1>4, <2>1 DEF TogglePause, FinalizerNotForgotten, FinalizerKnown
  <1>5. ASSUME NEW p \in PO, DeleteObject(p) PROVE FinalizerNotForgotten'
    <2> DEFINE rec == [po[p] EXCEPT !.state = IF po[p].fin THEN "deleting" ELSE "gone"]
    <2>1. /\ rec \in Object
          /\ rec.state = IF po[p].fin THEN "deleting" ELSE "gone"
          /\ rec.fin = po[p].fin
      BY DEF Object, TypeOK, ServerOK
    <2>2. WriteObject(p, rec) /\ UNCHANGED <<poCache, pc, snap>> /\ po[p].state = "live"
      BY <1>5 DEF DeleteObject
    <2>3. /\ rec.fin => rec.state = "deleting"
          /\ rec.state = "deleting" => rec.fin
      BY <2>1
    <2>4. QED
      <3> HIDE DEF rec
      <3>1. QED BY <1>1, <2>1, <2>2, <2>3
  <1>6. ASSUME NEW n \in NS, UserCreatesNamespace(n) \/ UserDeletesNamespace(n)
        PROVE  FinalizerNotForgotten'
    BY <1>6, FinalizerStable DEF UserCreatesNamespace, UserDeletesNamespace, pass
  <1>7. QED BY <1>2, <1>3, <1>4, <1>5, <1>6 DEF Users

\* The informers take over what the server holds.
LEMMA FinalizerCluster ==
    ASSUME TypeOK, FinalizerNotForgotten, Cluster PROVE FinalizerNotForgotten'
  <1> USE DEF pass, server, caches
  <1>1. ASSUME NEW p \in PO, SyncObject(p) PROVE FinalizerNotForgotten'
    <2>1. ASSUME NEW q \in PO PROVE FinalizerKnown(q)'
      BY <1>1 DEF SyncObject, TypeOK, CachesOK, FinalizerNotForgotten, FinalizerKnown, Provisioning, Finalizing
    <2>2. QED BY <2>1 DEF FinalizerNotForgotten
  <1>2. ASSUME NEW p \in PO, TimerFires(p) \/ Resync(p) PROVE FinalizerNotForgotten'
    BY <1>2, FinalizerStable DEF TimerFires, Resync
  <1>3. ASSUME NEW n \in NS, SyncNamespace(n) \/ NamespaceTerminated(n) \/ GarbageCollect(n)
        PROVE  FinalizerNotForgotten'
    BY <1>3, FinalizerStable DEF SyncNamespace, NamespaceTerminated, GarbageCollect
  <1>4. QED BY <1>1, <1>2, <1>3 DEF Cluster

\* A pass starts from the cached copy, which shows no lost finalizer.
LEMMA FinalizerStart ==
    ASSUME TypeOK, FinalizerNotForgotten, NEW p \in PO, Start(p) PROVE FinalizerNotForgotten'
  <1>1. ASSUME NEW q \in PO PROVE FinalizerKnown(q)'
    BY <1>1 DEF Start, Goto, server, caches, TypeOK, LocalsOK, CachesOK, FinalizerNotForgotten, FinalizerKnown, Provisioning, Finalizing
  <1>2. QED BY <1>1 DEF FinalizerNotForgotten

\* A pass adds the finalizer to the current version only, and removes it only
\* after it read the PO as deleted.
LEMMA FinalizerStep ==
    ASSUME TypeOK, FinalizerNotForgotten, NEW p \in PO, Step(p) PROVE FinalizerNotForgotten'
  <1> USE DEF server, caches
  <1>1. CASE FinalizerPresent(p)
    <2>1. CASE snap[p].paused
      BY <1>1, <2>1, FinalizerFinish DEF FinalizerPresent, AfterEnsure, Done, TypeOK, CachesOK
    <2>2. CASE ~snap[p].paused
      <3>1. ASSUME NEW q \in PO PROVE FinalizerKnown(q)'
        BY <1>1, <2>2 DEF FinalizerPresent, AfterEnsure, Goto, TypeOK, LocalsOK,
              FinalizerNotForgotten, FinalizerKnown, Provisioning, Finalizing
      <3>2. QED BY <3>1 DEF FinalizerNotForgotten
    <2>3. QED BY <2>1, <2>2
  <1>2. CASE AddFinalizer(p)
    <2>1. snap[p] = po[p] /\ po[p].state = "live" /\ pc[p] = "ensure"
      BY <1>2 DEF AddFinalizer, TypeOK, PassOK, FinalizerNotForgotten, FinalizerKnown
    <2>2. /\ po' = [po EXCEPT ![p].fin = TRUE]
          /\ po'[p].state = "live" /\ po'[p].fin
          /\ UNCHANGED poCache
          /\ poFresh' = [poFresh EXCEPT ![p] = FALSE]
      BY <1>2, <2>1 DEF AddFinalizer, TypeOK, ServerOK, Object
    <2>3. \/ /\ Goto(p, "list")
             /\ snap' = [snap EXCEPT ![p].fin = TRUE]
             /\ UNCHANGED current
          \/ Finish(p)
      BY <1>2 DEF AddFinalizer, Done, Retry
    <2>4. ASSUME NEW q \in PO PROVE FinalizerKnown(q)'
      <3>1. CASE q = p
        <4>1. CASE Finish(p)
          BY <2>2, <3>1, <4>1 DEF Finish, TypeOK, ServerOK, CachesOK, LocalsOK,
             FinalizerNotForgotten, FinalizerKnown, Provisioning, Finalizing
        <4>2. CASE Goto(p, "list") /\ snap' = [snap EXCEPT ![p].fin = TRUE]
          <5>1. snap'[p] = po'[p]
            BY <2>1, <2>2, <4>2 DEF TypeOK, ServerOK, LocalsOK
          <5>2. pc'[p] = "list"
            BY <4>2 DEF Goto, TypeOK, LocalsOK
          <5>3. QED
            BY <2>1, <2>2, <3>1, <5>1, <5>2 DEF TypeOK, CachesOK,
               FinalizerNotForgotten, FinalizerKnown, Provisioning, Finalizing
        <4>3. QED BY <2>3, <4>1, <4>2
      <3>2. CASE q # p
        BY <2>2, <2>3, <3>2 DEF Finish, Goto, TypeOK, ServerOK, CachesOK, LocalsOK,
           FinalizerNotForgotten, FinalizerKnown, Provisioning, Finalizing
      <3>3. QED BY <3>1, <3>2
    <2>5. QED BY <2>4 DEF FinalizerNotForgotten
  <1>3. CASE UpdateConflict(p)
    BY <1>3, FinalizerFinish DEF UpdateConflict, Retry, TypeOK, CachesOK
  <1>4. CASE ListOffboarded(p) \/ BeginEntries(p) \/ ListOrphans(p)
    <2>1. ASSUME NEW q \in PO PROVE FinalizerKnown(q)'
      BY <1>4 DEF ListOffboarded, BeginEntries, ListOrphans, Goto, TypeOK, LocalsOK,
            FinalizerNotForgotten, FinalizerKnown, Provisioning, Finalizing
    <2>2. QED BY <2>1 DEF FinalizerNotForgotten
  <1>5. ASSUME NEW n \in NS, EntryDone(p, n) \/ EntryFails(p, n) \/ Reads(p, n),
               UNCHANGED <<po, poCache, poFresh>>
        PROVE  FinalizerNotForgotten'
    BY <1>5, FinalizerStable, FinalizerFinish
    DEF EntryDone, EntryFails, Reads, Leaves, Retry, TypeOK, CachesOK
  <1>6. ASSUME NEW n \in NS,
               \/ ReadOffboarded(p, n) \/ DeleteOffboarded(p, n)
               \/ ReadTenant(p, n) \/ WriteTenant(p, n) \/ WriteTenantRefused(p, n)
        PROVE  FinalizerNotForgotten'
    <2>1. EntryDone(p, n) \/ EntryFails(p, n) \/ Reads(p, n)
      BY <1>6 DEF ReadOffboarded, DeleteOffboarded, ReadTenant, WriteTenant, WriteTenantRefused
    <2>2. UNCHANGED <<po, poCache, poFresh>>
      BY <1>6 DEF ReadOffboarded, DeleteOffboarded, ReadTenant, WriteTenant, WriteTenantRefused
    <2>3. QED BY <1>5, <2>1, <2>2
  <1>7. CASE UpdateStatus(p)
    <2>1. Finish(p) /\ UNCHANGED <<po, poCache>>
      BY <1>7 DEF UpdateStatus, Done, Retry
    <2>2. poFresh' \in [PO -> BOOLEAN] /\ \A q \in PO : poFresh'[q] => poFresh[q]
      BY <1>7 DEF UpdateStatus, WriteStatus, TypeOK, CachesOK
    <2>3. QED BY <2>1, <2>2, FinalizerFinish
  <1>8. ASSUME NEW n \in NS, JudgeEntry(p, n) PROVE FinalizerNotForgotten'
    BY <1>8, FinalizerStable DEF JudgeEntry, Leaves
  <1>9. CASE ReportBlocked(p)
    <2>1. Finish(p) /\ UNCHANGED <<po, poCache>>
      BY <1>9 DEF ReportBlocked, Retry
    <2>2. poFresh' \in [PO -> BOOLEAN] /\ \A q \in PO : poFresh'[q] => poFresh[q]
      BY <1>9 DEF ReportBlocked, WriteStatus, TypeOK, CachesOK
    <2>3. QED BY <2>1, <2>2, FinalizerFinish
  <1>10. CASE RemoveFinalizer(p)
    <2>1. /\ po' = [po EXCEPT ![p].fin = FALSE, ![p].state = "gone"]
          /\ Finish(p) /\ UNCHANGED poCache /\ pc[p] = "settle"
          /\ poFresh' = [poFresh EXCEPT ![p] = FALSE]
      BY <1>10 DEF RemoveFinalizer, Done, Retry
    <2>2. po'[p].state = "gone" /\ ~po'[p].fin /\ poCache[p].state # "live"
      BY <2>1 DEF TypeOK, ServerOK, Object, FinalizerNotForgotten, FinalizerKnown, Finalizing
    <2>3. ASSUME NEW q \in PO PROVE FinalizerKnown(q)'
      BY <2>1, <2>2 DEF Finish, TypeOK, ServerOK, CachesOK, LocalsOK,
         FinalizerNotForgotten, FinalizerKnown, Provisioning, Finalizing
    <2>4. QED BY <2>3 DEF FinalizerNotForgotten
  <1>11. QED BY <1>1, <1>2, <1>3, <1>4, <1>6, <1>7, <1>8, <1>9, <1>10 DEF Step

\* A failed call ends the pass or its entry, a restart makes every copy current.
LEMMA FinalizerFaults ==
    ASSUME TypeOK, FinalizerNotForgotten, Restart \/ \E p \in PO : CallFails(p)
    PROVE  FinalizerNotForgotten'
  <1>1. ASSUME NEW p \in PO, CallFails(p) PROVE FinalizerNotForgotten'
    <2>1. Finish(p) \/ UNCHANGED <<pc, snap, current>>
      BY <1>1 DEF CallFails, EntryFails, Retry
    <2>2. UNCHANGED <<po, poCache, poFresh>>
      BY <1>1 DEF CallFails, server, caches
    <2>3. QED BY <2>1, <2>2, FinalizerStable, FinalizerFinish DEF TypeOK, CachesOK
  <1>2. CASE Restart
    <2>1. ASSUME NEW q \in PO PROVE FinalizerKnown(q)'
      BY <1>2 DEF Restart, server, FinalizerNotForgotten, FinalizerKnown, Provisioning, Finalizing
    <2>2. QED BY <2>1 DEF FinalizerNotForgotten
  <1>3. QED BY <1>1, <1>2

\* The inductive step: no copy comes to show a finalizer that a live PO has lost.
LEMMA FinalizerNext == TypeOK /\ FinalizerNotForgotten /\ [Next]_vars => FinalizerNotForgotten'
  <1> SUFFICES ASSUME TypeOK, FinalizerNotForgotten, [Next]_vars PROVE FinalizerNotForgotten'
    OBVIOUS
  <1>1. CASE UNCHANGED vars
    BY <1>1, FinalizerStable DEF vars, server, caches, pass
  <1>2. QED
    BY <1>1, FinalizerUsers, FinalizerCluster, FinalizerStart, FinalizerStep, FinalizerFaults DEF Next

\* No copy of a PO shows a finalizer that a live PO has lost.
THEOREM FinalizerRemembered == Spec => []FinalizerNotForgotten
  BY FinalizerInit, FinalizerNext, TypeCorrect, PTL DEF Spec

\* Only WriteTenant puts a namespace under the control of a PO, in a pass that
\* is past EnsureFinalizer.
LEMMA OnlyWriteTenantTakes ==
    ASSUME TypeOK, FinalizerNotForgotten, [Next]_vars,
           NEW n \in NS, NEW p \in PO, ns[n].owner # p, ns'[n].owner = p
    PROVE  po[p].fin
  <1> USE ConstantsAssumption
  <1>1. ASSUME NEW m \in NS, NEW rec \in Namespace, WriteNamespace(m, rec)
        PROVE  m = n /\ rec.owner = p
    BY <1>1 DEF WriteNamespace, TypeOK, ServerOK
  <1>2. NoNamespace \in Namespace /\ NoNamespace.owner # p
    BY DEF NoNamespace, Namespace
  <1>3. ASSUME NEW m \in NS PROVE ~DeleteNamespaceCall(m)
    <2>1. [ns[m] EXCEPT !.phase = "terminating"] \in Namespace
          /\ [ns[m] EXCEPT !.phase = "terminating"].owner = ns[m].owner
      BY DEF TypeOK, ServerOK, Namespace
    <2>2. QED BY <1>1, <2>1 DEF DeleteNamespaceCall, NamespaceUntouched
  <1>4. ~UNCHANGED ns
    OBVIOUS
  <1>5. ~Users
    <2>1. [NoNamespace EXCEPT !.phase = "active"] \in Namespace
          /\ [NoNamespace EXCEPT !.phase = "active"].owner = NoNamespace.owner
      BY DEF NoNamespace, Namespace
    <2>2. ASSUME NEW m \in NS, UserCreatesNamespace(m) PROVE FALSE
      BY <1>1, <1>2, <2>1, <2>2 DEF UserCreatesNamespace
    <2>3. ASSUME NEW m \in NS, UserDeletesNamespace(m) PROVE FALSE
      BY <1>3, <2>3 DEF UserDeletesNamespace
    <2>4. ASSUME NEW q \in PO, CreateObject(q) \/ EditSpec(q) \/ TogglePause(q) \/ DeleteObject(q)
          PROVE  FALSE
      BY <1>4, <2>4 DEF CreateObject, EditSpec, TogglePause, DeleteObject
    <2>5. QED BY <2>2, <2>3, <2>4 DEF Users
  <1>6. ~Cluster
    BY <1>1, <1>2, <1>3, <1>4 DEF Cluster, SyncObject, TimerFires, Resync, SyncNamespace,
       NamespaceTerminated, GarbageCollect, server
  <1>7. ~UNCHANGED vars /\ ~Restart
    BY <1>4 DEF vars, server, Restart
  <1>8. ASSUME NEW q \in PO, Start(q) \/ CallFails(q) PROVE FALSE
    BY <1>4, <1>8 DEF Start, CallFails, server
  <1>9. PICK q \in PO : Step(q)
    BY <1>5, <1>6, <1>7, <1>8 DEF Next
  <1>10. PICK m \in NS : WriteTenant(q, m)
    <2>1. ~UNCHANGED server
      BY <1>4 DEF server
    <2>2. ASSUME NEW m \in NS, DeleteOffboarded(q, m) PROVE FALSE
      BY <1>3, <2>2 DEF DeleteOffboarded
    <2>3. QED
      BY <1>4, <1>9, <2>1, <2>2 DEF Step, FinalizerPresent, AddFinalizer, UpdateConflict,
         ListOffboarded, BeginEntries, ReadOffboarded, ReadTenant, WriteTenantRefused,
         UpdateStatus, JudgeEntry, ListOrphans, ReportBlocked, RemoveFinalizer
  <1>11. pc[q] = "entries"
    BY <1>10 DEF WriteTenant, TypeOK, PassOK
  <1>12. q = p
    <2>1. DesiredLabel(q, m) \in PO \cup {None}
      BY DEF DesiredLabel
    <2>2. /\ [phase |-> "active", label |-> DesiredLabel(q, m), owner |-> q] \in Namespace
          /\ Patched(q, m) \in Namespace
          /\ Patched(q, m).owner \in {q, ns[m].owner}
      BY <2>1 DEF Namespace, Patched, TypeOK, ServerOK
    <2>3. QED BY <1>1, <1>10, <2>2 DEF WriteTenant
  <1>13. QED
    BY <1>11, <1>12 DEF FinalizerNotForgotten, FinalizerKnown, Provisioning

\* Whenever a namespace comes under the control of a PO, that PO exists and
\* holds the finalizer: for all POs, names and claims, with caches that lag,
\* labels overridden, faults and restarts.
THEOREM ProvisioningUnderFinalizer == Spec => TakenUnderFinalizer
  <1>1. TypeOK /\ FinalizerNotForgotten /\ [Next]_vars =>
          \A n \in NS, p \in PO : ns[n].owner # p /\ ns'[n].owner = p => po[p].fin
    BY OnlyWriteTenantTakes
  <1>2. QED
    BY <1>1, TypeCorrect, FinalizerRemembered, PTL DEF Spec, TakenUnderFinalizer

=============================================================================
