----------------------- MODULE TenantResourcesProofs -----------------------
(***************************************************************************)
(* What the passes of Reconcile keep inside the tenants, for every number  *)
(* of entries, names, contents, edits, acts of tampering and faults.       *)
(***************************************************************************)
EXTENDS TenantResources, TLAPS

-----------------------------------------------------------------------------
(***************************************************************************)
(* Names and plans.                                                        *)
(***************************************************************************)

LEMMA InKeys ==
    ASSUME NEW t \in Tenant, NEW e \in Entries[t], NEW k \in Kind
    PROVE  KeysOf(t, e, k) \subseteq Keys
  <1>1. e \in UNION {Entries[u] : u \in Tenant}
    OBVIOUS
  <1>2. KeysOf(t, e, k) \in {KeysOf(x, y, z) : x \in Tenant, y \in UNION {Entries[u] : u \in Tenant},
                                              z \in Kind}
    BY <1>1
  <1>3. QED BY <1>2 DEF Keys

LEMMA SpecsEntry ==
    ASSUME NEW s \in Specs, NEW t \in Tenant
    PROVE  s[t] \in Entries[t] /\ s[t] \in Entry
  BY ResourcesAssumption DEF Specs

\* A key says what it names: its kind, and its namespace for the kinds that
\* live in one.
LEMMA KeyShape ==
    ASSUME NEW t, NEW e, NEW k \in Kind, NEW key \in KeysOf(t, e, k)
    PROVE  /\ key.kind = k
           /\ k \in {"namespace", "egress", "group"} => key.in = None
           /\ k \in {"quota", "policy", "binding"} => key.in = t
           /\ k \in {"namespace", "egress"} => key.name = t
           /\ k \in {"group", "binding"} => key.name = GroupName(t, e)
  BY DEF KeysOf, Key, Kind

\* A key of all there are is one some tenant may ask for.
LEMMA KeysShape ==
    ASSUME NEW key \in Keys
    PROVE  \E t \in Tenant, e \in UNION {Entries[u] : u \in Tenant} :
              key.kind \in Kind /\ key \in KeysOf(t, e, key.kind)
  <1>1. PICK t \in Tenant, e \in UNION {Entries[u] : u \in Tenant}, k \in Kind : key \in KeysOf(t, e, k)
    BY DEF Keys
  <1>2. key.kind = k
    BY <1>1, KeyShape
  <1>3. QED BY <1>1, <1>2

\* The calls of a plan, and that there is always one.
LEMMA PlanShape ==
    ASSUME NEW e
    PROVE  /\ Plan(e) # {}
           /\ \A call \in Plan(e) :
                /\ call.do \in {"apply", "prune", "delete"} /\ call.kind \in Kind
                /\ call.do = "apply" => call.kind \in On(e) /\ e.state = "on"
  <1>1. On(e) \subseteq Kind /\ "namespace" \in On(e)
    BY DEF On, Kind
  <1>2. CASE e.state = "on"
    <2>1. [do |-> "apply", kind |-> "namespace"] \in Plan(e)
      BY <1>1, <1>2 DEF Plan, Provision, Calls
    <2>2. QED BY <1>1, <1>2, <2>1 DEF Plan, Provision, Calls
  <1>3. CASE e.state # "on"
    <2>1. [do |-> "delete", kind |-> "namespace"] \in Plan(e)
      BY <1>3 DEF Plan, Cleanup, Calls, Kind
    <2>2. QED BY <1>1, <1>3, <2>1 DEF Plan, Cleanup, Calls
  <1>4. QED BY <1>2, <1>3

-----------------------------------------------------------------------------
(***************************************************************************)
(* Types, and the shape of a pass.                                         *)
(***************************************************************************)

LEMMA WriteOK ==
    ASSUME TypeOK, NEW new \in [Keys -> Object], NEW enqueue \in BOOLEAN, Write(new, enqueue)
    PROVE  /\ obj' \in [Keys -> Object]
           /\ cache' \in [CachedKeys -> Object]
           /\ owed' \subseteq {key \in Keys : key.kind \in Watched}
           /\ queue' \in BOOLEAN
  <1>1. CachedKeys \subseteq Keys
    BY DEF CachedKeys
  <1>2. {key \in Keys : Wakes(key, obj[key], new[key])} \subseteq {key \in Keys : key.kind \in Watched}
    BY DEF Wakes
  <1>3. QED BY <1>1, <1>2 DEF Write, TypeOK

LEMMA AfterOK ==
    ASSUME TypeOK, NEW t \in Tenant, NEW e \in Entry, NEW call \in Plan(e), NEW done
    PROVE  After(t, e, call, done) \in [Keys -> Object]
  <1>1. Absent \in Object
    BY DEF Absent, Object
  <1>2. obj \in [Keys -> Object]
    BY DEF TypeOK
  <1>3. ASSUME NEW key \in Keys
        PROVE  obj[key] # Absent => [obj[key] EXCEPT !.content = "terminating"] \in Object
    BY <1>2, <1>3 DEF Object
  <1>4. ASSUME NEW key \in Keys, call.do = "apply"
        PROVE  Applied(t, key, Content(e, call.kind)) \in Object
    <2>1. call.kind \in On(e)
      BY <1>4, PlanShape
    <2>2. Content(e, call.kind) \in {"active", "ours"} \cup Size \cup Role
      BY <2>1 DEF Content, On, Entry
    <2>3. QED BY <1>2, <2>2 DEF Applied, Object
  <1>5. QED BY <1>1, <1>2, <1>3, <1>4 DEF After

LEMMA InitTypeOK == Init => TypeOK
  <1> SUFFICES ASSUME Init PROVE TypeOK
    OBVIOUS
  <1>1. spec \in Specs
    <2>1. \A t \in Tenant : spec[t] \in Entry
      BY ResourcesAssumption DEF Init
    <2>2. QED BY <2>1 DEF Init, Specs
  <1>2. Absent \in Object
    BY DEF Absent, Object
  <1>3. {spec, specSeen, snap} \subseteq Specs /\ edits \in 0 .. MaxEdits /\ faults \in 0 .. MaxFaults
    BY <1>1, ResourcesAssumption DEF Init
  <1>4. obj \in [Keys -> Object] /\ cache \in [CachedKeys -> Object]
    BY <1>2 DEF Init
  <1>5. {fresh, queue, current, failed} \subseteq BOOLEAN
    BY DEF Init
  <1>6. QED BY <1>3, <1>4, <1>5 DEF Init, TypeOK

\* A pass that ends.
LEMMA FinishOK ==
    ASSUME TypeOK, Finish
    PROVE  /\ snap' \in Specs /\ current' \in BOOLEAN /\ failed' \in BOOLEAN
           /\ pc' \in {"idle", "prune", "entries"} /\ todo' \subseteq Tenant
           /\ pc' = "idle" => todo' = {} /\ ~failed'
           /\ at' = None /\ left' = {}
  BY DEF TypeOK, Finish

\* An entry that is left.
LEMMA LeaveOK ==
    ASSUME TypeOK, Leave, at # None, failed' \in BOOLEAN
    PROVE  /\ snap' \in Specs /\ current' \in BOOLEAN /\ failed' \in BOOLEAN
           /\ pc' \in {"prune", "entries"} /\ todo' \subseteq Tenant
           /\ at' = None /\ left' = {}
  BY DEF TypeOK, Leave

\* A call that is made, on the keys in done, and that succeeds or not.
Made(call, done, ok) ==
    /\ \A other \in left : Turn[call] <= Turn[other]
    /\ done \subseteq Targets(at, snap[at], call)
    /\ ok => done = Targets(at, snap[at], call)
    /\ faults' = faults \/ (faults < MaxFaults /\ faults' = faults + 1)
    /\ Write(After(at, snap[at], call, done), ~ok /\ pc = "prune")
    /\ \/ /\ ok /\ left # {call} /\ left' = left \ {call}
          /\ UNCHANGED <<pc, snap, current, todo, at, failed>>
       \/ ok /\ left = {call} /\ Leave /\ UNCHANGED failed
       \/ ~ok /\ pc = "entries" /\ Leave /\ failed' = TRUE
       \/ ~ok /\ pc = "prune" /\ Finish
    /\ UNCHANGED <<spec, status, specSeen, fresh, edits>>

\* The entry in work, and the call that is made for it.
LEMMA CallDoes ==
    ASSUME TypeOK, Call
    PROVE  /\ at \in todo /\ at \in Tenant /\ pc # "idle"
           /\ snap[at] \in Entries[at] /\ snap[at] \in Entry
           /\ \E call \in left, done \in SUBSET Keys, ok \in BOOLEAN :
                 call \in Plan(snap[at]) /\ Made(call, done, ok)
  <1>1. at \in todo /\ at \in Tenant /\ left \subseteq Plan(snap[at]) /\ pc # "idle"
    BY DEF Call, TypeOK
  <1>2. snap[at] \in Entries[at] /\ snap[at] \in Entry
    BY <1>1, SpecsEntry DEF TypeOK
  <1>3. PICK call \in left : \E done \in SUBSET Targets(at, snap[at], call), ok \in BOOLEAN :
          Made(call, done, ok)
    BY DEF Call, Made, Refusals
  <1>4. Targets(at, snap[at], call) \subseteq Keys
    <2>1. KeysOf(at, snap[at], call.kind) \subseteq Keys
      BY <1>1, <1>2, <1>3, InKeys, PlanShape
    <2>2. QED BY <2>1 DEF Targets, Doomed
  <1>5. QED BY <1>1, <1>2, <1>3, <1>4

LEMMA CallTypeOK == ASSUME TypeOK, Call PROVE TypeOK'
  <1> DEFINE e == snap[at]
  <1>1. PICK call \in left, done \in SUBSET Keys, ok \in BOOLEAN : Made(call, done, ok)
    BY CallDoes
  <1>2. at # None /\ UNCHANGED <<spec, status, specSeen, fresh, edits>>
    BY DEF Call
  <1>3. at \in todo /\ at \in Tenant /\ left \subseteq Plan(e) /\ pc # "idle"
    BY <1>2 DEF TypeOK
  <1>4. e \in Entry /\ call \in Plan(e)
    BY <1>1, <1>3, SpecsEntry DEF TypeOK
  <1>5. /\ obj' \in [Keys -> Object] /\ cache' \in [CachedKeys -> Object]
        /\ owed' \subseteq {key \in Keys : key.kind \in Watched} /\ queue' \in BOOLEAN
    <2>1. After(at, e, call, done) \in [Keys -> Object]
      BY <1>3, <1>4, AfterOK
    <2>2. QED BY <1>1, <2>1, WriteOK DEF Made
  <1>6. faults' \in 0 .. MaxFaults
    BY <1>1, ResourcesAssumption DEF TypeOK, Made
  <1>7. CASE /\ left # {call} /\ left' = left \ {call}
             /\ UNCHANGED <<pc, snap, current, todo, at, failed>>
    <2>1. left' # {} /\ left' \subseteq Plan(e)
      BY <1>1, <1>3, <1>7
    <2>2. ASSUME NEW made \in Plan(e) \ left', NEW other \in left'
          PROVE  Turn[made] <= Turn[other]
      BY <1>1, <1>2, <1>7, <2>2 DEF TypeOK, Made
    <2>3. QED BY <1>2, <1>3, <1>5, <1>6, <1>7, <2>1, <2>2 DEF TypeOK
  <1>8. CASE Leave /\ failed' \in BOOLEAN
    BY <1>2, <1>5, <1>6, <1>8, LeaveOK DEF TypeOK
  <1>9. CASE Finish
    BY <1>2, <1>5, <1>6, <1>9, FinishOK DEF TypeOK
  <1>10. failed \in BOOLEAN
    BY DEF TypeOK
  <1>11. QED BY <1>1, <1>7, <1>8, <1>9, <1>10 DEF Made

\* A user's write of an object.
LEMMA UserWriteOK ==
    ASSUME TypeOK, NEW new \in [Keys -> Object], Write(new, FALSE), Edit,
           UNCHANGED <<spec, status, specSeen, fresh, pass>>
    PROVE  TypeOK'
  <1>1. edits' \in 0 .. MaxEdits /\ faults' = faults
    BY ResourcesAssumption DEF Edit, TypeOK
  <1>2. QED BY <1>1, WriteOK DEF TypeOK, pass

LEMMA UsersTypeOK == ASSUME TypeOK, Users PROVE TypeOK'
  <1>0. obj \in [Keys -> Object] /\ edits \in 0 .. MaxEdits
    BY DEF TypeOK
  <1>1. ASSUME NEW t \in Tenant, EditEntry(t) PROVE TypeOK'
    <2>1. PICK e \in Entries[t] : spec' = [spec EXCEPT ![t] = e]
      BY <1>1 DEF EditEntry
    <2>2. spec' \in Specs
      BY <2>1, ResourcesAssumption DEF TypeOK, Specs
    <2>3. status' \in [ready : BOOLEAN, observed : BOOLEAN]
      BY <1>1 DEF EditEntry, TypeOK
    <2>4. edits' \in 0 .. MaxEdits
      BY <1>0, <1>1, ResourcesAssumption DEF EditEntry, Edit
    <2>5. QED BY <1>1, <2>2, <2>3, <2>4 DEF EditEntry, Edit, TypeOK
  <1>2. ASSUME NEW key \in Keys, Tamper(key) PROVE TypeOK'
    <2>1. PICK new : /\ Write(new, FALSE)
                     /\ \/ new = [obj EXCEPT ![key].content = "terminating"]
                        \/ new = [obj EXCEPT ![key] = Absent]
                        \/ new = [obj EXCEPT ![key].content = "theirs"]
      BY <1>2 DEF Tamper
    <2>2. new \in [Keys -> Object]
      BY <1>0, <2>1 DEF Object, Absent
    <2>3. QED BY <1>2, <2>1, <2>2, UserWriteOK DEF Tamper
  <1>3. ASSUME NEW key \in Keys, CreateForeign(key) PROVE TypeOK'
    <2>1. [obj EXCEPT ![key] = [by |-> None, content |-> "theirs"]] \in [Keys -> Object]
      BY <1>0 DEF Object
    <2>2. QED BY <1>3, <2>1, UserWriteOK DEF CreateForeign
  <1>4. QED BY <1>1, <1>2, <1>3 DEF Users

\* The inductive step of TypeOK.
LEMMA NextTypeOK == TypeOK /\ [Next]_vars => TypeOK'
  <1> SUFFICES ASSUME TypeOK, [Next]_vars PROVE TypeOK'
    OBVIOUS
  <1> USE DEF server, views, pass
  <1>1. CASE UNCHANGED vars
    BY <1>1 DEF TypeOK, vars
  <1>2. CASE Users
    BY <1>2, UsersTypeOK
  <1>3. CASE SyncSpec \/ Resync
    <2>1. {specSeen', spec', snap'} \subseteq Specs
      BY <1>3 DEF SyncSpec, Resync, TypeOK
    <2>2. {fresh', queue', current', failed'} \subseteq BOOLEAN
      BY <1>3 DEF SyncSpec, Resync, TypeOK
    <2>3. UNCHANGED <<status, obj, cache, owed, pass, edits, faults>>
      BY <1>3 DEF SyncSpec, Resync
    <2>4. QED BY <2>1, <2>2, <2>3 DEF TypeOK
  <1>4. ASSUME NEW key \in Keys, SyncObject(key) PROVE TypeOK'
    <2>1. cache' \in [CachedKeys -> Object]
      BY <1>4 DEF SyncObject, TypeOK, CachedKeys
    <2>2. owed' \subseteq owed /\ queue' \in BOOLEAN
      BY <1>4 DEF SyncObject, TypeOK
    <2>3. QED BY <1>4, <2>1, <2>2 DEF SyncObject, TypeOK
  <1>5. ASSUME NEW t \in Tenant, NamespaceTerminated(t) PROVE TypeOK'
    <2>1. [key \in Keys |-> IF key = Home(t) \/ key.in = t THEN Absent ELSE obj[key]] \in [Keys -> Object]
      BY DEF TypeOK, Absent, Object
    <2>2. QED BY <1>5, <2>1, WriteOK DEF NamespaceTerminated, TypeOK
  <1>6. CASE Start
    <2>1. todo' \subseteq Tenant /\ pc' = "prune" /\ at = None /\ snap' = specSeen
      BY <1>6, ResourcesAssumption DEF Start, TypeOK
    <2>2. QED BY <1>6, <2>1 DEF Start, TypeOK
  <1>7. ASSUME NEW t \in Tenant, Visit(t) PROVE TypeOK'
    <2>1. t # None
      BY ResourcesAssumption
    <2>2. at' = t /\ t \in todo /\ left' = Plan(snap[t]) /\ left' # {}
      BY <1>7, PlanShape DEF Visit
    <2>3. QED BY <1>7, <2>1, <2>2 DEF Visit, TypeOK
  <1>8. CASE Call
    BY <1>8, CallTypeOK
  <1>9. CASE BeginEntries
    <2>1. at = None
      BY <1>9 DEF BeginEntries, TypeOK
    <2>2. QED BY <1>9, <2>1 DEF BeginEntries, TypeOK
  <1>10. CASE UpdateStatus
    <2>1. status' \in [ready : BOOLEAN, observed : BOOLEAN]
      <3>1. [ready |-> ~failed, observed |-> TRUE] \in [ready : BOOLEAN, observed : BOOLEAN]
        OBVIOUS
      <3>2. QED BY <1>10, <3>1 DEF UpdateStatus, TypeOK
    <2>2. fresh' \in BOOLEAN /\ queue' \in BOOLEAN
      BY <1>10 DEF UpdateStatus, TypeOK
    <2>3. QED BY <1>10, <2>1, <2>2, FinishOK DEF UpdateStatus, TypeOK
  <1>11. CASE CallFails \/ Restart
    <2>1. faults' \in 0 .. MaxFaults
      BY <1>11, ResourcesAssumption DEF CallFails, Restart, TypeOK
    <2>2. Restart => cache' \in [CachedKeys -> Object]
      BY DEF Restart, TypeOK, CachedKeys
    <2>3. Finish
      BY <1>11 DEF CallFails, Restart
    <2>4. QED BY <1>11, <2>1, <2>2, <2>3, FinishOK DEF CallFails, Restart, TypeOK
  <1>12. QED
    BY <1>1, <1>2, <1>3, <1>4, <1>5, <1>6, <1>7, <1>8, <1>9, <1>10, <1>11 DEF Next, Step

\* Every run is well typed, and an entry in work always has calls left, the last
\* ones of its plan in the order of the code.
THEOREM ResourcesTypeCorrect == Spec => []TypeOK
  BY InitTypeOK, NextTypeOK, PTL DEF Spec

-----------------------------------------------------------------------------
(***************************************************************************)
(* Who writes the objects, and whose labels a write leaves on them.        *)
(***************************************************************************)

\* The only steps that write an object.
LEMMA ObjectWriters ==
    ASSUME [Next]_vars
    PROVE  \/ UNCHANGED obj
           \/ \E key \in Keys : Tamper(key) \/ CreateForeign(key)
           \/ \E t \in Tenant : NamespaceTerminated(t)
           \/ Call
  <1> USE DEF server
  <1>1. CASE UNCHANGED vars
    BY <1>1 DEF vars
  <1>2. CASE Users
    BY <1>2 DEF Users, EditEntry
  <1>3. CASE SyncSpec \/ Resync \/ Start \/ CallFails \/ Restart
    BY <1>3 DEF SyncSpec, Resync, Start, CallFails, Restart
  <1>4. CASE \E key \in Keys : SyncObject(key)
    BY <1>4 DEF SyncObject
  <1>5. CASE Step
    BY <1>5 DEF Step, Visit, BeginEntries, UpdateStatus
  <1>6. QED BY <1>1, <1>2, <1>3, <1>4, <1>5 DEF Next

\* The write of a user leaves every object but one alone; it changes the content
\* of a managed object, deletes one, or creates one without labels.
LEMMA UserWrites ==
    ASSUME TypeOK, NEW key \in Keys, Tamper(key) \/ CreateForeign(key)
    PROVE  /\ \A other \in Keys \ {key} : obj'[other] = obj[other]
           /\ Tamper(key) => IsManaged(obj[key]) /\ (obj'[key] = Absent \/ obj'[key].by = obj[key].by)
           /\ CreateForeign(key) =>
                /\ key.kind \in Foreign /\ obj[key] = Absent
                /\ obj'[key].by = None /\ obj'[key] # Absent
  <1>0. obj \in [Keys -> Object]
    BY DEF TypeOK
  <1>1. CASE Tamper(key)
    <2>1. /\ IsManaged(obj[key]) /\ obj[key] # Absent
          /\ \/ obj' = [obj EXCEPT ![key].content = "terminating"]
             \/ obj' = [obj EXCEPT ![key] = Absent]
             \/ obj' = [obj EXCEPT ![key].content = "theirs"]
      BY <1>1 DEF Tamper, Write, IsManaged, Absent
    <2>2. ~CreateForeign(key)
      BY <2>1 DEF CreateForeign
    <2>3. QED BY <1>0, <2>1, <2>2 DEF Object
  <1>2. CASE CreateForeign(key)
    BY <1>0, <1>2 DEF Tamper, CreateForeign, Write, Absent, IsManaged
  <1>3. QED BY <1>1, <1>2

\* What becomes of an object when a call is made.
LEMMA CallWrites ==
    ASSUME TypeOK, NEW call \in Plan(snap[at]), NEW done \in SUBSET Keys, NEW ok \in BOOLEAN,
           Made(call, done, ok), NEW key \in Keys
    PROVE  \/ key \notin done /\ obj'[key] = obj[key]
           \/ /\ key \in done /\ call.do = "apply" /\ key \in KeysOf(at, snap[at], call.kind)
              /\ obj'[key] = Applied(at, key, Content(snap[at], call.kind))
           \/ /\ key \in done /\ call.do # "apply" /\ key \in Doomed(at, snap[at], call)
              /\ IF key = Home(at) /\ obj[key] # Absent
                 THEN obj'[key] = [obj[key] EXCEPT !.content = "terminating"]
                 ELSE obj'[key] = Absent
  <1>1. obj' = After(at, snap[at], call, done)
    BY DEF Made, Write
  <1>2. key \in done => key \in Targets(at, snap[at], call)
    BY DEF Made
  <1>3. QED BY <1>1, <1>2 DEF After, Targets

\* A step labels an object only by applying, for the entry in work, what an
\* active entry asks for; every other write leaves the label or removes it.
LEMMA LabelWriters ==
    ASSUME TypeOK, [Next]_vars, NEW key \in Keys
    PROVE  \/ obj'[key].by \in {obj[key].by, None}
           \/ /\ Call /\ obj'[key].by = at
              /\ key \in KeysOf(at, snap[at], key.kind)
              /\ key.kind \in On(snap[at]) /\ snap[at].state = "on"
  <1>0. obj[key] \in Object /\ Absent.by = None
    BY DEF TypeOK, Absent
  <1>1. CASE UNCHANGED obj
    BY <1>1
  <1>2. ASSUME NEW other \in Keys, Tamper(other) \/ CreateForeign(other)
        PROVE  obj'[key].by \in {obj[key].by, None}
    BY <1>0, <1>2, UserWrites
  <1>3. ASSUME NEW t \in Tenant, NamespaceTerminated(t)
        PROVE  obj'[key].by \in {obj[key].by, None}
    BY <1>0, <1>3 DEF NamespaceTerminated, Write
  <1>4. CASE Call
    <2>1. PICK call \in left, done \in SUBSET Keys, ok \in BOOLEAN :
            call \in Plan(snap[at]) /\ Made(call, done, ok)
      BY <1>4, CallDoes
    <2>2. CASE obj'[key] = Applied(at, key, Content(snap[at], call.kind)) /\ call.do = "apply"
               /\ key \in KeysOf(at, snap[at], call.kind)
      <3>1. key.kind = call.kind /\ call.kind \in On(snap[at]) /\ snap[at].state = "on"
        BY <2>1, <2>2, KeyShape, PlanShape
      <3>2. obj'[key].by \in {obj[key].by, at}
        BY <2>2 DEF Applied
      <3>3. QED BY <1>4, <2>2, <3>1, <3>2
    <2>3. CASE obj'[key] = obj[key] \/ obj'[key] = Absent
               \/ obj'[key] = [obj[key] EXCEPT !.content = "terminating"]
      BY <1>0, <2>3 DEF Object
    <2>4. QED BY <2>1, <2>2, <2>3, CallWrites
  <1>5. QED BY <1>1, <1>2, <1>3, <1>4, ObjectWriters

\* Objects of the kinds that users do not create are managed.
OursAlone ==
    \A key \in Keys : key.kind \notin Foreign => obj[key] = Absent \/ IsManaged(obj[key])

LEMMA OursAloneNext == TypeOK /\ OursAlone /\ [Next]_vars => OursAlone'
  <1> SUFFICES ASSUME TypeOK, OursAlone, [Next]_vars, NEW key \in Keys, key.kind \notin Foreign
               PROVE  obj'[key] = Absent \/ IsManaged(obj'[key])
    BY DEF OursAlone
  <1>0. /\ obj[key] \in Object
        /\ obj[key] # Absent => IsManaged(obj[key])
        /\ \A t \in Tenant : t # None
    BY ResourcesAssumption DEF TypeOK, OursAlone
  <1>1. CASE UNCHANGED obj
    BY <1>0, <1>1
  <1>2. ASSUME NEW other \in Keys, Tamper(other) \/ CreateForeign(other)
        PROVE  obj'[key] = Absent \/ IsManaged(obj'[key])
    BY <1>0, <1>2, UserWrites DEF IsManaged
  <1>3. ASSUME NEW t \in Tenant, NamespaceTerminated(t)
        PROVE  obj'[key] = Absent \/ IsManaged(obj'[key])
    BY <1>0, <1>3 DEF NamespaceTerminated, Write
  <1>4. CASE Call
    <2>1. PICK call \in left, done \in SUBSET Keys, ok \in BOOLEAN :
            call \in Plan(snap[at]) /\ Made(call, done, ok)
      BY <1>4, CallDoes
    <2>2. at # None
      BY <1>4 DEF Call
    <2>3. obj[key] # Absent => [obj[key] EXCEPT !.content = "terminating"].by = obj[key].by
      BY <1>0 DEF Object
    <2>4. Applied(at, key, Content(snap[at], call.kind)).by =
            IF obj[key] = Absent THEN at
            ELSE IF key.kind \in {"group", "egress"} \/ Seen(key).by = at THEN obj[key].by ELSE at
      BY DEF Applied
    <2>5. \/ obj'[key] = obj[key] \/ obj'[key] = Absent
          \/ obj'[key] = Applied(at, key, Content(snap[at], call.kind))
          \/ obj[key] # Absent /\ obj'[key] = [obj[key] EXCEPT !.content = "terminating"]
      BY <2>1, CallWrites
    <2>6. QED BY <1>0, <2>2, <2>3, <2>4, <2>5 DEF IsManaged
  <1>5. QED BY <1>1, <1>2, <1>3, <1>4, ObjectWriters

LEMMA OursAloneHolds == Spec => []OursAlone
  <1>1. Init => OursAlone
    BY DEF Init, OursAlone
  <1>2. QED BY <1>1, OursAloneNext, ResourcesTypeCorrect, PTL DEF Spec

-----------------------------------------------------------------------------
(***************************************************************************)
(* Entries with names of their own do not disturb each other.              *)
(***************************************************************************)

\* All that the versions of entry t ever name.
NamesOf(t) == UNION {KeysOf(t, e, k) : e \in Entries[t], k \in Kind}

\* No two entries ever name the same object, and no application GitOps namespace
\* is a tenant.
NamesApart ==
    /\ \A a, b \in Tenant : a # b => NamesOf(a) \cap NamesOf(b) = {}
    /\ Tenant \cap ArgoNS = {}

\* An object carries the labels of an entry that names it.
Labelled == \A key \in Keys, t \in Tenant : obj[key].by = t => key \in NamesOf(t)

LEMMA InNames ==
    ASSUME NEW t \in Tenant, NEW e \in Entries[t], NEW k \in Kind
    PROVE  KeysOf(t, e, k) \subseteq NamesOf(t)
  BY DEF NamesOf

LEMMA HomeInNames ==
    ASSUME TypeOK, NEW t \in Tenant
    PROVE  Home(t) \in NamesOf(t)
  <1>1. spec[t] \in Entries[t]
    BY SpecsEntry DEF TypeOK
  <1>2. Home(t) \in KeysOf(t, spec[t], "namespace") /\ "namespace" \in Kind
    BY DEF KeysOf, Home, Kind
  <1>3. QED BY <1>1, <1>2, InNames

LEMMA LabelledHolds == Spec => []Labelled
  <1>1. Init => Labelled
    BY ResourcesAssumption DEF Init, Labelled, Absent
  <1>2. ASSUME TypeOK, Labelled, [Next]_vars, NEW key \in Keys, NEW t \in Tenant, obj'[key].by = t
        PROVE  key \in NamesOf(t)
    <2>1. CASE obj'[key].by \in {obj[key].by, None}
      BY <1>2, <2>1, ResourcesAssumption DEF Labelled
    <2>2. CASE Call /\ obj'[key].by = at /\ key \in KeysOf(at, snap[at], key.kind)
               /\ key.kind \in On(snap[at])
      <3>1. at = t /\ snap[t] \in Entries[t] /\ key.kind \in Kind
        BY <1>2, <2>2, CallDoes DEF On, Kind
      <3>2. QED BY <2>2, <3>1, InNames
    <2>3. QED BY <1>2, <2>1, <2>2, LabelWriters
  <1>3. TypeOK /\ Labelled /\ [Next]_vars => Labelled'
    BY <1>2 DEF Labelled, NamesOf
  <1>4. QED BY <1>1, <1>3, ResourcesTypeCorrect, PTL DEF Spec

\* What an active entry wants is among its names, and when it lives in a
\* namespace that is a tenant's, that is the entry's own.
LEMMA WantedNames ==
    ASSUME TypeOK, NamesApart, NEW t \in Tenant, NEW key \in Wanted(t, snap[t])
    PROVE  /\ key \in NamesOf(t)
           /\ key.in \in Tenant => key.in = t
           /\ key.kind = "policy" => key.in = t
  <1>1. snap[t] \in Entries[t] /\ snap[t] \in Entry
    BY SpecsEntry DEF TypeOK
  <1>2. PICK k \in On(snap[t]) : key \in KeysOf(t, snap[t], k)
    BY DEF Wanted
  <1>3. k \in Kind
    BY <1>2 DEF On, Kind
  <1>4. k = "project" => key.in \in ArgoNS
    BY <1>1, <1>2 DEF KeysOf, Key, Entry
  <1>5. key.kind = k /\ (k # "project" => key.in \in {t, None})
    BY <1>2, <1>3, KeyShape DEF Kind
  <1>6. QED BY <1>1, <1>2, <1>3, <1>4, <1>5, InNames, KeyShape, ResourcesAssumption DEF NamesApart

\* The calls for one entry are about its own names, or about policies of its own
\* namespace.
LEMMA TargetNames ==
    ASSUME TypeOK, Labelled, Call, NEW call \in Plan(snap[at]), NEW key \in Keys,
           key \in Targets(at, snap[at], call)
    PROVE  key \in NamesOf(at) \/ (key.kind = "policy" /\ key.in = at)
  <1>1. at \in Tenant /\ snap[at] \in Entries[at] /\ call.kind \in Kind
    BY CallDoes, PlanShape
  <1>2. KeysOf(at, snap[at], call.kind) \subseteq NamesOf(at)
    BY <1>1, InNames
  <1>3. CASE key \in KeysOf(at, snap[at], call.kind)
    BY <1>2, <1>3
  <1>4. CASE call.kind = "project" /\ key \in Doomed(at, snap[at], call)
    BY <1>1, <1>4 DEF Doomed, IsProjectOf, Labelled
  <1>5. CASE call.kind = "policy" /\ key \in Doomed(at, snap[at], call)
    BY <1>5 DEF Doomed
  <1>6. call.kind \notin {"project", "policy"} /\ key \in Doomed(at, snap[at], call)
          => key \in KeysOf(at, snap[at], call.kind)
    BY DEF Doomed
  <1>7. QED BY <1>3, <1>4, <1>5, <1>6 DEF Targets

\* When no two entries name the same object, work on one never deletes what
\* another, active entry wants: only the end of its own namespace does.
THEOREM EntriesApart == NamesApart => (Spec => EntriesIndependent)
  <1> SUFFICES ASSUME NamesApart PROVE Spec => EntriesIndependent
    OBVIOUS
  <1>1. ASSUME TypeOK, Labelled, [Next]_vars, NEW a \in Tenant, NEW b \in Tenant,
               at = a, a # b, snap[b].state = "on", edits' = edits,
               NEW key \in Wanted(b, snap[b]), obj[key] # Absent, obj'[key] = Absent
        PROVE  Terminating(b) /\ (key = Home(b) \/ key.in = b)
    <2>1. /\ key \in NamesOf(b) /\ key \in Keys
          /\ key.in \in Tenant => key.in = b
          /\ key.kind = "policy" => key.in = b
      <3>1. snap[b] \in Entries[b] /\ On(snap[b]) \subseteq Kind
        BY <1>1, SpecsEntry DEF TypeOK, On, Kind
      <3>2. key \in Keys
        BY <3>1, InKeys DEF Wanted
      <3>3. QED BY <1>1, <3>2, WantedNames
    <2>2. CASE UNCHANGED obj
      BY <1>1, <2>2
    <2>3. ASSUME NEW other \in Keys, Tamper(other) \/ CreateForeign(other) PROVE FALSE
      <3>1. edits' = edits + 1
        BY <2>3 DEF Tamper, CreateForeign, Edit
      <3>2. edits \in Nat
        BY <1>1, ResourcesAssumption DEF TypeOK
      <3>3. QED BY <1>1, <3>1, <3>2
    <2>4. ASSUME NEW t \in Tenant, NamespaceTerminated(t)
          PROVE  Terminating(b) /\ (key = Home(b) \/ key.in = b)
      <3>1. key = Home(t) \/ key.in = t
        BY <1>1, <2>1, <2>4 DEF NamespaceTerminated, Write
      <3>2. t = b
        <4>1. CASE key = Home(t)
          BY <1>1, <2>1, <4>1, HomeInNames DEF NamesApart
        <4>2. QED BY <2>1, <3>1, <4>1
      <3>3. QED BY <2>4, <3>1, <3>2 DEF NamespaceTerminated, Terminating
    <2>5. CASE Call
      <3>1. PICK call \in left, done \in SUBSET Keys, ok \in BOOLEAN :
              call \in Plan(snap[at]) /\ Made(call, done, ok)
        BY <1>1, <2>5, CallDoes
      <3>2. key \in done
        BY <1>1, <2>1, <3>1, CallWrites
      <3>3. key \in Targets(at, snap[at], call)
        BY <3>1, <3>2 DEF Made
      <3>4. key \in NamesOf(a) \/ (key.kind = "policy" /\ key.in = a)
        BY <1>1, <2>1, <2>5, <3>1, <3>3, TargetNames
      <3>5. QED BY <1>1, <2>1, <3>4 DEF NamesApart
    <2>6. QED BY <1>1, <2>2, <2>3, <2>4, <2>5, ObjectWriters
  <1>2. TypeOK /\ Labelled /\ [Next]_vars =>
          [\A a, b \in Tenant :
             (at = a /\ a # b /\ snap[b].state = "on" /\ edits' = edits) =>
               \A key \in Wanted(b, snap[b]) :
                 obj[key] # Absent /\ obj'[key] = Absent =>
                   Terminating(b) /\ (key = Home(b) \/ key.in = b)]_vars
    BY <1>1
  <1>3. QED
    BY <1>2, ResourcesTypeCorrect, LabelledHolds, PTL DEF Spec, EntriesIndependent

-----------------------------------------------------------------------------
(***************************************************************************)
(* Ready means that what an offboarded entry names outside its namespace   *)
(* is gone.                                                                *)
(***************************************************************************)

\* Which copies of the spec are its current version.
VersionsKnown ==
    /\ fresh => specSeen = spec
    /\ current => snap = spec /\ specSeen = spec
    /\ status.observed => specSeen = spec /\ (pc # "idle" => snap = spec)

LEMMA VersionsNext == TypeOK /\ VersionsKnown /\ [Next]_vars => VersionsKnown'
  <1> SUFFICES ASSUME TypeOK, VersionsKnown, [Next]_vars PROVE VersionsKnown'
    OBVIOUS
  <1> USE DEF server, views, pass, VersionsKnown
  <1>1. CASE UNCHANGED vars
    BY <1>1 DEF vars
  <1>2. ASSUME NEW t \in Tenant, EditEntry(t) PROVE VersionsKnown'
    BY <1>2 DEF EditEntry, TypeOK
  <1>3. ASSUME NEW key \in Keys, Tamper(key) \/ CreateForeign(key) PROVE VersionsKnown'
    <2>1. UNCHANGED <<spec, status, specSeen, fresh, pass>>
      BY <1>3 DEF Tamper, CreateForeign
    <2>2. QED BY <2>1
  <1>4. CASE SyncSpec \/ Resync \/ (\E key \in Keys : SyncObject(key))
    BY <1>4 DEF SyncSpec, Resync, SyncObject
  <1>5. CASE \E t \in Tenant : NamespaceTerminated(t)
    BY <1>5 DEF NamespaceTerminated
  <1>6. CASE Start \/ BeginEntries \/ (\E t \in Tenant : Visit(t))
    BY <1>6 DEF Start, BeginEntries, Visit
  <1>7. CASE Call
    <2>1. UNCHANGED <<spec, status, specSeen, fresh, snap, current>> /\ pc # "idle"
      <3>1. PICK call \in left, done \in SUBSET Keys, ok \in BOOLEAN : Made(call, done, ok)
        BY <1>7, CallDoes
      <3>2. QED BY <1>7, <3>1, CallDoes DEF Made, Leave, Finish
    <2>2. QED BY <2>1
  <1>8. CASE UpdateStatus
    BY <1>8 DEF UpdateStatus, Finish
  <1>9. CASE CallFails \/ Restart
    BY <1>9 DEF CallFails, Restart, Finish
  <1>10. QED BY <1>1, <1>2, <1>3, <1>4, <1>5, <1>6, <1>7, <1>8, <1>9 DEF Next, Users, Step

LEMMA VersionsHold == Spec => []VersionsKnown
  <1>1. Init => VersionsKnown
    BY DEF Init, VersionsKnown
  <1>2. QED BY <1>1, VersionsNext, ResourcesTypeCorrect, PTL DEF Spec

\* Version e of an entry, if it offboards, has been carried out.
Rid(t, e) == e.state = "offboard" => Remains(t, e) = {}

\* Ready tells of entries that are rid of because a pass rids itself of one after
\* the other, and of each kind by kind.
RemovedInv ==
    /\ status.ready /\ status.observed => \A t \in Tenant : Rid(t, spec[t])
    /\ pc = "entries" /\ ~failed => \A t \in Tenant \ todo : Rid(t, snap[t])
    /\ at # None /\ snap[at].state # "on" =>
         \A call \in Plan(snap[at]) \ left, key \in Remains(at, snap[at]) : key.kind # call.kind

\* An entry gets an object to be removed only while its version in work is active.
LEMMA RemainsShrink ==
    ASSUME TypeOK, [Next]_vars, NEW t \in Tenant, NEW e
    PROVE  Remains(t, e)' \subseteq Remains(t, e) \/ (Call /\ at = t /\ snap[t].state = "on")
  <1>1. Remains(t, e)' = {key \in Keys : obj'[key].by = t /\
            (key.kind = "project" \/ \E k \in Flagged \cap On(e) : key \in KeysOf(t, e, k))}
    BY DEF Remains, Keys
  <1>2. ASSUME NEW key \in Keys, obj'[key].by = t, ~(Call /\ at = t /\ snap[t].state = "on")
        PROVE  obj[key].by = t
    BY <1>2, LabelWriters, ResourcesAssumption
  <1>3. QED BY <1>1, <1>2 DEF Remains

\* The plan of a version that is not active deletes every kind that may remain.
LEMMA CleanupPlan ==
    ASSUME NEW e, e.state # "on"
    PROVE  /\ \A call \in Plan(e) : call.do = "delete"
           /\ \A t : \A key \in Remains(t, e) : [do |-> "delete", kind |-> key.kind] \in Plan(e)
  <1>1. Plan(e) = Cleanup(e)
    BY DEF Plan
  <1>2. \A call \in Plan(e) : call.do = "delete"
    BY <1>1 DEF Cleanup, Calls
  <1>3. ASSUME NEW t, NEW key \in Remains(t, e) PROVE [do |-> "delete", kind |-> key.kind] \in Plan(e)
    <2>1. key.kind = "project" \/ key.kind \in Flagged \cap On(e)
      BY KeyShape DEF Remains, Flagged, Kind
    <2>2. QED BY <1>1, <2>1 DEF Cleanup, Calls, Flagged, Kind
  <1>4. QED BY <1>2, <1>3

\* A call of such a plan that succeeds leaves nothing of its kind.
LEMMA CallRids ==
    ASSUME TypeOK, Call, NEW t \in Tenant, at = t, NEW e, snap[t] = e, e.state # "on",
           NEW call \in Plan(e), NEW done \in SUBSET Keys, Made(call, done, TRUE),
           NEW key \in Remains(t, e)'
    PROVE  key.kind # call.kind
  <1>1. /\ key \in Keys /\ obj'[key].by = t
        /\ key.kind = "project" \/ \E f \in Flagged \cap On(e) : key \in KeysOf(t, e, f)
    BY DEF Remains, Keys
  <1>2. call.do = "delete" /\ done = Doomed(t, e, call) /\ t # None
    BY CleanupPlan, ResourcesAssumption DEF Made, Targets
  <1>3. SUFFICES ASSUME key.kind = call.kind PROVE FALSE
    OBVIOUS
  <1>4. key \notin done /\ obj[key].by = t
    <2>1. key.kind # "namespace"
      BY <1>1, KeyShape DEF Flagged, Kind
    <2>2. key # Home(t)
      BY <2>1 DEF Home, Key
    <2>3. Absent.by = None
      BY DEF Absent
    <2>4. QED BY <1>1, <1>2, <2>2, <2>3, CallWrites
  <1>5. CASE key.kind = "project"
    BY <1>1, <1>2, <1>3, <1>4, <1>5 DEF Doomed, IsProjectOf
  <1>6. ASSUME NEW f \in Flagged, key \in KeysOf(t, e, f) PROVE FALSE
    <2>1. key.kind = f
      BY <1>6, KeyShape DEF Flagged, Kind
    <2>2. MayDelete(key)
      BY <1>2, <1>4, <2>1 DEF MayDelete, IsManaged, Seen, Cached, Flagged
    <2>3. QED BY <1>1, <1>2, <1>3, <1>4, <1>6, <2>1, <2>2 DEF Doomed, Flagged
  <1>7. QED BY <1>1, <1>5, <1>6

LEMMA RemovedCall == ASSUME TypeOK, VersionsKnown, RemovedInv, Call PROVE RemovedInv'
  <1>1. PICK t \in Tenant : at = t /\ t \in todo /\ pc # "idle" /\ t # None
    BY CallDoes, ResourcesAssumption
  <1>2. PICK e : e = snap[t]
    OBVIOUS
  <1>3. PICK call \in left, done \in SUBSET Keys, ok \in BOOLEAN :
          call \in Plan(e) /\ Made(call, done, ok)
    BY <1>1, <1>2, CallDoes
  <1>4. UNCHANGED <<spec, status, specSeen, fresh, snap, current>> /\ [Next]_vars
    BY <1>3 DEF Made, Leave, Finish, Next, Step
  <1>5. ASSUME NEW u \in Tenant, NEW f, u # t \/ e.state # "on"
        PROVE  Remains(u, f)' \subseteq Remains(u, f)
    BY <1>1, <1>2, <1>4, <1>5, RemainsShrink
  <1>6. ASSUME NEW u \in Tenant, NEW f, Rid(u, f), u = t => f = e
        PROVE  Rid(u, f)'
    BY <1>5, <1>6 DEF Rid
  <1>7. ASSUME status.ready, status.observed, NEW u \in Tenant PROVE Rid(u, spec[u])'
    <2>1. PICK f : f = spec[u]
      OBVIOUS
    <2>2. Rid(u, f) /\ (u = t => f = e)
      BY <1>1, <1>2, <1>7, <2>1 DEF RemovedInv, VersionsKnown
    <2>3. Rid(u, f)'
      BY <1>6, <2>2
    <2>4. QED BY <1>4, <2>1, <2>3 DEF Rid, Remains
  <1>8. ASSUME e.state # "on", NEW other \in Plan(e) \ left, NEW key \in Remains(t, e)'
        PROVE  key.kind # other.kind
    <2>1. key \in Remains(t, e)
      BY <1>5, <1>8
    <2>2. QED BY <1>1, <1>2, <1>8, <2>1 DEF RemovedInv
  <1>9. ASSUME ok, e.state # "on", NEW key \in Remains(t, e)' PROVE key.kind # call.kind
    BY <1>1, <1>2, <1>3, <1>9, CallRids
  <1>10. CASE ok /\ left' = left \ {call} /\ UNCHANGED <<pc, snap, current, todo, at, failed>>
    <2>1. ASSUME e.state # "on", NEW other \in Plan(e) \ left', NEW key \in Remains(t, e)'
          PROVE  key.kind # other.kind
      BY <1>8, <1>9, <1>10, <2>1
    <2>2. ASSUME pc = "entries", ~failed, NEW u \in Tenant \ todo PROVE Rid(u, snap[u])'
      <3>1. PICK f : f = snap[u]
        OBVIOUS
      <3>2. Rid(u, f)'
        BY <1>1, <1>6, <2>2, <3>1 DEF RemovedInv
      <3>3. QED BY <1>4, <3>1, <3>2 DEF Rid, Remains
    <2>3. at' # None /\ snap'[at'].state # "on" =>
            \A other \in Plan(snap'[at']) \ left', key \in Remains(at, snap[at])' :
               key.kind # other.kind
      <3>1. at' = t /\ snap'[at'] = e
        BY <1>1, <1>2, <1>10
      <3>2. Remains(at, snap[at])' = Remains(t, e)'
        BY <3>1 DEF Remains
      <3>3. QED BY <2>1, <3>1, <3>2
    <2>4. QED BY <1>4, <1>7, <1>10, <2>2, <2>3 DEF RemovedInv
  <1>11. CASE ok /\ left = {call} /\ Leave /\ UNCHANGED failed
    <2>1. Rid(t, e)'
      <3>1. ASSUME e.state # "on", NEW key \in Remains(t, e)' PROVE FALSE
        <4>1. key \in Remains(t, e)
          BY <1>5, <3>1
        <4>2. [do |-> "delete", kind |-> key.kind] \in Plan(e)
          BY <3>1, <4>1, CleanupPlan
        <4>3. \A other \in Plan(e) : key.kind # other.kind
          BY <1>8, <1>9, <1>11, <3>1
        <4>4. QED BY <4>2, <4>3
      <3>2. QED BY <3>1 DEF Rid
    <2>2. ASSUME pc = "entries", ~failed, NEW u \in Tenant \ todo' PROVE Rid(u, snap[u])'
      <3>1. PICK f : f = snap[u]
        OBVIOUS
      <3>2. u # t => Rid(u, f)
        BY <1>1, <1>11, <2>2, <3>1 DEF RemovedInv, Leave
      <3>3. Rid(u, f)'
        BY <1>2, <1>6, <2>1, <3>1, <3>2
      <3>4. QED BY <1>4, <3>1, <3>3 DEF Rid, Remains
    <2>3. QED BY <1>4, <1>7, <1>11, <2>2 DEF RemovedInv, Leave
  <1>12. CASE at' = None /\ (failed' = TRUE \/ pc' = "idle")
    BY <1>4, <1>7, <1>12 DEF RemovedInv
  <1>13. QED BY <1>3, <1>10, <1>11, <1>12 DEF Made, Leave, Finish

\* A step of a user, an informer or the namespace controller.
LEMMA RemovedStable ==
    ASSUME TypeOK, RemovedInv, \A t \in Tenant : \A e : Remains(t, e)' \subseteq Remains(t, e),
           UNCHANGED <<spec, status, pass>>
    PROVE  RemovedInv'
  <1> USE DEF pass
  <1>1. ASSUME NEW t \in Tenant, NEW e, Rid(t, e) PROVE Rid(t, e)'
    BY <1>1 DEF Rid
  <1>2. ASSUME status.ready, status.observed, NEW t \in Tenant PROVE Rid(t, spec[t])'
    <2>1. PICK e : e = spec[t]
      OBVIOUS
    <2>2. Rid(t, e)'
      BY <1>1, <1>2, <2>1 DEF RemovedInv
    <2>3. QED BY <2>1, <2>2 DEF Rid, Remains
  <1>3. ASSUME pc = "entries", ~failed, NEW t \in Tenant \ todo PROVE Rid(t, snap[t])'
    <2>1. PICK e : e = snap[t]
      OBVIOUS
    <2>2. Rid(t, e)'
      BY <1>1, <1>3, <2>1 DEF RemovedInv
    <2>3. QED BY <2>1, <2>2 DEF Rid, Remains
  <1>4. ASSUME at # None, snap[at].state # "on", NEW call \in Plan(snap[at]) \ left,
               NEW key \in Remains(at, snap[at])'
        PROVE  key.kind # call.kind
    <2>1. PICK t \in Tenant : at = t
      BY <1>4 DEF TypeOK
    <2> DEFINE e == snap[t]
    <2>2. key \in Remains(t, e)'
      BY <1>4, <2>1 DEF Remains
    <2>3. key \in Remains(t, e)
      BY <2>2
    <2>4. QED BY <1>4, <2>1, <2>3 DEF RemovedInv
  <1>5. QED BY <1>2, <1>3, <1>4 DEF RemovedInv

\* A step of the pass, or an edit, that leaves the objects alone.
LEMMA RemovedMoves ==
    ASSUME TypeOK, VersionsKnown, RemovedInv, UNCHANGED obj,
           \/ \E t \in Tenant : EditEntry(t) \/ Visit(t)
           \/ Start \/ BeginEntries \/ UpdateStatus \/ CallFails \/ Restart
    PROVE  RemovedInv'
  <1> USE DEF server, views, pass
  <1>0. \A t \in Tenant : \A e : Remains(t, e)' = Remains(t, e)
    BY DEF Remains, Keys
  <1>1. ASSUME NEW t \in Tenant, EditEntry(t) PROVE RemovedInv'
    <2>1. /\ ~status'.observed
          /\ UNCHANGED <<obj, pc, snap, todo, at, left, failed>>
      BY <1>1 DEF EditEntry, TypeOK
    <2>2. QED BY <2>1 DEF RemovedInv, Rid, Remains, Keys
  <1>2. ASSUME NEW t \in Tenant, Visit(t) PROVE RemovedInv'
    <2>1. /\ at' = t /\ left' = Plan(snap[t])
          /\ UNCHANGED <<spec, status, obj, pc, snap, todo, failed>>
      BY <1>2 DEF Visit
    <2>2. ASSUME status'.ready, status'.observed, NEW u \in Tenant PROVE Rid(u, spec[u])'
      BY <1>0, <2>1, <2>2 DEF RemovedInv, Rid
    <2>3. ASSUME pc' = "entries", ~failed', NEW u \in Tenant \ todo' PROVE Rid(u, snap[u])'
      BY <1>0, <2>1, <2>3 DEF RemovedInv, Rid
    <2>4. snap'[at'] = snap[t]
      BY <2>1
    <2>5. Plan(snap'[at']) = left'
      BY <2>1, <2>4 DEF Plan
    <2>6. QED BY <2>2, <2>3, <2>5 DEF RemovedInv
  <1>3. CASE Start \/ BeginEntries
    <2>1. /\ at' = None /\ UNCHANGED <<spec, status, obj>>
          /\ \/ pc' = "prune"
             \/ snap' = snap /\ todo' = {t \in Tenant : snap[t].state \in {"on", "offboard"}}
      BY <1>3 DEF Start, BeginEntries, TypeOK
    <2>2. ASSUME pc' = "entries", NEW t \in Tenant \ todo' PROVE Rid(t, snap[t])'
      BY <2>1, <2>2 DEF Rid
    <2>3. ASSUME status.ready, status.observed, NEW t \in Tenant PROVE Rid(t, spec[t])'
      BY <1>0, <2>1, <2>3 DEF RemovedInv, Rid
    <2>4. QED BY <2>1, <2>2, <2>3 DEF RemovedInv
  <1>4. CASE CallFails \/ Restart \/ (UpdateStatus /\ ~current)
    <2>1. at' = None /\ pc' = "idle" /\ UNCHANGED <<spec, status, obj>>
      BY <1>4 DEF CallFails, Restart, UpdateStatus, Finish
    <2>2. QED BY <2>1 DEF RemovedInv, Rid, Remains, Keys
  <1>5. CASE UpdateStatus /\ current
    <2>1. /\ at' = None /\ pc' = "idle" /\ UNCHANGED <<spec, obj>>
          /\ status' = [ready |-> ~failed, observed |-> TRUE]
          /\ pc = "entries" /\ todo = {} /\ snap = spec
      BY <1>5 DEF UpdateStatus, Finish, VersionsKnown
    <2>2. ASSUME ~failed, NEW t \in Tenant PROVE Rid(t, spec[t])'
      BY <1>0, <2>1, <2>2 DEF RemovedInv, Rid
    <2>3. QED BY <2>1, <2>2 DEF RemovedInv
  <1>6. QED BY <1>1, <1>2, <1>3, <1>4, <1>5

LEMMA RemovedNext ==
    TypeOK /\ VersionsKnown /\ RemovedInv /\ [Next]_vars => RemovedInv'
  <1> SUFFICES ASSUME TypeOK, VersionsKnown, RemovedInv, [Next]_vars PROVE RemovedInv'
    OBVIOUS
  <1> USE DEF server, views, pass
  <1>1. CASE Call
    BY <1>1, RemovedCall
  <1>2. CASE ~Call /\ UNCHANGED <<spec, status, pass>>
    <2>1. \A t \in Tenant : \A e : Remains(t, e)' \subseteq Remains(t, e)
      BY <1>2, RemainsShrink
    <2>2. QED BY <1>2, <2>1, RemovedStable
  <1>3. ASSUME NEW key \in Keys, Tamper(key) \/ CreateForeign(key) \/ SyncObject(key)
        PROVE  UNCHANGED <<spec, status, pass>>
    BY <1>3 DEF Tamper, CreateForeign, SyncObject
  <1>4. CASE UNCHANGED vars \/ SyncSpec \/ Resync \/ \E t \in Tenant : NamespaceTerminated(t)
    BY <1>1, <1>2, <1>4 DEF vars, SyncSpec, Resync, NamespaceTerminated
  <1>5. CASE \/ \E t \in Tenant : EditEntry(t) \/ Visit(t)
             \/ Start \/ BeginEntries \/ UpdateStatus \/ CallFails \/ Restart
    <2>1. UNCHANGED obj
      BY <1>5 DEF EditEntry, Visit, Start, BeginEntries, UpdateStatus, CallFails, Restart
    <2>2. QED BY <1>5, <2>1, RemovedMoves
  <1>6. QED BY <1>1, <1>2, <1>3, <1>4, <1>5 DEF Next, Users, Step

\* A PO that is Ready for its current spec has removed what the offboarded entries
\* name outside their namespaces: for any entries, with names in common or not, any
\* edits, adopted objects, tampering, lag, partial failures and restarts.
THEOREM OffboardedAreRemoved == Spec => []OffboardedMeansRemoved
  <1>1. Init => RemovedInv
    BY DEF Init, RemovedInv
  <1>2. RemovedInv => OffboardedMeansRemoved
    BY DEF RemovedInv, Rid, OffboardedMeansRemoved
  <1>3. QED
    BY <1>1, <1>2, RemovedNext, ResourcesTypeCorrect, VersionsHold, PTL DEF Spec

-----------------------------------------------------------------------------
(***************************************************************************)
(* Careful use: what an entry may hold when it leaves reconciliation.      *)
(***************************************************************************)

\* The kinds outside the namespace of which entry t has an object.
Holds(t) == {k \in Outside : \E key \in Keys : key.kind = k /\ obj[key].by = t}

\* Users edit carefully, and the versions of an entry agree on the name of its Group.
CarefulUse ==
    /\ Careful
    /\ NamesApart
    /\ \A t \in Tenant : \A e, f \in Entries[t] : GroupName(t, e) = GroupName(t, f)

\* An entry out of reconciliation has, of the flagged kinds, what its version
\* still flags, and no copy of it flags anything else: so in every copy.
Parked(t) ==
    /\ spec[t].state # "on" =>
         /\ Holds(t) \cap Flagged \subseteq On(spec[t])
         /\ On(specSeen[t]) \cap Flagged = On(spec[t]) \cap Flagged
         /\ pc # "idle" => On(snap[t]) \cap Flagged = On(spec[t]) \cap Flagged
    /\ specSeen[t].state # "on" =>
         /\ Holds(t) \cap Flagged \subseteq On(specSeen[t])
         /\ pc # "idle" => On(snap[t]) \cap Flagged = On(specSeen[t]) \cap Flagged
    /\ pc # "idle" /\ snap[t].state # "on" => Holds(t) \cap Flagged \subseteq On(snap[t])

\* What a pass brings about for version e of an entry that it does not fail on.
Settled(t, e) ==
    /\ e.state = "on" => Holds(t) \cap Flagged \subseteq On(e)
    /\ e.state = "offboard" => Holds(t) = {}

\* The calls that leave an entry without objects of their kind.
Empties(call) ==
    call.kind \in Outside /\ (call.do = "delete" \/ (call.do = "prune" /\ call.kind # "project"))

\* Ready tells of settled entries because a pass settles one after the other,
\* and each of them call by call.
ReadySettled ==
    status.ready /\ status.observed => \A t \in Tenant : Settled(t, spec[t])

PassSettles ==
    pc = "entries" /\ ~failed => \A t \in Tenant \ todo : Settled(t, snap[t])

CallsEmptied ==
    at # None =>
        \A call \in Plan(snap[at]) \ left : Empties(call) => call.kind \notin Holds(at)

CarefulInv ==
    /\ VersionsKnown
    /\ \A t \in Tenant : Parked(t)
    /\ ReadySettled
    /\ PassSettles
    /\ CallsEmptied

\* A step gives an entry an object outside its namespace only by applying, for
\* that entry in work, what its active version asks for.
LEMMA HoldsGrow ==
    ASSUME TypeOK, [Next]_vars, NEW t \in Tenant
    PROVE  \/ Holds(t)' \subseteq Holds(t)
           \/ /\ Call /\ at = t /\ snap[t].state = "on"
              /\ Holds(t)' \subseteq Holds(t) \cup On(snap[t])
  <1>0. /\ t # None
        /\ Holds(t)' = {k \in Outside : \E key \in Keys : key.kind = k /\ obj'[key].by = t}
    BY ResourcesAssumption DEF Holds, Keys
  <1>1. CASE Call /\ at = t /\ snap[t].state = "on"
    <2>1. ASSUME NEW k \in Holds(t)', k \notin Holds(t) PROVE k \in On(snap[t])
      <3>1. PICK key \in Keys : key.kind = k /\ obj'[key].by = t
        BY <1>0, <2>1
      <3>2. obj[key].by # t
        BY <2>1, <3>1 DEF Holds, Outside
      <3>3. QED BY <1>0, <1>1, <3>1, <3>2, LabelWriters
    <2>2. QED BY <1>1, <2>1
  <1>2. CASE ~(Call /\ at = t /\ snap[t].state = "on")
    <2>1. ASSUME NEW key \in Keys, obj'[key].by = t PROVE obj[key].by = t
      BY <1>0, <1>2, <2>1, LabelWriters
    <2>2. QED BY <1>0, <2>1 DEF Holds
  <1>3. QED BY <1>1, <1>2

\* A call that succeeds in emptying a kind leaves none of its objects.
LEMMA EmptiesKind ==
    ASSUME TypeOK, Labelled, CarefulUse, Call,
           NEW call \in Plan(snap[at]), NEW done \in SUBSET Keys, Made(call, done, TRUE),
           Empties(call), NEW t \in Tenant, at = t
    PROVE  call.kind \notin Holds(t)'
  <1>1. at \in Tenant /\ at # None /\ snap[at] \in Entries[at]
    BY CallDoes, ResourcesAssumption
  <1>2. done = Doomed(at, snap[at], call) /\ call.kind \in Outside /\ call.do # "apply"
    BY DEF Made, Targets, Empties
  <1>3. ASSUME NEW key \in Keys, key.kind = call.kind, obj'[key].by = at PROVE FALSE
    <2>1. key \notin done
      <3>1. key # Home(at)
        BY <1>2, <1>3 DEF Home, Key, Outside
      <3>2. Absent.by = None
        BY DEF Absent
      <3>3. QED BY <1>1, <1>2, <1>3, <3>1, <3>2, CallWrites
    <2>2. obj[key].by = at
      BY <1>3, <2>1, CallWrites
    <2>3. CASE call.kind = "project"
      <3>1. call.do = "delete"
        BY <1>2, <2>3 DEF Empties
      <3>2. QED BY <1>2, <1>3, <2>1, <2>2, <2>3, <3>1 DEF Doomed, IsProjectOf
    <2>4. CASE call.kind \in Flagged
      <3>1. PICK e \in Entries[at], k \in Kind : key \in KeysOf(at, e, k)
        BY <1>1, <2>2 DEF Labelled, NamesOf
      <3>2. k = call.kind
        BY <1>3, <3>1, KeyShape
      <3>3. GroupName(at, e) = GroupName(at, snap[at])
        BY <1>1, <3>1 DEF CarefulUse
      <3>4. key \in KeysOf(at, snap[at], call.kind)
        BY <2>4, <3>1, <3>2, <3>3 DEF KeysOf, Flagged
      <3>5. MayDelete(key)
        BY <1>1, <1>3, <2>2, <2>4 DEF MayDelete, IsManaged, Seen, Cached, Flagged
      <3>6. QED BY <1>2, <2>1, <2>4, <3>4, <3>5 DEF Doomed, Flagged
    <2>5. QED BY <1>2, <2>3, <2>4 DEF Outside, Flagged
  <1>4. Holds(t)' = {k \in Outside : \E key \in Keys : key.kind = k /\ obj'[key].by = t}
    BY DEF Holds, Keys
  <1>5. QED BY <1>3, <1>4

\* Which calls of a plan empty which kinds.
LEMMA PlanEmpties ==
    ASSUME NEW e
    PROVE  /\ e.state = "on" =>
                /\ \A call \in Plan(e) : Empties(call) => call.kind \in Flagged \ On(e)
                /\ \A k \in Flagged \ On(e) :
                      [do |-> "prune", kind |-> k] \in {call \in Plan(e) : Empties(call)}
           /\ e.state # "on" =>
                \A k \in Outside : k = "project" \/ k \in On(e) =>
                      [do |-> "delete", kind |-> k] \in {call \in Plan(e) : Empties(call)}
  <1>1. CASE e.state = "on"
    <2>1. Plan(e) = Provision(e)
      BY <1>1 DEF Plan
    <2>2. \A call \in Plan(e) : Empties(call) => call.kind \in Flagged \ On(e)
      BY <2>1 DEF Provision, Calls, Empties, Outside, Flagged
    <2>3. ASSUME NEW k \in Flagged \ On(e)
          PROVE  [do |-> "prune", kind |-> k] \in {call \in Plan(e) : Empties(call)}
      BY <2>1 DEF Provision, Calls, Empties, Outside, Flagged, Kind
    <2>4. QED BY <1>1, <2>2, <2>3
  <1>2. CASE e.state # "on"
    <2>1. Plan(e) = Cleanup(e)
      BY <1>2 DEF Plan
    <2>2. ASSUME NEW k \in Outside, k = "project" \/ k \in On(e)
          PROVE  [do |-> "delete", kind |-> k] \in {call \in Plan(e) : Empties(call)}
      BY <2>1, <2>2 DEF Cleanup, Calls, Empties, Outside, Kind
    <2>3. QED BY <1>2, <2>2
  <1>3. QED BY <1>1, <1>2

\* A parked entry stays parked while its copies do, whatever it loses.
LEMMA ParkedStays ==
    ASSUME NEW t \in Tenant, Parked(t), Holds(t)' \subseteq Holds(t),
           UNCHANGED <<spec, specSeen, snap>>, pc' # "idle" => pc # "idle"
    PROVE  Parked(t)'
  BY DEF Parked

LEMMA CarefulCall ==
    ASSUME TypeOK, Labelled, CarefulUse, CarefulInv, Call
    PROVE  CarefulInv'
  <1>1. /\ at \in todo /\ at \in Tenant /\ at # None /\ pc # "idle"
        /\ \E call \in left, done \in SUBSET Keys, ok \in BOOLEAN :
              call \in Plan(snap[at]) /\ Made(call, done, ok)
    BY CallDoes, ResourcesAssumption
  <1>2. PICK call \in left, done \in SUBSET Keys, ok \in BOOLEAN :
          call \in Plan(snap[at]) /\ Made(call, done, ok)
    BY <1>1
  <1>3. UNCHANGED <<spec, status, specSeen, fresh, snap, current>>
    BY <1>2 DEF Made, Leave, Finish
  <1>4. [Next]_vars
    BY DEF Next, Step
  <1>5. ASSUME NEW t \in Tenant
        PROVE  \/ Holds(t)' \subseteq Holds(t)
               \/ at = t /\ snap[t].state = "on" /\ Holds(t)' \subseteq Holds(t) \cup On(snap[t])
    BY <1>4, HoldsGrow
  <1>6. VersionsKnown'
    BY <1>1, <1>3 DEF CarefulInv, VersionsKnown
  <1>7. ASSUME NEW t \in Tenant PROVE Parked(t)'
    <2>1. Parked(t)
      BY DEF CarefulInv
    <2>2. QED BY <1>1, <1>3, <1>5, <2>1 DEF Parked
  <1>8. ReadySettled'
    <2>1. status.observed => snap = spec
      BY <1>1 DEF CarefulInv, VersionsKnown
    <2>2. ASSUME NEW t \in Tenant, status.ready, status.observed PROVE Settled(t, spec[t])'
      BY <1>3, <1>5, <2>1, <2>2 DEF CarefulInv, ReadySettled, Settled
    <2>3. QED BY <1>3, <2>2 DEF ReadySettled
  <1>9. ASSUME ok, Empties(call), NEW t \in Tenant, at = t PROVE call.kind \notin Holds(t)'
    BY <1>2, <1>9, EmptiesKind
  <1>10. ASSUME NEW t \in Tenant, at = t, NEW other \in Plan(snap[t]) \ left, Empties(other)
         PROVE  other.kind \notin Holds(t)'
    <2>1. other.kind \notin Holds(t)
      BY <1>1, <1>10 DEF CarefulInv, CallsEmptied
    <2>2. snap[t].state = "on" => other.kind \notin On(snap[t])
      BY <1>10, PlanEmpties
    <2>3. QED BY <1>5, <2>1, <2>2
  <1>11. CallsEmptied'
    <2>1. CASE at' = None
      BY <2>1 DEF CallsEmptied
    <2>2. CASE ok /\ left' = left \ {call} /\ UNCHANGED at
      BY <1>1, <1>3, <1>9, <1>10, <2>2 DEF CallsEmptied
    <2>3. QED BY <1>2, <2>1, <2>2 DEF Made, Leave, Finish
  <1>12. ASSUME NEW t \in Tenant, t # at, t \notin todo, pc = "entries", ~failed
         PROVE  Settled(t, snap[t])'
    BY <1>3, <1>5, <1>12 DEF CarefulInv, PassSettles, Settled
  <1>13. ASSUME ok, left = {call}, NEW t \in Tenant, at = t PROVE Settled(t, snap[t])'
    <2>1. ASSUME NEW other \in Plan(snap[t]), Empties(other) PROVE other.kind \notin Holds(t)'
      BY <1>9, <1>10, <1>13, <2>1
    <2>2. ASSUME snap[t].state = "on", NEW k \in Holds(t)' \cap Flagged PROVE k \in On(snap[t])
      <3>1. [do |-> "prune", kind |-> k].kind = k
        OBVIOUS
      <3>2. QED BY <2>1, <2>2, <3>1, PlanEmpties
    <2>3. ASSUME snap[t].state = "offboard" PROVE Holds(t)' = {}
      <3>1. Holds(t)' \subseteq Holds(t) /\ Holds(t) \subseteq Outside
        BY <1>5, <2>3 DEF Holds
      <3>2. Holds(t) \cap Flagged \subseteq On(snap[t])
        BY <1>1, <2>3 DEF CarefulInv, Parked
      <3>3. ASSUME NEW k \in Holds(t)' PROVE FALSE
        <4>1. k \in Outside /\ (k = "project" \/ k \in On(snap[t]))
          BY <3>1, <3>2, <3>3 DEF Outside, Flagged
        <4>2. [do |-> "delete", kind |-> k].kind = k
          OBVIOUS
        <4>3. QED BY <2>1, <2>3, <3>3, <4>1, <4>2, PlanEmpties
      <3>4. QED BY <3>3
    <2>4. QED BY <1>3, <2>2, <2>3 DEF Settled
  <1>14. PassSettles'
    <2>1. CASE UNCHANGED <<pc, todo, failed>>
      BY <1>1, <1>12, <2>1 DEF PassSettles
    <2>2. CASE ok /\ left = {call} /\ Leave /\ UNCHANGED failed
      BY <1>12, <1>13, <2>2 DEF Leave, PassSettles
    <2>3. CASE failed' = TRUE \/ pc' = "idle"
      BY <2>3 DEF PassSettles
    <2>4. QED BY <1>2, <2>1, <2>2, <2>3 DEF Made, Finish
  <1>15. QED BY <1>6, <1>7, <1>8, <1>11, <1>14 DEF CarefulInv

\* A careful edit parks an entry only when the pass has settled it.
LEMMA CarefulEditStep ==
    ASSUME TypeOK, CarefulUse, CarefulInv, NEW t \in Tenant, EditEntry(t)
    PROVE  CarefulInv'
  <1>1. PICK e \in Entries[t] : CarefulEdit(spec[t], e) /\ spec' = [spec EXCEPT ![t] = e]
    BY DEF EditEntry, CarefulUse
  <1>2. /\ UNCHANGED <<obj, specSeen, pc, snap, todo, at, left, failed>>
        /\ fresh' = FALSE /\ current' = FALSE /\ status'.observed = FALSE
    BY DEF EditEntry, TypeOK
  <1>3. spec'[t] = e /\ \A u \in Tenant \ {t} : spec'[u] = spec[u]
    BY <1>1 DEF TypeOK, Specs
  <1>4. \A u \in Tenant : Holds(u)' = Holds(u)
    BY <1>2 DEF Holds, Keys
  <1>5. ASSUME e.state # "on"
        PROVE  /\ On(e) = On(spec[t])
               /\ Holds(t) \cap Flagged \subseteq On(spec[t])
               /\ On(specSeen[t]) \cap Flagged = On(spec[t]) \cap Flagged
               /\ pc # "idle" => On(snap[t]) \cap Flagged = On(spec[t]) \cap Flagged
    <2>1. On(e) = On(spec[t])
      <3>1. spec[t] \in Entry
        BY SpecsEntry DEF TypeOK
      <3>2. e = [spec[t] EXCEPT !.state = e.state]
        BY <1>1, <1>5 DEF CarefulEdit
      <3>3. e.quota = spec[t].quota /\ e.admins = spec[t].admins /\ e.egress = spec[t].egress
        BY <3>1, <3>2 DEF Entry
      <3>4. QED BY <3>3 DEF On
    <2>2. CASE spec[t].state = "on"
      <3>1. status.ready /\ status.observed
        BY <1>1, <1>5, <2>2 DEF CarefulEdit
      <3>2. Settled(t, spec[t]) /\ specSeen = spec /\ (pc # "idle" => snap = spec)
        BY <3>1 DEF CarefulInv, ReadySettled, VersionsKnown
      <3>3. QED BY <2>1, <2>2, <3>2 DEF Settled
    <2>3. CASE spec[t].state # "on"
      BY <2>1, <2>3 DEF CarefulInv, Parked
    <2>4. QED BY <2>2, <2>3
  <1>6. ASSUME NEW u \in Tenant PROVE Parked(u)'
    <2>1. Parked(u)
      BY DEF CarefulInv
    <2>2. CASE u = t
      BY <1>2, <1>3, <1>4, <1>5, <2>1, <2>2 DEF Parked
    <2>3. CASE u # t
      BY <1>2, <1>3, <1>4, <2>1, <2>3 DEF Parked
    <2>4. QED BY <2>2, <2>3
  <1>7. VersionsKnown' /\ ReadySettled'
    BY <1>2 DEF VersionsKnown, ReadySettled
  <1>8. PassSettles' /\ CallsEmptied'
    <2>1. PassSettles'
      BY <1>2, <1>4 DEF CarefulInv, PassSettles, Settled
    <2>2. CallsEmptied'
      BY <1>2 DEF CarefulInv, CallsEmptied, Holds, Keys
    <2>3. QED BY <2>1, <2>2
  <1>9. QED BY <1>6, <1>7, <1>8 DEF CarefulInv

\* A step that changes objects, without labelling any, and nothing the passes
\* know of the spec.
LEMMA CarefulStable ==
    ASSUME CarefulInv, \A t \in Tenant : Holds(t)' \subseteq Holds(t), at \in Tenant \cup {None},
           UNCHANGED <<spec, specSeen, fresh, status, pass>>
    PROVE  CarefulInv'
  <1> USE DEF pass
  <1>1. VersionsKnown' /\ \A t \in Tenant : Parked(t)'
    BY ParkedStays DEF CarefulInv, VersionsKnown
  <1>2. ReadySettled'
    BY DEF CarefulInv, ReadySettled, Settled
  <1>3. PassSettles'
    BY DEF CarefulInv, PassSettles, Settled
  <1>4. CallsEmptied'
    <2>1. ASSUME NEW t \in Tenant, at = t, NEW call \in Plan(snap[t]) \ left, Empties(call)
          PROVE  call.kind \notin Holds(t)'
      BY <2>1, ResourcesAssumption DEF CarefulInv, CallsEmptied
    <2>2. QED BY <2>1 DEF CallsEmptied
  <1>5. QED BY <1>1, <1>2, <1>3, <1>4 DEF CarefulInv

\* A pass that ends with the status as it was, or a cache that is up to date.
LEMMA CarefulFinish ==
    ASSUME CarefulInv, Finish, UNCHANGED <<spec, status, obj>>,
           \/ UNCHANGED <<specSeen, fresh>>
           \/ specSeen' = spec
    PROVE  CarefulInv'
  <1>1. pc' = "idle" /\ at' = None /\ UNCHANGED <<snap, current>>
    BY DEF Finish
  <1>2. \A t \in Tenant : Holds(t)' = Holds(t)
    BY DEF Holds, Keys
  <1>3. VersionsKnown'
    BY <1>1 DEF CarefulInv, VersionsKnown
  <1>4. ASSUME NEW t \in Tenant PROVE Parked(t)'
    BY <1>1, <1>2 DEF CarefulInv, Parked
  <1>5. ReadySettled'
    BY <1>2 DEF CarefulInv, ReadySettled, Settled
  <1>6. PassSettles' /\ CallsEmptied'
    BY <1>1 DEF PassSettles, CallsEmptied
  <1>7. QED BY <1>3, <1>4, <1>5, <1>6 DEF CarefulInv

\* The informer brings the current version.
LEMMA CarefulSync ==
    ASSUME TypeOK, CarefulInv, SyncSpec PROVE CarefulInv'
  <1> USE DEF server, pass
  <1>1. specSeen' = spec /\ UNCHANGED <<spec, obj, status, pass>>
    BY DEF SyncSpec
  <1>2. \A t \in Tenant : Holds(t)' = Holds(t)
    BY <1>1 DEF Holds, Keys
  <1>3. VersionsKnown'
    BY <1>1 DEF CarefulInv, VersionsKnown
  <1>4. ASSUME NEW t \in Tenant PROVE Parked(t)'
    BY <1>1, <1>2 DEF CarefulInv, Parked
  <1>5. ReadySettled' /\ PassSettles'
    BY <1>1, <1>2 DEF CarefulInv, ReadySettled, PassSettles, Settled
  <1>6. CallsEmptied'
    BY <1>1 DEF CarefulInv, CallsEmptied, Holds, Keys
  <1>7. QED BY <1>3, <1>4, <1>5, <1>6 DEF CarefulInv

\* A pass starts with the cached version, visits an entry before any of its calls
\* is made, and begins the loop with every entry that is to be settled.
LEMMA CarefulMoves ==
    ASSUME TypeOK, CarefulInv, Start \/ BeginEntries \/ \E t \in Tenant : Visit(t)
    PROVE  CarefulInv'
  <1> USE DEF server, views
  <1>1. UNCHANGED <<spec, specSeen, fresh, status, obj>>
    BY DEF Start, BeginEntries, Visit
  <1>2. \A t \in Tenant : Holds(t)' = Holds(t)
    BY <1>1 DEF Holds, Keys
  <1>3. ReadySettled'
    BY <1>1, <1>2 DEF CarefulInv, ReadySettled, Settled
  <1>4. CASE Start
    <2>1. pc = "idle" /\ pc' = "prune" /\ snap' = specSeen /\ current' = fresh /\ at' = None
      BY <1>4 DEF Start, TypeOK
    <2>2. VersionsKnown'
      BY <1>1, <2>1 DEF CarefulInv, VersionsKnown
    <2>3. ASSUME NEW t \in Tenant PROVE Parked(t)'
      BY <1>1, <1>2, <2>1 DEF CarefulInv, Parked
    <2>4. QED BY <1>3, <2>1, <2>2, <2>3 DEF CarefulInv, PassSettles, CallsEmptied
  <1>5. CASE BeginEntries
    <2>1. /\ pc = "prune" /\ at' = None /\ UNCHANGED <<snap, current>>
          /\ todo' = {t \in Tenant : snap[t].state \in {"on", "offboard"}}
      BY <1>5 DEF BeginEntries, TypeOK
    <2>2. VersionsKnown'
      BY <1>1, <2>1 DEF CarefulInv, VersionsKnown
    <2>3. ASSUME NEW t \in Tenant PROVE Parked(t)'
      BY <1>1, <1>2, <2>1 DEF CarefulInv, Parked
    <2>4. PassSettles'
      BY <2>1 DEF PassSettles, Settled
    <2>5. QED BY <1>3, <2>1, <2>2, <2>3, <2>4 DEF CarefulInv, CallsEmptied
  <1>6. ASSUME NEW t \in Tenant, Visit(t) PROVE CarefulInv'
    <2>1. at' = t /\ left' = Plan(snap[t]) /\ UNCHANGED <<pc, snap, current, todo, failed>>
      BY <1>6 DEF Visit
    <2>2. VersionsKnown' /\ \A u \in Tenant : Parked(u)'
      BY <1>1, <1>2, <2>1, ParkedStays DEF CarefulInv, VersionsKnown
    <2>3. PassSettles'
      BY <1>2, <2>1 DEF CarefulInv, PassSettles, Settled
    <2>4. CallsEmptied'
      BY <2>1 DEF CallsEmptied
    <2>5. QED BY <1>3, <2>2, <2>3, <2>4 DEF CarefulInv
  <1>7. QED BY <1>4, <1>5, <1>6

\* The status tells of what the pass has settled.
LEMMA CarefulStatus ==
    ASSUME TypeOK, CarefulInv, UpdateStatus PROVE CarefulInv'
  <1>1. UNCHANGED <<spec, specSeen, obj>> /\ Finish /\ pc = "entries" /\ todo = {}
    BY DEF UpdateStatus
  <1>2. CASE ~current
    BY <1>1, <1>2, CarefulFinish DEF UpdateStatus
  <1>3. CASE current
    <2>1. /\ status' = [ready |-> ~failed, observed |-> TRUE]
          /\ snap = spec /\ specSeen = spec
      BY <1>3 DEF UpdateStatus, CarefulInv, VersionsKnown
    <2>2. pc' = "idle" /\ at' = None /\ UNCHANGED <<snap, current>>
      BY <1>1 DEF Finish
    <2>3. \A t \in Tenant : Holds(t)' = Holds(t)
      BY <1>1 DEF Holds, Keys
    <2>4. VersionsKnown'
      BY <1>1, <2>1, <2>2 DEF VersionsKnown
    <2>5. ASSUME NEW t \in Tenant PROVE Parked(t)'
      BY <1>1, <2>2, <2>3 DEF CarefulInv, Parked
    <2>6. ASSUME ~failed, NEW t \in Tenant PROVE Settled(t, spec[t])'
      BY <1>1, <2>1, <2>3, <2>6 DEF CarefulInv, PassSettles, Settled
    <2>7. ReadySettled'
      BY <2>1, <2>6 DEF ReadySettled
    <2>8. QED BY <2>2, <2>4, <2>5, <2>7 DEF CarefulInv, PassSettles, CallsEmptied
  <1>4. QED BY <1>2, <1>3

\* The inductive step of CarefulInv.
LEMMA CarefulNext ==
    ASSUME CarefulUse
    PROVE  TypeOK /\ Labelled /\ CarefulInv /\ [Next]_vars => CarefulInv'
  <1> SUFFICES ASSUME TypeOK, Labelled, CarefulInv, [Next]_vars PROVE CarefulInv'
    OBVIOUS
  <1> USE DEF server, pass
  <1>0. at \in Tenant \cup {None}
    BY DEF TypeOK
  <1>1. CASE Call
    BY <1>1, CarefulCall
  <1>2. CASE ~Call
    <2>0. \A t \in Tenant : Holds(t)' \subseteq Holds(t)
      BY <1>2, HoldsGrow
    <2>1. CASE UNCHANGED vars
      BY <1>0, <2>0, <2>1, CarefulStable DEF vars, views
    <2>2. CASE Users
      <3>1. ASSUME NEW key \in Keys, Tamper(key) \/ CreateForeign(key) PROVE CarefulInv'
        BY <1>0, <2>0, <3>1, CarefulStable DEF Tamper, CreateForeign
      <3>2. QED BY <2>2, <3>1, CarefulEditStep DEF Users
    <2>3. CASE SyncSpec
      BY <2>3, CarefulSync
    <2>4. CASE Resync \/ \E key \in Keys : SyncObject(key)
      BY <1>0, <2>0, <2>4, CarefulStable DEF Resync, SyncObject, views
    <2>5. CASE \E t \in Tenant : NamespaceTerminated(t)
      BY <1>0, <2>0, <2>5, CarefulStable DEF NamespaceTerminated
    <2>6. CASE Start \/ BeginEntries \/ \E t \in Tenant : Visit(t)
      BY <2>6, CarefulMoves
    <2>7. CASE UpdateStatus
      BY <2>7, CarefulStatus
    <2>8. CASE CallFails \/ Restart
      BY <2>8, CarefulFinish DEF CallFails, Restart, views
    <2>9. QED BY <1>2, <2>1, <2>2, <2>3, <2>4, <2>5, <2>6, <2>7, <2>8 DEF Next, Step
  <1>3. QED BY <1>1, <1>2

\* Nothing is there at first, and no entry is in reconciliation.
LEMMA CarefulInit == Init => CarefulInv
  <1> SUFFICES ASSUME Init PROVE CarefulInv
    OBVIOUS
  <1>1. \A t \in Tenant : Holds(t) = {}
    BY ResourcesAssumption DEF Init, Holds, Absent
  <1>2. VersionsKnown /\ \A t \in Tenant : Parked(t)
    BY <1>1 DEF Init, VersionsKnown, Parked
  <1>3. QED BY <1>2 DEF Init, CarefulInv, ReadySettled, PassSettles, CallsEmptied

LEMMA CarefulHolds == CarefulUse => (Spec => []CarefulInv)
  <1> SUFFICES ASSUME CarefulUse PROVE Spec => []CarefulInv
    OBVIOUS
  <1>1. TypeOK /\ Labelled /\ CarefulInv /\ [Next]_vars => CarefulInv'
    BY CarefulNext
  <1>2. QED
    BY <1>1, CarefulInit, ResourcesTypeCorrect, LabelledHolds, PTL DEF Spec

-----------------------------------------------------------------------------
(***************************************************************************)
(* Quiet means exact: no wake-up is lost, when users edit entries the      *)
(* careful way and others tamper only with what is watched.                *)
(***************************************************************************)

\* Users edit carefully and keep the names an entry gives; drift of Groups and
\* EgressIPs, which wakes nobody, is left out.
QuietUse ==
    /\ CarefulUse
    /\ Tampered \subseteq Watched
    /\ \A t \in Tenant : \A e, f \in Entries[t] : e.argo = f.argo

\* An informer that has no wake-up to deliver shows an object as it is, unless
\* nobody has labelled it.
Shown ==
    \A key \in CachedKeys \ owed :
        cache[key] = obj[key] \/ (~IsManaged(cache[key]) /\ ~IsManaged(obj[key]))

\* The namespace of an entry is managed, and comes and goes.
HomesKept ==
    \A t \in Tenant :
        obj[Home(t)] # Absent =>
            IsManaged(obj[Home(t)]) /\ obj[Home(t)].content \in {"active", "terminating"}

\* Nothing has happened since the pass began that runs, or was the last one, that
\* would start another one.
Undisturbed == ~queue /\ fresh /\ ~failed /\ owed = {}

\* What a call has brought about.
Carried(t, e, call) ==
    IF call.do = "apply"
    THEN \/ Terminating(t)
         \/ \A key \in KeysOf(t, e, call.kind) : obj[key].content = Content(e, call.kind)
    ELSE \A key \in Keys : key.kind = call.kind /\ obj[key].by = t =>
            IF call.do = "prune" THEN key \in Wanted(t, e)
            ELSE call.kind = "namespace" /\ Terminating(t)

Accomplished(t) ==
    spec[t].state \in {"on", "offboard"} =>
        \A call \in Plan(spec[t]) : Carried(t, spec[t], call)

\* An undisturbed pass works on the current version, the calls it has made have
\* brought about what they are for, and a pass that was the last has made all.
Settling ==
    Undisturbed =>
        /\ pc # "idle" => snap = spec
        /\ pc = "entries" => \A t \in Tenant \ todo : Accomplished(t)
        /\ pc = "entries" /\ at # None =>
              \A call \in Plan(snap[at]) \ left : Carried(at, snap[at], call)
        /\ pc = "idle" => \A t \in Tenant : Accomplished(t)

LEMMA HomeKey ==
    ASSUME TypeOK, NEW t \in Tenant
    PROVE  /\ Home(t) \in Keys /\ Home(t).kind = "namespace"
           /\ \A key \in NamesOf(t) : key.kind = "namespace" => key = Home(t)
  <1>1. spec[t] \in Entries[t]
    BY SpecsEntry DEF TypeOK
  <1>2. Home(t) \in KeysOf(t, spec[t], "namespace") /\ "namespace" \in Kind
    BY DEF KeysOf, Home, Kind
  <1>3. ASSUME NEW e \in Entries[t], NEW k \in Kind, NEW key \in KeysOf(t, e, k),
               key.kind = "namespace"
        PROVE  key = Home(t)
    <2>1. k = "namespace"
      BY <1>3, KeyShape
    <2>2. QED BY <1>3, <2>1 DEF KeysOf, Home
  <1>4. QED BY <1>1, <1>2, <1>3, InKeys DEF NamesOf, Home, Key

LEMMA HomesNext == TypeOK /\ OursAlone /\ HomesKept /\ [Next]_vars => HomesKept'
  <1> SUFFICES ASSUME TypeOK, OursAlone, HomesKept, [Next]_vars, NEW t \in Tenant,
                      obj'[Home(t)] # Absent
               PROVE  IsManaged(obj'[Home(t)]) /\ obj'[Home(t)].content \in {"active", "terminating"}
    BY DEF HomesKept, Home
  <1> DEFINE key == Home(t)
  <1>0. /\ key \in Keys /\ key.kind = "namespace" /\ key.kind \notin Foreign
        /\ obj \in [Keys -> Object]
    BY HomeKey, ResourcesAssumption DEF TypeOK
  <1>1. IsManaged(obj'[key])
    <2>1. OursAlone'
      BY OursAloneNext
    <2>2. QED BY <1>0, <2>1 DEF OursAlone
  <1>2. obj[key] # Absent => obj[key].content \in {"active", "terminating"}
    BY DEF HomesKept
  <1>3. obj'[key].content \in {"active", "terminating"}
    <2>1. CASE UNCHANGED obj
      BY <1>2, <2>1
    <2>2. ASSUME NEW other \in Keys, Tamper(other) \/ CreateForeign(other)
          PROVE  obj'[key].content \in {"active", "terminating"}
      <3>1. CASE other # key
        BY <1>0, <1>2, <2>2, <3>1, UserWrites
      <3>2. CASE other = key
        <4>1. Tamper(key)
          BY <1>0, <2>2, <3>2 DEF CreateForeign
        <4>2. obj' = [obj EXCEPT ![key].content = "terminating"]
          BY <1>0, <4>1 DEF Tamper, Write
        <4>3. QED BY <1>0, <4>2 DEF Object
      <3>3. QED BY <3>1, <3>2
    <2>3. ASSUME NEW u \in Tenant, NamespaceTerminated(u)
          PROVE  obj'[key].content \in {"active", "terminating"}
      BY <1>0, <1>2, <2>3 DEF NamespaceTerminated, Write
    <2>4. CASE Call
      <3>1. PICK call \in left, done \in SUBSET Keys, ok \in BOOLEAN :
              call \in Plan(snap[at]) /\ Made(call, done, ok)
        BY <2>4, CallDoes
      <3>2. CASE obj'[key] = obj[key] \/ obj'[key] = [obj[key] EXCEPT !.content = "terminating"]
        BY <1>0, <1>2, <3>2 DEF Object
      <3>3. CASE obj'[key] = Applied(at, key, Content(snap[at], call.kind))
                 /\ key \in KeysOf(at, snap[at], call.kind)
        <4>1. call.kind = "namespace"
          BY <1>0, <3>1, <3>3, KeyShape, PlanShape
        <4>2. obj'[key].content = IF obj[key] = Absent THEN "active" ELSE obj[key].content
          BY <1>0, <3>3, <4>1 DEF Applied, Content
        <4>3. QED BY <1>2, <4>2
      <3>4. \/ obj'[key] = obj[key] \/ obj'[key] = [obj[key] EXCEPT !.content = "terminating"]
            \/ /\ obj'[key] = Applied(at, key, Content(snap[at], call.kind))
               /\ key \in KeysOf(at, snap[at], call.kind)
        BY <1>0, <3>1, CallWrites
      <3>5. QED BY <3>2, <3>3, <3>4
    <2>5. QED BY <2>1, <2>2, <2>3, <2>4, ObjectWriters
  <1>4. QED BY <1>1, <1>3

\* A step that disturbs nothing has written nothing a watch would tell of.
LEMMA QuietWrite ==
    ASSUME TypeOK, NEW new \in [Keys -> Object], NEW enqueue \in BOOLEAN, Write(new, enqueue),
           ~queue', owed' = {}
    PROVE  /\ ~queue /\ owed = {} /\ ~enqueue
           /\ \A key \in Keys : ~Wakes(key, obj[key], new[key])
  BY DEF Write, TypeOK

\* A write that leaves an object as it is, or puts one nobody labelled where none was.
Spares(key) ==
    obj'[key] = obj[key] \/ (obj[key] = Absent /\ obj'[key] # Absent /\ ~IsManaged(obj'[key]))

LEMMA ShownNext == TypeOK /\ Shown /\ [Next]_vars => Shown'
  <1> SUFFICES ASSUME TypeOK, Shown, [Next]_vars, NEW key \in CachedKeys, key \notin owed'
               PROVE  cache'[key] = obj'[key] \/ (~IsManaged(cache'[key]) /\ ~IsManaged(obj'[key]))
    BY DEF Shown
  <1> USE DEF server, views
  <1>0. /\ key \in Keys /\ key.kind \in Watched
        /\ key \notin owed =>
             cache[key] = obj[key] \/ (~IsManaged(cache[key]) /\ ~IsManaged(obj[key]))
    BY DEF Shown, CachedKeys, Watched
  <1>1. CASE UNCHANGED <<obj, cache>> /\ (UNCHANGED owed \/ owed \subseteq owed')
    BY <1>0, <1>1
  <1>2. ASSUME UNCHANGED cache, obj'[key] = obj[key], owed \subseteq owed'
        PROVE  cache'[key] = obj'[key] \/ (~IsManaged(cache'[key]) /\ ~IsManaged(obj'[key]))
    BY <1>0, <1>2
  <1>3. ASSUME NEW new, NEW enqueue, Write(new, enqueue),
               Wakes(key, obj[key], obj'[key]) \/ Spares(key)
                 \/ (~IsManaged(obj[key]) /\ ~IsManaged(obj'[key]))
        PROVE  cache'[key] = obj'[key] \/ (~IsManaged(cache'[key]) /\ ~IsManaged(obj'[key]))
    <2>1. CASE ~CacheLags
      BY <1>3, <2>1 DEF Write
    <2>2. CASE CacheLags
      <3>1. UNCHANGED cache /\ key \notin owed /\ ~Wakes(key, obj[key], obj'[key])
        BY <1>0, <1>3, <2>2 DEF Write
      <3>2. ~IsManaged(Absent)
        BY DEF IsManaged, Absent
      <3>3. QED BY <1>0, <1>3, <3>1, <3>2 DEF Spares
    <2>3. QED BY <2>1, <2>2
  <1>4. ASSUME IsManaged(obj[key]), obj'[key] = Absent \/ IsManaged(obj'[key])
        PROVE  Wakes(key, obj[key], obj'[key]) \/ Spares(key)
    BY <1>0, <1>4 DEF Wakes, Spares, IsManaged, Absent
  <1>5. ASSUME NEW other \in Keys, Tamper(other) \/ CreateForeign(other)
        PROVE  cache'[key] = obj'[key] \/ (~IsManaged(cache'[key]) /\ ~IsManaged(obj'[key]))
    <2>1. \E new, enqueue : Write(new, enqueue)
      BY <1>5 DEF Tamper, CreateForeign
    <2>2. CASE key # other
      BY <1>0, <1>3, <1>5, <2>1, <2>2, UserWrites DEF Spares
    <2>3. CASE key = other
      <3>1. CASE Tamper(key)
        BY <1>0, <1>3, <1>4, <2>1, <3>1, UserWrites DEF IsManaged
      <3>2. CASE CreateForeign(key)
        BY <1>0, <1>3, <2>1, <3>2, UserWrites DEF Spares, IsManaged
      <3>3. QED BY <1>5, <2>3, <3>1, <3>2
    <2>4. QED BY <2>2, <2>3
  <1>6. ASSUME NEW t \in Tenant, NamespaceTerminated(t)
        PROVE  cache'[key] = obj'[key] \/ (~IsManaged(cache'[key]) /\ ~IsManaged(obj'[key]))
    <2>1. obj'[key] = obj[key] \/ obj'[key] = Absent
      BY <1>0, <1>6 DEF NamespaceTerminated, Write
    <2>2. Wakes(key, obj[key], obj'[key]) \/ Spares(key)
            \/ (~IsManaged(obj[key]) /\ ~IsManaged(obj'[key]))
      BY <1>4, <2>1 DEF Spares, IsManaged, Absent
    <2>3. QED BY <1>3, <1>6, <2>2 DEF NamespaceTerminated
  <1>7. ASSUME Call
        PROVE  cache'[key] = obj'[key] \/ (~IsManaged(cache'[key]) /\ ~IsManaged(obj'[key]))
    <2>0. at # None /\ obj[key] \in Object
      BY <1>0, <1>7 DEF Call, TypeOK
    <2>1. PICK call \in left, done \in SUBSET Keys, ok \in BOOLEAN :
            call \in Plan(snap[at]) /\ Made(call, done, ok)
      BY <1>7, CallDoes
    <2>2. \/ obj'[key] = obj[key] \/ obj'[key] = Absent
          \/ obj[key] # Absent /\ obj'[key] = [obj[key] EXCEPT !.content = "terminating"]
          \/ obj'[key] = Applied(at, key, Content(snap[at], call.kind))
      BY <1>0, <2>1, CallWrites
    <2>3. CASE obj'[key] = Applied(at, key, Content(snap[at], call.kind))
      <3>1. IsManaged(obj[key]) => IsManaged(obj'[key])
        BY <2>0, <2>3 DEF Applied, IsManaged
      <3>2. CASE ~IsManaged(obj[key]) /\ IsManaged(obj'[key])
        <4>1. Wakes(key, obj[key], obj'[key])
          BY <1>0, <3>2 DEF Wakes, IsManaged, Absent
        <4>2. QED BY <1>3, <2>1, <4>1 DEF Made
      <3>3. QED BY <1>3, <1>4, <2>1, <3>1, <3>2 DEF Made
    <2>4. CASE obj'[key] = obj[key] \/ obj'[key] = Absent
               \/ obj'[key] = [obj[key] EXCEPT !.content = "terminating"]
      <3>1. IsManaged(obj[key]) => obj'[key] = Absent \/ IsManaged(obj'[key])
        BY <2>0, <2>4 DEF IsManaged, Object
      <3>2. ~IsManaged(obj[key]) => ~IsManaged(obj'[key])
        BY <2>0, <2>4 DEF IsManaged, Object, Absent
      <3>3. QED BY <1>3, <1>4, <2>1, <3>1, <3>2 DEF Made
    <2>5. QED BY <2>2, <2>3, <2>4
  <1>8. ASSUME NEW other \in Keys, SyncObject(other)
        PROVE  cache'[key] = obj'[key] \/ (~IsManaged(cache'[key]) /\ ~IsManaged(obj'[key]))
    BY <1>0, <1>8 DEF SyncObject
  <1>9. CASE Restart
    BY <1>9 DEF Restart
  <1>10. CASE UNCHANGED vars \/ SyncSpec \/ Resync \/ Start \/ CallFails
    BY <1>1, <1>10 DEF vars, SyncSpec, Resync, Start, CallFails
  <1>11. CASE Users
    BY <1>1, <1>5, <1>11 DEF Users, EditEntry
  <1>12. CASE Step
    BY <1>1, <1>7, <1>12 DEF Step, Visit, BeginEntries, UpdateStatus
  <1>13. QED
    BY <1>6, <1>8, <1>9, <1>10, <1>11, <1>12 DEF Next

LEMMA ShownHolds == Spec => [](Shown /\ HomesKept)
  <1>1. Init => Shown /\ HomesKept
    BY HomeKey, InitTypeOK DEF Init, Shown, HomesKept, CachedKeys
  <1>2. QED
    BY <1>1, ShownNext, HomesNext, ResourcesTypeCorrect, OursAloneHolds, PTL DEF Spec

\* An object that nobody labelled as managed is only ever deleted with its
\* namespace, or when a managed one of its name was there and the informer the pass
\* reads has yet to tell of its loss: whatever others create, with any lag.
THEOREM ForeignSpared == Spec => ForeignUntouched
  <1>1. ASSUME TypeOK, OursAlone, Shown, [Next]_vars, NEW key \in Keys,
               obj[key] # Absent, ~IsManaged(obj[key]), obj'[key] = Absent
        PROVE  \/ key.in \in Tenant /\ Terminating(key.in)
               \/ key \in owed /\ key.kind \in Cached /\ IsManaged(Seen(key))
    <2>1. CASE UNCHANGED obj
      BY <1>1, <2>1
    <2>2. ASSUME NEW other \in Keys, Tamper(other) \/ CreateForeign(other) PROVE FALSE
      BY <1>1, <2>2, UserWrites
    <2>3. ASSUME NEW t \in Tenant, NamespaceTerminated(t)
          PROVE  key.in \in Tenant /\ Terminating(key.in)
      <3>1. key = Home(t) \/ key.in = t
        BY <1>1, <2>3 DEF NamespaceTerminated, Write
      <3>2. key # Home(t)
        BY <1>1, ResourcesAssumption DEF OursAlone, Home, Key
      <3>3. QED BY <2>3, <3>1, <3>2 DEF NamespaceTerminated, Terminating
    <2>4. CASE Call
      <3>1. PICK call \in left, done \in SUBSET Keys, ok \in BOOLEAN :
              call \in Plan(snap[at]) /\ Made(call, done, ok)
        BY <1>1, <2>4, CallDoes
      <3>2. at \in Tenant /\ at # None /\ obj[key] \in Object /\ obj[key].by = None
        BY <1>1, <2>4, CallDoes DEF Call, TypeOK, IsManaged
      <3>3. CASE key \in Doomed(at, snap[at], call)
        <4>1. MayDelete(key)
          BY <3>2, <3>3 DEF Doomed, IsProjectOf
        <4>2. key.kind \in Cached
          BY <1>1, <4>1 DEF MayDelete, Seen
        <4>3. key \in owed
          BY <1>1, <4>1, <4>2 DEF MayDelete, Seen, Shown, CachedKeys
        <4>4. QED BY <4>1, <4>2, <4>3 DEF MayDelete
      <3>4. CASE call.do = "apply" /\ obj'[key] = Applied(at, key, Content(snap[at], call.kind))
                 /\ key \in KeysOf(at, snap[at], call.kind)
        <4>1. Applied(at, key, Content(snap[at], call.kind)).content \in
                {obj[key].content, Content(snap[at], call.kind)}
          BY <1>1, <3>4 DEF Applied
        <4>2. Content(snap[at], call.kind) # "absent"
          <5>1. snap[at] \in Entry /\ call.kind \in On(snap[at])
            BY <1>1, <2>4, <3>1, <3>4, CallDoes, PlanShape
          <5>2. QED BY <5>1, ResourcesAssumption DEF Content, Entry, On
        <4>3. obj[key].content # "absent"
          BY <1>1, <3>2 DEF Object, Absent
        <4>4. QED BY <1>1, <3>4, <4>1, <4>2, <4>3 DEF Absent
      <3>5. QED BY <1>1, <3>1, <3>3, <3>4, CallWrites
    <2>5. QED BY <1>1, <2>1, <2>2, <2>3, <2>4, ObjectWriters
  <1>2. TypeOK /\ OursAlone /\ Shown /\ [Next]_vars =>
          [\A key \in Keys :
             obj[key] # Absent /\ ~IsManaged(obj[key]) /\ obj'[key] = Absent =>
               \/ key.in \in Tenant /\ Terminating(key.in)
               \/ key \in owed /\ key.kind \in Cached /\ IsManaged(Seen(key))]_vars
    BY <1>1
  <1>3. QED
    BY <1>2, ResourcesTypeCorrect, OursAloneHolds, ShownHolds, PTL DEF Spec, ForeignUntouched

\* What has been brought about survives writes that spare it.
LEMMA CarriedKept ==
    ASSUME TypeOK, Labelled', NEW t \in Tenant, NEW e \in Entries[t], NEW call \in Plan(e),
           Carried(t, e, call), Spares(Home(t)),
           \A key \in NamesOf(t) : key.kind = call.kind => Spares(key)
    PROVE  Carried(t, e, call)'
  <1>1. t # None /\ e \in Entry /\ call.kind \in Kind /\ obj \in [Keys -> Object]
    BY PlanShape, ResourcesAssumption DEF TypeOK
  <1>2. Terminating(t) => Terminating(t)'
    BY DEF Terminating, Spares, Absent, Home
  <1>3. CASE call.do = "apply"
    <2>1. ASSUME NEW key \in KeysOf(t, e, call.kind), obj[key].content = Content(e, call.kind)
          PROVE  obj'[key].content = Content(e, call.kind)
      <3>1. Content(e, call.kind) # "absent"
        BY <1>1, <1>3, PlanShape, ResourcesAssumption DEF Content, Entry, On
      <3>2. key \in NamesOf(t) /\ key.kind = call.kind
        BY <1>1, InNames, KeyShape
      <3>3. QED BY <2>1, <3>1, <3>2 DEF Spares, Absent
    <2>2. QED BY <1>2, <1>3, <2>1 DEF Carried
  <1>4. CASE call.do # "apply"
    <2>1. ASSUME NEW key \in Keys, key.kind = call.kind, obj'[key].by = t
          PROVE  obj[key].by = t
      <3>1. key \in NamesOf(t)
        BY <2>1 DEF Labelled, NamesOf
      <3>2. QED BY <1>1, <2>1, <3>1 DEF Spares, IsManaged
    <2>2. QED BY <1>2, <1>4, <2>1 DEF Carried, Wanted
  <1>5. QED BY <1>3, <1>4

LEMMA AccomplishedKept ==
    ASSUME TypeOK, Labelled', NEW t \in Tenant, Accomplished(t), spec' = spec,
           \A key \in NamesOf(t) : Spares(key)
    PROVE  Accomplished(t)'
  <1>1. ASSUME NEW e, e = spec[t], e.state \in {"on", "offboard"}, NEW call \in Plan(e)
        PROVE  Carried(t, e, call)'
    <2>1. e \in Entries[t] /\ Spares(Home(t))
      BY <1>1, SpecsEntry, HomeInNames DEF TypeOK
    <2>2. Carried(t, e, call)
      BY <1>1 DEF Accomplished
    <2>3. QED BY <1>1, <2>1, <2>2, CarriedKept
  <1>2. QED BY <1>1 DEF Accomplished

\* An entry all of whose calls are made is exact.
LEMMA CarriedIsExact ==
    ASSUME TypeOK, Labelled, QuietUse, NEW t \in Tenant, Parked(t), Accomplished(t)
    PROVE  Exact(t)
  <1> DEFINE e == spec[t]
  <1>1. e \in Entries[t] /\ e \in Entry
    BY SpecsEntry DEF TypeOK
  <1>2. ASSUME NEW key \in Keys, obj[key].by = t
        PROVE  key.kind \in Kind /\ \E f \in Entries[t] : key \in KeysOf(t, f, key.kind)
    <2>1. PICK f \in Entries[t], k \in Kind : key \in KeysOf(t, f, k)
      BY <1>2 DEF Labelled, NamesOf
    <2>2. QED BY <2>1, KeyShape
  <1>3. CASE e.state = "on"
    <2>1. Plan(e) = Provision(e)
      BY <1>3 DEF Plan
    <2>2. ASSUME NEW k \in On(e), NEW key \in KeysOf(t, e, k), ~Terminating(t)
          PROVE  obj[key].content = Content(e, k)
      <3>1. [do |-> "apply", kind |-> k] \in Plan(e)
        BY <2>1 DEF Provision, Calls
      <3>2. Carried(t, e, [do |-> "apply", kind |-> k])
        BY <1>3, <3>1 DEF Accomplished
      <3>3. QED BY <2>2, <3>2 DEF Carried
    <2>3. ASSUME NEW key \in Keys, obj[key].by = t PROVE key \in Wanted(t, e)
      <3>1. CASE key.kind \notin {"namespace"} \cup (On(e) \ {"policy", "project"})
        <4>1. [do |-> "prune", kind |-> key.kind] \in Plan(e)
          BY <1>2, <2>1, <2>3, <3>1 DEF Provision, Calls
        <4>2. Carried(t, e, [do |-> "prune", kind |-> key.kind])
          BY <1>3, <4>1 DEF Accomplished
        <4>3. QED BY <2>3, <4>2 DEF Carried
      <3>2. CASE key.kind \in {"namespace"} \cup (On(e) \ {"policy", "project"})
        <4>1. PICK f \in Entries[t] : key \in KeysOf(t, f, key.kind)
          BY <1>2, <2>3
        <4>2. GroupName(t, e) = GroupName(t, f)
          BY <1>1 DEF QuietUse, CarefulUse
        <4>3. key.kind \in On(e) /\ key.kind \in Kind \ {"policy", "project"}
          BY <1>2, <2>3, <3>2 DEF On
        <4>4. KeysOf(t, f, key.kind) = KeysOf(t, e, key.kind)
          BY <4>2, <4>3 DEF KeysOf, Kind
        <4>5. QED BY <4>1, <4>3, <4>4 DEF Wanted
      <3>3. QED BY <3>1, <3>2
    <2>4. QED BY <1>3, <2>2, <2>3 DEF Exact
  <1>4. CASE e.state = "offboard"
    <2>1. Plan(e) = Cleanup(e)
      BY <1>4 DEF Plan
    <2>2. ASSUME NEW key \in Keys, obj[key].by = t
          PROVE  Terminating(t) /\ key = Home(t)
      <3>1. key.kind \notin {"egress", "group"} \ On(e)
        <4>1. Holds(t) \cap Flagged \subseteq On(e)
          BY <1>4 DEF Parked
        <4>2. key.kind \in {"egress", "group"} => key.kind \in Holds(t) \cap Flagged
          BY <2>2 DEF Holds, Flagged, Outside
        <4>3. QED BY <4>1, <4>2
      <3>2. [do |-> "delete", kind |-> key.kind] \in Plan(e)
        BY <1>2, <2>1, <2>2, <3>1 DEF Cleanup, Calls
      <3>3. Carried(t, e, [do |-> "delete", kind |-> key.kind])
        BY <1>4, <3>2 DEF Accomplished
      <3>4. key.kind = "namespace" /\ Terminating(t)
        BY <2>2, <3>3 DEF Carried
      <3>5. QED BY <2>2, <3>4, HomeKey DEF Labelled
    <2>3. QED BY <1>4, <2>2 DEF Exact
  <1>5. QED BY <1>3, <1>4 DEF Exact

\* A call of an undisturbed pass has succeeded, has left what is watched as it
\* was, and has brought about what it is for.
LEMMA QuietCall ==
    ASSUME TypeOK, Labelled, OursAlone, Shown, HomesKept, QuietUse, Call, Undisturbed',
           NEW t \in Tenant, at = t, NEW e, snap[t] = e,
           NEW call \in left, NEW done \in SUBSET Keys, NEW ok \in BOOLEAN,
           call \in Plan(e), Made(call, done, ok)
    PROVE  /\ ok /\ Undisturbed
           /\ \A key \in Keys :
                 \/ obj'[key] = obj[key]
                 \/ /\ key.kind \in Flagged /\ key.kind = call.kind
                    /\ key \in KeysOf(t, e, call.kind)
           /\ Carried(t, e, call)'
  <1>0. /\ t # None /\ pc # "idle" /\ e \in Entries[t] /\ e \in Entry
        /\ call.kind \in Kind /\ obj \in [Keys -> Object] /\ snap' = snap
    BY CallDoes, PlanShape, ResourcesAssumption DEF TypeOK, Made, Leave, Finish
  <1>1. /\ obj' \in [Keys -> Object]
        /\ Write(obj', ~ok /\ pc = "prune")
    <2>1. After(t, e, call, done) \in [Keys -> Object]
      BY <1>0, AfterOK
    <2>2. QED BY <2>1 DEF Made, Write
  <1>2. /\ ~queue /\ owed = {} /\ ~(~ok /\ pc = "prune")
        /\ \A key \in Keys : ~Wakes(key, obj[key], obj'[key])
    BY <1>1, QuietWrite DEF Undisturbed
  <1>3. ok /\ Undisturbed /\ done = Targets(t, e, call)
    BY <1>0, <1>2 DEF Undisturbed, Made, Leave, Finish
  <1>4. ASSUME NEW key \in Keys, key.kind \in Cached, IsManaged(cache[key]) \/ IsManaged(obj[key])
        PROVE  Seen(key) = obj[key]
    BY <1>2, <1>4 DEF Shown, Seen, CachedKeys
  <1>5. ASSUME NEW key \in Keys, key.kind \notin Cached PROVE Seen(key) = obj[key]
    BY <1>5 DEF Seen
  <1>6. ASSUME NEW key \in Keys, key.kind \in Watched, obj'[key] # obj[key] PROVE FALSE
    <2>1. ~Wakes(key, obj[key], obj'[key])
      BY <1>2
    <2>2. CASE IsManaged(obj'[key])
      BY <1>6, <2>1, <2>2 DEF Wakes, IsManaged, Absent
    <2>3. CASE IsManaged(obj[key]) /\ obj'[key] = Absent
      BY <1>6, <2>1, <2>3 DEF Wakes, IsManaged, Absent
    <2>4. CASE obj'[key] = Applied(t, key, Content(e, call.kind))
      <3>1. key.kind \notin {"group", "egress"}
        BY <1>6 DEF Watched, Cached
      <3>2. CASE Seen(key).by = t
        <4>1. Seen(key) = obj[key]
          BY <1>0, <1>4, <1>5, <3>2 DEF Seen, IsManaged
        <4>2. obj'[key].by = t
          BY <2>4, <3>1, <3>2, <4>1 DEF Applied
        <4>3. QED BY <1>0, <2>2, <4>2 DEF IsManaged
      <3>3. CASE Seen(key).by # t
        <4>1. obj'[key].by = t
          BY <2>4, <3>1, <3>3 DEF Applied
        <4>2. QED BY <1>0, <2>2, <4>1 DEF IsManaged
      <3>4. QED BY <3>2, <3>3
    <2>5. CASE key \in Doomed(t, e, call)
               /\ obj'[key] \in {Absent, [obj[key] EXCEPT !.content = "terminating"]}
      <3>1. IsManaged(obj[key])
        <4>1. key.kind = "project" => obj[key].by = t \/ MayDelete(key)
          BY <2>5 DEF Doomed, IsProjectOf
        <4>2. key.kind # "project" => MayDelete(key)
          BY <2>5 DEF Doomed, IsProjectOf
        <4>3. QED BY <1>0, <1>4, <1>5, <4>1, <4>2 DEF MayDelete, IsManaged, Seen
      <3>2. QED BY <1>0, <2>2, <2>3, <2>5, <3>1 DEF IsManaged, Object
    <2>6. \/ obj'[key] = Applied(t, key, Content(e, call.kind))
          \/ /\ key \in Doomed(t, e, call)
             /\ obj'[key] \in {Absent, [obj[key] EXCEPT !.content = "terminating"]}
      <3>1. \/ obj'[key] = Applied(t, key, Content(e, call.kind))
            \/ /\ key \in Doomed(t, e, call)
               /\ IF key = Home(t) /\ obj[key] # Absent
                  THEN obj'[key] = [obj[key] EXCEPT !.content = "terminating"]
                  ELSE obj'[key] = Absent
        BY <1>6, CallWrites
      <3>2. QED BY <3>1
    <2>7. QED BY <2>4, <2>5, <2>6
  <1>7. ASSUME NEW key \in Keys, obj'[key] # obj[key]
        PROVE  /\ key.kind \in Flagged /\ key.kind = call.kind
               /\ key \in KeysOf(t, e, call.kind)
    <2>1. key.kind \notin Watched
      BY <1>6, <1>7
    <2>2. key \in Targets(t, e, call)
      BY <1>3, <1>7, CallWrites
    <2>3. \/ key \in KeysOf(t, e, call.kind)
          \/ key.kind \in {"policy", "project"}
      BY <2>2 DEF Targets, Doomed, IsProjectOf
    <2>4. key \in KeysOf(t, e, call.kind)
      BY <2>1, <2>3 DEF Watched, Cached
    <2>5. QED BY <1>0, <2>1, <2>4, KeyShape DEF Watched, Cached, Kind, Flagged
  <1>8. ASSUME call.do = "apply", NEW key \in KeysOf(t, e, call.kind)
        PROVE  Terminating(t)' \/ obj'[key].content = Content(e, call.kind)
    <2> DEFINE c == Content(e, call.kind)
    <2>1. /\ key \in Keys /\ key.kind = call.kind
          /\ obj'[key] = Applied(t, key, c)
      <3>1. key \in Keys /\ key \in done /\ key.kind = call.kind
        BY <1>0, <1>3, <1>8, InKeys, KeyShape DEF Targets
      <3>2. QED BY <1>8, <3>1, CallWrites
    <2>2. CASE call.kind = "namespace"
      <3>1. key = Home(t)
        BY <1>8, <2>2 DEF KeysOf, Home
      <3>2. c = "active" /\ obj'[key].content = IF obj[key] = Absent THEN c ELSE obj[key].content
        BY <2>1, <2>2 DEF Applied, Content
      <3>3. QED BY <3>1, <3>2 DEF HomesKept, Terminating, Home
    <2>3. CASE call.kind # "namespace" /\ Seen(key) = obj[key]
      BY <2>1, <2>3 DEF Applied
    <2>4. CASE call.kind # "namespace" /\ Seen(key) # obj[key]
      <3>1. key.kind \in Cached /\ ~IsManaged(cache[key]) /\ ~IsManaged(obj[key])
        BY <1>4, <1>5, <2>1, <2>4
      <3>2. obj'[key] = obj[key]
        BY <1>6, <2>1, <3>1 DEF Watched
      <3>3. Seen(key).by # t /\ key.kind \notin {"group", "egress"}
        BY <1>0, <3>1 DEF Seen, IsManaged, Cached
      <3>4. obj'[key].by = t
        BY <2>1, <3>3 DEF Applied
      <3>5. QED BY <1>0, <3>1, <3>2, <3>4 DEF IsManaged
    <2>5. QED BY <2>2, <2>3, <2>4
  <1>9. ASSUME call.do # "apply", NEW key \in Keys, key.kind = call.kind, obj'[key].by = t
        PROVE  IF call.do = "prune" THEN key \in Wanted(t, e)
               ELSE call.kind = "namespace" /\ Terminating(t)'
    <2>1. \/ key \notin done /\ obj[key].by = t
          \/ key = Home(t) /\ obj[key].by = t /\ Terminating(t)'
      <3>1. Absent.by = None
        BY DEF Absent
      <3>2. \/ key \notin done /\ obj'[key] = obj[key]
            \/ obj'[key] = Absent
            \/ key = Home(t) /\ obj'[key] = [obj[key] EXCEPT !.content = "terminating"]
        BY <1>9, CallWrites
      <3>3. CASE key = Home(t) /\ obj'[key] = [obj[key] EXCEPT !.content = "terminating"]
        <4>1. obj'[key].content = "terminating" /\ obj'[key].by = obj[key].by
          BY <1>0, <3>3 DEF Object
        <4>2. QED BY <1>9, <3>3, <4>1 DEF Terminating, Home
      <3>4. QED BY <1>0, <1>9, <3>1, <3>2, <3>3
    <2>2. IsManaged(obj[key]) /\ MayDelete(key)
      BY <1>0, <1>4, <1>5, <2>1 DEF MayDelete, IsManaged
    <2>3. PICK f \in Entries[t] : key \in KeysOf(t, f, call.kind)
      <3>1. key \in NamesOf(t)
        BY <2>1 DEF Labelled
      <3>2. PICK f \in Entries[t], k \in Kind : key \in KeysOf(t, f, k)
        BY <3>1 DEF NamesOf
      <3>3. k = call.kind
        BY <1>9, <3>2, KeyShape
      <3>4. QED BY <3>2, <3>3
    <2>4. /\ GroupName(t, f) = GroupName(t, e) /\ f.argo = e.argo
          /\ call.kind \in {"policy", "project"} => call.kind \in On(e)
      BY <1>0 DEF QuietUse, CarefulUse, On
    <2>5. key \in Doomed(t, e, call) \/ (call.do = "prune" /\ key \in Wanted(t, e))
      <3>1. CASE call.kind = "policy"
        <4>1. key.in = t
          BY <1>0, <2>3, <3>1, KeyShape
        <4>2. QED BY <1>9, <2>2, <2>4, <3>1, <4>1 DEF Doomed, Wanted
      <3>2. CASE call.kind = "project"
        <4>1. PICK n \in f.projects : key = Key("project", e.argo, n)
          BY <2>3, <2>4, <3>2 DEF KeysOf
        <4>2. \A k \in KeysOf(t, e, "project") : k.name = key.name => key = k
          BY <4>1 DEF KeysOf, Key
        <4>3. QED BY <1>9, <2>1, <2>4, <3>2, <4>2 DEF Doomed, IsProjectOf, Wanted
      <3>3. CASE call.kind \notin {"policy", "project"}
        <4>1. KeysOf(t, f, call.kind) = KeysOf(t, e, call.kind)
          BY <1>0, <2>4, <3>3 DEF KeysOf, Kind
        <4>2. QED BY <2>2, <2>3, <3>3, <4>1 DEF Doomed
      <3>4. QED BY <3>1, <3>2, <3>3
    <2>6. CASE call.do = "prune"
      <3>1. call.kind # "namespace"
        BY <2>6 DEF Plan, Provision, Cleanup, Calls, On
      <3>2. key # Home(t)
        BY <1>9, <3>1 DEF Home, Key
      <3>3. QED BY <1>3, <1>9, <2>1, <2>5, <2>6, <3>2 DEF Targets
    <2>7. CASE call.do # "prune"
      <3>1. key = Home(t) /\ Terminating(t)'
        BY <1>3, <1>9, <2>1, <2>5, <2>7 DEF Targets
      <3>2. QED BY <1>9, <2>7, <3>1 DEF Home, Key
    <2>8. QED BY <2>6, <2>7
  <1>10. Carried(t, e, call)'
    BY <1>8, <1>9 DEF Carried, Wanted
  <1>11. QED BY <1>3, <1>7, <1>10

\* A plan has one call for each kind outside the namespace that a flag enables.
LEMMA FlaggedOnce ==
    ASSUME NEW e, NEW call \in Plan(e), NEW other \in Plan(e), call.kind = other.kind,
           call.kind \in Flagged
    PROVE  call = other
  BY DEF Plan, Provision, Cleanup, Calls, Flagged

LEMMA SettlingCall ==
    ASSUME TypeOK, Labelled, Labelled', OursAlone, Shown, HomesKept, QuietUse, Settling, Call,
           Undisturbed'
    PROVE  Settling'
  <1>0. PICK t \in Tenant : at = t /\ t \in todo /\ pc # "idle" /\ snap[t] \in Entries[t]
    BY CallDoes
  <1>1. PICK e \in Entries[t], call \in left, done \in SUBSET Keys, ok \in BOOLEAN :
          /\ at = t /\ e = snap[t] /\ t \in todo /\ pc # "idle"
          /\ call \in Plan(e) /\ Made(call, done, ok)
    BY <1>0, CallDoes
  <1>2. /\ ok /\ Undisturbed
        /\ \A key \in Keys :
              \/ obj'[key] = obj[key]
              \/ /\ key.kind \in Flagged /\ key.kind = call.kind
                 /\ key \in KeysOf(t, e, call.kind)
        /\ Carried(t, e, call)'
    BY <1>1, QuietCall
  <1>3. snap = spec /\ snap' = snap /\ spec' = spec /\ t # None
    BY <1>1, <1>2, ResourcesAssumption DEF Settling, Made, Leave
  <1>4. ASSUME NEW u \in Tenant, u # t, Accomplished(u) PROVE Accomplished(u)'
    <2>1. call.kind \in Kind
      BY <1>1, PlanShape
    <2>2. KeysOf(t, e, call.kind) \cap NamesOf(u) = {}
      BY <1>1, <1>4, <2>1, InNames DEF QuietUse, CarefulUse, NamesApart
    <2>3. NamesOf(u) \subseteq Keys
      BY InKeys DEF NamesOf
    <2>4. QED BY <1>2, <1>3, <1>4, <2>2, <2>3, AccomplishedKept DEF Spares
  <1>5. ASSUME NEW other \in Plan(e), other # call, Carried(t, e, other)
        PROVE  Carried(t, e, other)'
    <2>1. Spares(Home(t))
      BY <1>2, HomeKey DEF Spares, Flagged
    <2>2. other.kind = call.kind => call.kind \notin Flagged
      BY <1>1, <1>5, FlaggedOnce
    <2>3. NamesOf(t) \subseteq Keys
      BY InKeys DEF NamesOf
    <2>4. \A key \in NamesOf(t) : key.kind = other.kind => Spares(key)
      BY <1>2, <2>2, <2>3 DEF Spares
    <2>5. QED BY <1>5, <2>1, <2>4, CarriedKept
  <1>6. pc = "entries" => \A other \in Plan(e) \ left : Carried(t, e, other)
    BY <1>1, <1>2, <1>3 DEF Settling
  <1>7. CASE pc = "prune"
    <2>1. pc' = "prune"
      BY <1>1, <1>2, <1>7 DEF Made, Leave
    <2>2. QED BY <1>3, <2>1 DEF Settling
  <1>8. CASE pc = "entries" /\ left' = left \ {call} /\ UNCHANGED <<pc, todo, at>>
    <2>1. ASSUME NEW u \in Tenant \ todo' PROVE Accomplished(u)'
      BY <1>1, <1>2, <1>4, <1>8, <2>1 DEF Settling
    <2>2. ASSUME NEW other \in Plan(e) \ left' PROVE Carried(t, e, other)'
      BY <1>2, <1>5, <1>6, <1>8, <2>2
    <2>3. ASSUME NEW other \in Plan(snap'[at']) \ left' PROVE Carried(at, snap[at], other)'
      BY <1>1, <1>3, <1>8, <2>2, <2>3 DEF Carried, Wanted
    <2>4. QED BY <1>3, <1>8, <2>1, <2>3 DEF Settling
  <1>9. CASE pc = "entries" /\ left = {call} /\ Leave
    <2>1. ASSUME NEW other \in Plan(e) PROVE Carried(t, e, other)'
      BY <1>2, <1>5, <1>6, <1>9, <2>1
    <2>2. Accomplished(t)'
      BY <1>1, <1>3, <2>1 DEF Accomplished, Carried, Wanted
    <2>3. ASSUME NEW u \in Tenant \ todo' PROVE Accomplished(u)'
      BY <1>1, <1>2, <1>4, <1>9, <2>2, <2>3 DEF Settling, Leave
    <2>4. pc' = "entries" /\ at' = None
      BY <1>9 DEF Leave
    <2>5. QED BY <1>3, <2>3, <2>4 DEF Settling
  <1>10. pc \in {"prune", "entries"}
    BY <1>1 DEF TypeOK
  <1>11. QED BY <1>1, <1>2, <1>7, <1>8, <1>9, <1>10 DEF Made

\* A step that disturbs nothing, and is no call, spares every object.
LEMMA QuietStep ==
    ASSUME TypeOK, HomesKept, QuietUse, [Next]_vars, Undisturbed', ~Call
    PROVE  /\ \A key \in Keys : Spares(key)
           /\ Undisturbed \/ Start
           /\ UNCHANGED spec
  <1> USE DEF server, views, pass
  <1>0. obj \in [Keys -> Object] /\ (pc = "idle" => ~failed)
    BY DEF TypeOK
  <1>1. CASE UNCHANGED vars
    BY <1>1 DEF vars, Spares, Undisturbed
  <1>2. ASSUME NEW other \in Keys, Tamper(other) PROVE Undisturbed /\ Spares(other)
    <2>1. /\ other.kind \in Watched /\ IsManaged(obj[other])
          /\ obj'[other] = Absent \/ IsManaged(obj'[other])
      BY <1>2, UserWrites DEF Tamper, QuietUse, IsManaged
    <2>2. obj' \in [Keys -> Object] /\ Write(obj', FALSE)
      <3>1. PICK new : /\ Write(new, FALSE)
                       /\ \/ new = [obj EXCEPT ![other].content = "terminating"]
                          \/ new = [obj EXCEPT ![other] = Absent]
                          \/ new = [obj EXCEPT ![other].content = "theirs"]
        BY <1>2 DEF Tamper
      <3>2. Absent \in Object
        BY DEF Absent, Object
      <3>3. new \in [Keys -> Object]
        BY <1>0, <3>1, <3>2 DEF Object
      <3>4. obj' = new
        BY <3>1 DEF Write
      <3>5. QED BY <3>1, <3>3, <3>4
    <2>3. ~queue /\ owed = {} /\ ~Wakes(other, obj[other], obj'[other])
      BY <2>2, QuietWrite DEF Undisturbed
    <2>4. QED BY <1>2, <2>1, <2>3 DEF Tamper, Undisturbed, Wakes, Spares, Absent, IsManaged
  <1>3. ASSUME NEW other \in Keys, CreateForeign(other) PROVE Undisturbed /\ Spares(other)
    <2>1. Spares(other)
      BY <1>3, UserWrites DEF Spares, IsManaged
    <2>2. obj' \in [Keys -> Object] /\ Write(obj', FALSE)
      <3>1. [by |-> None, content |-> "theirs"] \in Object
        BY DEF Object
      <3>2. QED BY <1>0, <1>3, <3>1 DEF CreateForeign, Write
    <2>3. QED BY <1>3, <2>1, <2>2, QuietWrite DEF CreateForeign, Undisturbed
  <1>4. CASE Users
    <2>1. ASSUME NEW other \in Keys, Tamper(other) \/ CreateForeign(other)
          PROVE  (\A key \in Keys : Spares(key)) /\ Undisturbed /\ UNCHANGED spec
      <3>1. UNCHANGED spec
        BY <2>1 DEF Tamper, CreateForeign
      <3>2. QED BY <1>2, <1>3, <2>1, <3>1, UserWrites DEF Spares
    <2>2. ASSUME NEW t \in Tenant, EditEntry(t) PROVE FALSE
      BY <2>2 DEF EditEntry, Undisturbed
    <2>3. QED BY <1>4, <2>1, <2>2 DEF Users
  <1>5. ASSUME NEW t \in Tenant, NamespaceTerminated(t) PROVE FALSE
    <2>1. Home(t) \in Keys /\ Home(t).kind = "namespace" /\ obj[Home(t)].content = "terminating"
      BY <1>5, HomeKey DEF NamespaceTerminated
    <2>2. obj[Home(t)] # Absent /\ IsManaged(obj[Home(t)]) /\ obj'[Home(t)] = Absent
      BY <1>5, <2>1 DEF NamespaceTerminated, Write, HomesKept, Absent
    <2>3. obj' \in [Keys -> Object] /\ Write(obj', FALSE)
      <3>1. Absent \in Object
        BY DEF Absent, Object
      <3>2. QED BY <1>0, <1>5, <3>1 DEF NamespaceTerminated, Write
    <2>4. ~Wakes(Home(t), obj[Home(t)], obj'[Home(t)])
      BY <2>1, <2>3, QuietWrite DEF Undisturbed
    <2>5. QED BY <2>1, <2>2, <2>4 DEF Wakes, Watched, Cached
  <1>6. CASE SyncSpec \/ Resync \/ CallFails \/ Restart
    BY <1>6 DEF SyncSpec, Resync, CallFails, Restart, Undisturbed
  <1>7. ASSUME NEW other \in Keys, SyncObject(other)
        PROVE  Undisturbed /\ UNCHANGED <<obj, spec>>
    BY <1>7 DEF SyncObject, Undisturbed, TypeOK
  <1>8. CASE Start
    BY <1>8 DEF Start, Spares
  <1>9. CASE \E t \in Tenant : Visit(t)
    BY <1>9 DEF Visit, Spares, Undisturbed
  <1>10. CASE BeginEntries
    BY <1>10 DEF BeginEntries, Spares, Undisturbed
  <1>11. CASE UpdateStatus
    BY <1>11 DEF UpdateStatus, Finish, Spares, Undisturbed, TypeOK
  <1>12. QED
    BY <1>1, <1>4, <1>5, <1>6, <1>7, <1>8, <1>9, <1>10, <1>11 DEF Next, Step, Spares

\* The inductive step of Settling.
LEMMA SettlingNext ==
    ASSUME QuietUse
    PROVE  /\ TypeOK /\ Labelled /\ Labelled' /\ OursAlone /\ Shown /\ HomesKept /\ CarefulInv
           /\ Settling /\ [Next]_vars
           => Settling'
  <1> SUFFICES ASSUME TypeOK, Labelled, Labelled', OursAlone, Shown, HomesKept, CarefulInv,
                      Settling, [Next]_vars, Undisturbed'
               PROVE  Settling'
    BY DEF Settling
  <1> USE DEF server, views, pass
  <1>1. CASE Call
    BY <1>1, SettlingCall
  <1>2. CASE ~Call
    <2>1. (\A key \in Keys : Spares(key)) /\ (Undisturbed \/ Start) /\ spec' = spec
      BY <1>2, QuietStep
    <2>2. ASSUME NEW t \in Tenant, Accomplished(t) PROVE Accomplished(t)'
      <3>1. NamesOf(t) \subseteq Keys
        BY InKeys DEF NamesOf
      <3>2. QED BY <2>1, <2>2, <3>1, AccomplishedKept
    <2>3. ASSUME Undisturbed, UNCHANGED pass PROVE Settling'
      <3>1. ASSUME NEW t \in Tenant, NEW e \in Entries[t], NEW call \in Plan(e), Carried(t, e, call)
            PROVE  Carried(t, e, call)'
        <4>1. NamesOf(t) \subseteq Keys
          BY InKeys DEF NamesOf
        <4>2. QED BY <2>1, <3>1, <4>1, HomeInNames, CarriedKept
      <3>2. ASSUME NEW t \in Tenant, at = t, pc = "entries", NEW call \in Plan(snap[t]) \ left
            PROVE  Carried(t, snap[t], call)'
        <4>1. snap[t] \in Entries[t] /\ Carried(t, snap[t], call)
          BY <2>3, <3>2, SpecsEntry, ResourcesAssumption DEF Settling, TypeOK
        <4>2. PICK e \in Entries[t] : e = snap[t]
          BY <4>1
        <4>3. Carried(t, e, call)'
          BY <3>1, <3>2, <4>1, <4>2
        <4>4. QED BY <2>3, <4>2, <4>3 DEF Carried, Wanted
      <3>3. at # None => at \in Tenant
        BY DEF TypeOK
      <3>4. at' # None /\ pc' = "entries" =>
              \A call \in Plan(snap'[at']) \ left' : Carried(at, snap[at], call)'
        BY <2>3, <3>2, <3>3
      <3>5. QED BY <2>1, <2>2, <2>3, <3>4 DEF Settling
    <2>4. CASE Start
      <3>1. pc' = "prune" /\ snap' = specSeen /\ fresh
        BY <2>4 DEF Start, Undisturbed
      <3>2. specSeen = spec
        BY <3>1 DEF CarefulInv, VersionsKnown
      <3>3. QED BY <2>1, <3>1, <3>2 DEF Settling
    <2>5. ASSUME NEW t \in Tenant, Visit(t), Undisturbed PROVE Settling'
      <3>1. at' = t /\ left' = Plan(snap[t]) /\ UNCHANGED <<pc, snap, todo>>
        BY <2>5 DEF Visit
      <3>2. \A u \in Tenant \ todo : pc = "entries" => Accomplished(u)'
        BY <2>2, <2>5 DEF Settling
      <3>3. pc # "idle"
        BY <2>5 DEF Visit
      <3>4. QED BY <2>1, <2>5, <3>1, <3>2, <3>3 DEF Settling
    <2>6. CASE BeginEntries /\ Undisturbed
      <3>1. /\ pc = "prune" /\ pc' = "entries" /\ UNCHANGED snap /\ at' = None
            /\ todo' = {t \in Tenant : snap[t].state \in {"on", "offboard"}}
        BY <2>6 DEF BeginEntries, TypeOK
      <3>2. snap = spec
        BY <2>6, <3>1 DEF Settling
      <3>3. \A t \in Tenant \ todo' : Accomplished(t)'
        BY <2>1, <3>1, <3>2 DEF Accomplished
      <3>4. QED BY <2>1, <3>1, <3>2, <3>3 DEF Settling
    <2>7. CASE UpdateStatus /\ Undisturbed
      <3>1. pc = "entries" /\ todo = {} /\ pc' = "idle"
        BY <2>7 DEF UpdateStatus, Finish
      <3>2. \A t \in Tenant : Accomplished(t)'
        BY <2>2, <2>7, <3>1 DEF Settling
      <3>3. QED BY <3>1, <3>2 DEF Settling
    <2>8. CASE UNCHANGED vars \/ Users \/ \E key \in Keys : SyncObject(key)
      <3>1. UNCHANGED pass
        BY <2>8 DEF vars, Users, EditEntry, Tamper, CreateForeign, SyncObject, Undisturbed
      <3>2. Undisturbed \/ Start
        BY <2>1
      <3>3. QED BY <2>3, <2>4, <3>1, <3>2
    <2>9. CASE \E t \in Tenant : NamespaceTerminated(t)
      BY <2>1, <2>3, <2>4, <2>9 DEF NamespaceTerminated
    <2>10. CASE SyncSpec \/ Resync \/ CallFails \/ Restart
      BY <2>10 DEF SyncSpec, Resync, CallFails, Restart, Undisturbed
    <2>11. QED
      BY <1>2, <2>1, <2>4, <2>5, <2>6, <2>7, <2>8, <2>9, <2>10 DEF Next, Step
  <1>3. QED BY <1>1, <1>2

\* With no pass and no event left for it, a tenant is exactly what its entry asks
\* for: for any entries, objects of others in the way of the kinds that are
\* watched, tampering with those, late events, partial failures and restarts.
THEOREM QuietIsExact == QuietUse => (Spec => []QuietMeansExact)
  <1> SUFFICES ASSUME QuietUse PROVE Spec => []QuietMeansExact
    OBVIOUS
  <1>1. Init => Settling
    BY DEF Init, Settling, Undisturbed
  <1>2. /\ TypeOK /\ Labelled /\ Labelled' /\ OursAlone /\ Shown /\ HomesKept /\ CarefulInv
        /\ Settling /\ [Next]_vars
        => Settling'
    BY SettlingNext
  <1>3. ASSUME TypeOK, Labelled, CarefulInv, Settling, Quiet, NEW t \in Tenant PROVE Exact(t)
    <2>1. Parked(t) /\ ~failed
      BY <1>3 DEF CarefulInv, TypeOK, Quiet
    <2>2. Accomplished(t)
      BY <1>3, <2>1 DEF Settling, Undisturbed, Quiet
    <2>3. QED BY <1>3, <2>1, <2>2, CarriedIsExact
  <1>4. TypeOK /\ Labelled /\ CarefulInv /\ Settling => QuietMeansExact
    BY <1>3 DEF QuietMeansExact
  <1>5. CarefulUse
    BY DEF QuietUse
  <1>6. QED
    BY <1>1, <1>2, <1>4, <1>5, ResourcesTypeCorrect, LabelledHolds, OursAloneHolds, ShownHolds,
       CarefulHolds, PTL DEF Spec
=============================================================================
