-------------------------- MODULE TenantResources --------------------------
(***************************************************************************)
(* What a pass of Reconcile does inside the tenants of one                 *)
(* ProjectOnboarding (PO): the objects it applies, prunes and cleans up    *)
(* for every entry of spec.namespaces[], call by call, while users edit    *)
(* the entries and tamper with the objects.                                *)
(*                                                                         *)
(* The manager's client reads typed kinds from informer caches, which lag, *)
(* and unstructured kinds (Group, EgressIP, AppProject) from the API       *)
(* server.  One call stands for the Get or List and the writes of one      *)
(* kind; ResourceQuota and LimitRange, which run through the same code,    *)
(* are one kind, "quota".  The life of the PO itself is TenantLifecycle's. *)
(***************************************************************************)
EXTENDS Naturals, Sequences, FiniteSets

CONSTANTS
    Tenant,         \* names of the entries and of their namespaces
    None,
    Group,          \* values of localAdminGroup.groupName
    Policy,         \* NetworkPolicy names
    Project,        \* AppProject names
    ArgoNS,         \* application GitOps namespaces
    Size, Role,     \* contents of a quota; cluster roles
    Entries,        \* [Tenant -> SUBSET Entry]: the entries users write
    CacheLags,      \* may the informers of the child kinds lag?
    Careful,        \* do users edit entries the careful way (CarefulEdit)?
    Tampered,       \* kinds whose managed objects users change or delete
    Foreign,        \* kinds users create objects of, under names we use
    MaxEdits,       \* bound: edits and tampering
    MaxFaults       \* bound: failed calls, lost answers, restarts

Kind == {"namespace", "quota", "policy", "binding", "group", "egress", "project"}

\* Typed kinds are read from the cache; Group and EgressIP are not watched.
Cached  == {"namespace", "quota", "policy", "binding"}
Watched == Cached \cup {"project"}

\* An entry, after its T-shirt size and the cluster defaults are resolved.
\* "off": not listed. quota = None: neither quota nor limits are enabled.
Entry ==
    [state : {"off", "on", "frozen", "offboard"}, quota : Size \cup {None},
     policies : SUBSET Policy, admins : BOOLEAN, group : Group \cup {None},
     role : Role, egress : BOOLEAN, argo : ArgoNS, projects : SUBSET Project]

ASSUME ResourcesAssumption ==
    /\ None \notin Tenant \cup Group \cup Policy \cup Project \cup ArgoNS \cup Size
    /\ (Size \cup Role) \cap {"absent", "active", "terminating", "ours", "theirs"} = {}
    /\ Entries \in [Tenant -> SUBSET Entry]
    /\ CacheLags \in BOOLEAN /\ Careful \in BOOLEAN
    /\ Tampered \subseteq Kind /\ Foreign \subseteq Kind \ {"namespace"}
    /\ MaxEdits \in Nat /\ MaxFaults \in Nat

\* What spec.namespaces[] can be.
Specs == {s \in [Tenant -> Entry] : \A t \in Tenant : s[t] \in Entries[t]}

\* Names: a key is what the API server tells objects apart by.
Key(k, in, n) == [kind |-> k, in |-> in, name |-> n]

GroupName(t, e) == IF e.group = None THEN t ELSE e.group

\* The keys of one kind that entry e of tenant t asks for.
KeysOf(t, e, k) ==
    CASE k \in {"namespace", "egress"} -> {Key(k, None, t)}
      [] k = "quota"   -> {Key(k, t, t)}
      [] k = "policy"  -> {Key(k, t, n) : n \in e.policies}
      [] k = "binding" -> {Key(k, t, GroupName(t, e))}
      [] k = "group"   -> {Key(k, None, GroupName(t, e))}
      [] k = "project" -> {Key(k, e.argo, n) : n \in e.projects}

Keys == UNION {KeysOf(t, e, k) : t \in Tenant, e \in UNION {Entries[u] : u \in Tenant}, k \in Kind}

CachedKeys == {key \in Keys : key.kind \in Cached}

\* by: whose labels an object carries, all three managed labels together.
Absent == [by |-> None, content |-> "absent"]
Object ==
    [by : Tenant \cup {None},
     content : {"absent", "active", "terminating", "ours", "theirs"} \cup Size \cup Role]

VARIABLES
    spec,       \* API server: the entries
    status,     \* API server: phase Ready?, observedGeneration = generation?
    obj,        \* API server: the objects
    specSeen,   \* informer cache of the PO
    fresh,      \* is it the server's version?
    cache,      \* informer caches of the typed kinds
    owed,       \* keys with an event on its way that will wake the PO
    queue,      \* is the PO in the workqueue?
    pc,         \* stage of the pass
    snap,       \* the entries the pass works on
    current,    \* are they still the server's version?
    todo,       \* entries the stage has still to visit
    at,         \* the entry in work
    left,       \* the calls still to make for it, each in its turn
    failed,     \* has an entry failed?
    edits, faults

server == <<spec, status, obj>>
views  == <<specSeen, fresh, cache, owed>>
pass   == <<pc, snap, current, todo, at, left, failed>>
vars   == <<server, views, queue, pass, edits, faults>>

Init ==
    /\ spec \in [Tenant -> UNION {Entries[t] : t \in Tenant}]
    /\ \A t \in Tenant : spec[t] \in Entries[t] /\ spec[t].state = "off"
    /\ status = [ready |-> FALSE, observed |-> FALSE]
    /\ obj = [key \in Keys |-> Absent]
    /\ specSeen = spec
    /\ fresh = TRUE
    /\ cache = [key \in CachedKeys |-> Absent]
    /\ owed = {}
    /\ queue = TRUE
    /\ pc = "idle"
    /\ snap = spec
    /\ current = FALSE
    /\ todo = {}
    /\ at = None
    /\ left = {}
    /\ failed = FALSE
    /\ edits = 0
    /\ faults = 0

-----------------------------------------------------------------------------
(***************************************************************************)
(* The API server, the informers and the namespace controller.             *)
(***************************************************************************)

IsManaged(o) == o.by # None

\* Does the change of an object wake the PO? IsManagedResource is asked of the
\* object the event carries, the new one of an update.
Wakes(key, old, new) ==
    /\ key.kind \in Watched
    /\ old # new
    /\ IsManaged(IF new = Absent THEN old ELSE new)

\* The objects become new; enqueue says whether the pass asks for another one.
Write(new, enqueue) ==
    /\ obj' = new
    /\ LET events == {key \in Keys : Wakes(key, obj[key], new[key])}
       IN  IF CacheLags
           THEN /\ owed' = owed \cup events
                /\ queue' = (queue \/ enqueue)
                /\ UNCHANGED cache
           ELSE /\ cache' = [key \in CachedKeys |-> new[key]]
                /\ queue' = (queue \/ enqueue \/ events # {})
                /\ UNCHANGED owed

SyncSpec ==
    /\ ~fresh
    /\ specSeen' = spec
    /\ fresh' = TRUE
    /\ queue' = TRUE
    /\ UNCHANGED <<server, cache, owed, pass, edits, faults>>

SyncObject(key) ==
    /\ key \in owed \/ (key \in CachedKeys /\ cache[key] # obj[key])
    /\ cache' = [k \in CachedKeys |-> IF k = key THEN obj[k] ELSE cache[k]]
    /\ owed' = owed \ {key}
    /\ queue' = (queue \/ key \in owed)
    /\ UNCHANGED <<server, specSeen, fresh, pass, edits, faults>>

Resync ==
    /\ ~queue
    /\ queue' = TRUE
    /\ UNCHANGED <<server, views, pass, edits, faults>>

Home(t) == Key("namespace", None, t)

NamespaceTerminated(t) ==
    /\ obj[Home(t)].content = "terminating"
    /\ Write([key \in Keys |-> IF key = Home(t) \/ key.in = t THEN Absent ELSE obj[key]], FALSE)
    /\ UNCHANGED <<spec, status, specSeen, fresh, pass, edits, faults>>

-----------------------------------------------------------------------------
(***************************************************************************)
(* Users.                                                                  *)
(***************************************************************************)

Edit == edits < MaxEdits /\ edits' = edits + 1 /\ UNCHANGED faults

\* A careful user takes an entry out of reconciliation only when its last
\* version is reported as reconciled, and changes nothing else with that.
CarefulEdit(old, new) ==
    new.state # "on" =>
        /\ new = [old EXCEPT !.state = new.state]
        /\ old.state = "on" => status.ready /\ status.observed

EditEntry(t) ==
    /\ \E e \in Entries[t] \ {spec[t]} :
          /\ Careful => CarefulEdit(spec[t], e)
          /\ spec' = [spec EXCEPT ![t] = e]
    /\ status' = [status EXCEPT !.observed = FALSE]
    /\ fresh' = FALSE
    /\ current' = FALSE
    /\ Edit
    /\ UNCHANGED <<obj, specSeen, cache, owed, queue, pc, snap, todo, at, left, failed>>

\* A managed object is deleted or changed by someone else.
Tamper(key) ==
    /\ key.kind \in Tampered
    /\ IsManaged(obj[key])
    /\ \/ key.kind = "namespace" /\ Write([obj EXCEPT ![key].content = "terminating"], FALSE)
       \/ key.kind # "namespace" /\ Write([obj EXCEPT ![key] = Absent], FALSE)
       \/ /\ key.kind \notin {"namespace", "binding"}
          /\ Write([obj EXCEPT ![key].content = "theirs"], FALSE)
    /\ Edit
    /\ UNCHANGED <<spec, status, specSeen, fresh, pass>>

\* Someone else's object, without managed labels.
CreateForeign(key) ==
    /\ key.kind \in Foreign
    /\ obj[key] = Absent
    /\ key.in \in Tenant => obj[Home(key.in)].content = "active"
    /\ Write([obj EXCEPT ![key] = [by |-> None, content |-> "theirs"]], FALSE)
    /\ Edit
    /\ UNCHANGED <<spec, status, specSeen, fresh, pass>>

-----------------------------------------------------------------------------
(***************************************************************************)
(* What an entry asks for, and the calls a pass makes for it.              *)
(***************************************************************************)

On(e) ==
    {"namespace", "policy", "project"}
      \cup (IF e.quota = None THEN {} ELSE {"quota"})
      \cup (IF e.admins THEN {"group", "binding"} ELSE {})
      \cup (IF e.egress THEN {"egress"} ELSE {})

Content(e, k) ==
    CASE k = "namespace" -> "active"
      [] k = "quota"     -> e.quota
      [] k = "binding"   -> e.role
      [] OTHER           -> "ours"

Wanted(t, e) == UNION {KeysOf(t, e, k) : k \in On(e)}

Calls(do, kinds) == {[do |-> do, kind |-> k] : k \in kinds}

\* ReconcileNamespace: everything wanted is applied, then PruneNamespaceResources
\* deletes what is not wanted; policies and projects it lists in any case.
Provision(e) ==
    Calls("apply", On(e))
      \cup Calls("prune", (Kind \ {"namespace"}) \ (On(e) \ {"policy", "project"}))

\* Mutant: the projects are left to the namespace's own deletion.
CleanupKeepsProjects(e) == Calls("delete", Kind \ ({"project"} \cup ({"egress", "group"} \ On(e))))

\* CleanupNamespace: EgressIP and Group only while the entry enables them.
Cleanup(e) == Calls("delete", Kind \ ({"egress", "group"} \ On(e)))

Plan(e) == IF e.state = "on" THEN Provision(e) ELSE Cleanup(e)

\* The order in which the code goes through the kinds, and a call's turn in it.
KindOrder ==
    [apply  |-> <<"namespace", "quota", "policy", "group", "binding", "egress", "project">>,
     prune  |-> <<"quota", "policy", "binding", "group", "egress", "project">>,
     delete |-> <<"policy", "binding", "quota", "egress", "group", "project", "namespace">>]

Turn ==
    [call \in UNION {Calls(do, {KindOrder[do][i] : i \in DOMAIN KindOrder[do]}) :
                       do \in DOMAIN KindOrder} |->
        LET place == CHOOSE i \in DOMAIN KindOrder[call.do] : KindOrder[call.do][i] = call.kind
        IN  IF call.do = "prune" THEN Cardinality(Kind) + place ELSE place]

Seen(key) == IF key.kind \in Cached THEN cache[key] ELSE obj[key]

\* Mutant: a project is listed by the label of its PO alone.
IsProjectOfAny(t, key) == key.kind = "project" /\ IsManaged(obj[key])

\* The AppProjects listed for an entry carry its label as well, in any namespace.
IsProjectOf(t, key) == key.kind = "project" /\ obj[key].by = t

\* Mutant: an object found under our name is ours.
ExistsToDelete(key) == Seen(key) # Absent

\* deleteIfManaged: the object read carries the labels of this PO, for
\* whichever of its entries.
MayDelete(key) == IsManaged(Seen(key))

\* What a prune or a delete finds. Policies are listed in the tenant namespace and
\* projects in all namespaces, to be kept by name; the other kinds are read under
\* the name the entry gives them now.
Doomed(t, e, call) ==
    LET kept == IF call.do = "prune" THEN KeysOf(t, e, call.kind) ELSE {}
    IN  CASE call.kind = "policy" ->
               {key \in Keys : key.kind = "policy" /\ key.in = t /\ MayDelete(key)} \ kept
          [] call.kind = "project" ->
               {key \in Keys : IsProjectOf(t, key) /\ key.name \notin {k.name : k \in kept}}
          [] OTHER -> {key \in KeysOf(t, e, call.kind) : MayDelete(key)}

\* An apply creates what its read did not find, else it patches: the server
\* refuses to create what exists or lives in no active namespace, to patch what
\* does not exist, and to change the roleRef of a binding.
Refused(key, content) ==
    IF Seen(key) = Absent
    THEN obj[key] # Absent \/ (key.in \in Tenant /\ obj[Home(key.in)].content # "active")
    ELSE \/ obj[key] = Absent
         \/ key.kind = "binding" /\ content \notin {Seen(key).content, obj[key].content}

\* Mutant: an object that exists is taken to be as specified.
CreatedOnly(t, key, content) ==
    IF obj[key] = Absent THEN [by |-> t, content |-> content] ELSE [obj[key] EXCEPT !.by = t]

\* A merge patch carries what differs from the copy that was read. The labels set
\* on an existing Group or EgressIP are lost: GetLabels returns a copy.
Applied(t, key, content) ==
    IF obj[key] = Absent THEN [by |-> t, content |-> content]
    ELSE [by      |-> IF key.kind \in {"group", "egress"} \/ Seen(key).by = t
                      THEN obj[key].by ELSE t,
          content |-> IF key.kind = "namespace" \/ Seen(key).content = content
                      THEN obj[key].content ELSE content]

\* The objects a call is about, and those of them whose write the server refuses.
Targets(t, e, call) ==
    IF call.do = "apply" THEN KeysOf(t, e, call.kind) ELSE Doomed(t, e, call)

Refusals(t, e, call) ==
    {key \in Targets(t, e, call) : call.do = "apply" /\ Refused(key, Content(e, call.kind))}

\* The objects after a call has been carried out on the keys in done.
After(t, e, call, done) ==
    [key \in Keys |->
        IF key \notin done THEN obj[key]
        ELSE IF call.do = "apply" THEN Applied(t, key, Content(e, call.kind))
        ELSE IF key = Home(t) /\ obj[key] # Absent
             THEN [obj[key] EXCEPT !.content = "terminating"]
        ELSE Absent]

-----------------------------------------------------------------------------
(***************************************************************************)
(* The pass.                                                               *)
(***************************************************************************)

Finish ==
    /\ pc' = "idle"
    /\ todo' = {}
    /\ at' = None
    /\ left' = {}
    /\ failed' = FALSE
    /\ UNCHANGED <<snap, current>>

\* A worker takes the key, reads the PO from the cache, and lists the managed
\* namespaces of entries marked offboard (PruneRemovedNamespaces).
Start ==
    /\ queue
    /\ pc = "idle"
    /\ queue' = FALSE
    /\ pc' = "prune"
    /\ snap' = specSeen
    /\ current' = fresh
    /\ todo' = {t \in Tenant : specSeen[t].state = "offboard" /\ IsManaged(Seen(Home(t)))}
    /\ UNCHANGED <<server, views, at, left, failed, edits, faults>>

Visit(t) ==
    /\ pc # "idle"
    /\ at = None
    /\ t \in todo
    /\ at' = t
    /\ left' = Plan(snap[t])
    /\ UNCHANGED <<server, views, queue, pc, snap, current, todo, failed, edits, faults>>

\* Mutant: the entry is done and still in work.
LeaveDangling ==
    /\ todo' = todo \ {at}
    /\ left' = {}
    /\ UNCHANGED <<pc, snap, current, at>>

Leave ==
    /\ todo' = todo \ {at}
    /\ at' = None
    /\ left' = {}
    /\ UNCHANGED <<pc, snap, current>>

\* The next call for the entry in work. It fails when the server refuses one of
\* its writes, or for a reason of its own (a fault), possibly after some or all
\* writes took effect; an error skips the rest of the entry, and in the prune
\* stage it ends the pass.
Call ==
    /\ at # None
    /\ \E call \in left :
          LET targets == Targets(at, snap[at], call)
              refused == Refusals(at, snap[at], call)
          IN  /\ \A other \in left : Turn[call] <= Turn[other]
              /\ \E done \in SUBSET (targets \ refused), ok \in BOOLEAN :
                    /\ ok => done = targets
                    /\ IF ok \/ refused # {} THEN UNCHANGED faults
                       ELSE faults < MaxFaults /\ faults' = faults + 1
                    /\ Write(After(at, snap[at], call, done), ~ok /\ pc = "prune")
                    /\ \/ /\ ok /\ left # {call}
                          /\ left' = left \ {call}
                          /\ UNCHANGED <<pc, snap, current, todo, at, failed>>
                       \/ ok /\ left = {call} /\ Leave /\ UNCHANGED failed
                       \/ ~ok /\ pc = "entries" /\ Leave /\ failed' = TRUE
                       \/ ~ok /\ pc = "prune" /\ Finish
    /\ UNCHANGED <<spec, status, specSeen, fresh, edits>>

BeginEntries ==
    /\ pc = "prune"
    /\ todo = {}
    /\ pc' = "entries"
    /\ todo' = {t \in Tenant : snap[t].state \in {"on", "offboard"}}
    /\ UNCHANGED <<server, views, queue, snap, current, at, left, failed, edits, faults>>

\* Mutant: the error of an entry is reported, and not returned.
UpdateStatusOnly ==
    /\ pc = "entries"
    /\ todo = {}
    /\ IF current
       THEN /\ status' = [ready |-> ~failed, observed |-> TRUE]
            /\ fresh' = (fresh /\ status' = status)
       ELSE UNCHANGED <<status, fresh>>
    /\ queue' = (queue \/ ~current)
    /\ Finish
    /\ UNCHANGED <<spec, obj, specSeen, cache, owed, edits, faults>>

\* Status().Update: a conflict or an entry's error brings the key back.
UpdateStatus ==
    /\ pc = "entries"
    /\ todo = {}
    /\ IF current
       THEN /\ status' = [ready |-> ~failed, observed |-> TRUE]
            /\ fresh' = (fresh /\ status' = status)
       ELSE UNCHANGED <<status, fresh>>
    /\ queue' = (queue \/ failed \/ ~current)
    /\ Finish
    /\ UNCHANGED <<spec, obj, specSeen, cache, owed, edits, faults>>

\* Defaults that do not parse, a listing or a status update that fails.
CallFails ==
    /\ pc # "idle" /\ at = None
    /\ faults < MaxFaults
    /\ faults' = faults + 1
    /\ queue' = TRUE
    /\ Finish
    /\ UNCHANGED <<server, views, edits>>

\* A new operator lists everything anew.
Restart ==
    /\ faults < MaxFaults
    /\ faults' = faults + 1
    /\ specSeen' = spec
    /\ fresh' = TRUE
    /\ cache' = [key \in CachedKeys |-> obj[key]]
    /\ owed' = {}
    /\ queue' = TRUE
    /\ Finish
    /\ UNCHANGED <<server, edits>>

-----------------------------------------------------------------------------
Step == (\E t \in Tenant : Visit(t)) \/ Call \/ BeginEntries \/ UpdateStatus

Users ==
    \/ \E t \in Tenant : EditEntry(t)
    \/ \E key \in Keys : Tamper(key) \/ CreateForeign(key)

Next ==
    \/ Users
    \/ SyncSpec
    \/ \E key \in Keys : SyncObject(key)
    \/ Resync
    \/ \E t \in Tenant : NamespaceTerminated(t)
    \/ Start \/ Step \/ CallFails
    \/ Restart

Spec == Init /\ [][Next]_vars

\* Informers deliver and resync (a timer of theirs), terminating namespaces end,
\* a queued key gets a worker, a started pass goes on.
FairSpec ==
    /\ Spec
    /\ WF_vars(SyncSpec) /\ WF_vars(Resync) /\ WF_vars(Start) /\ WF_vars(Step)
    /\ \A key \in Keys : WF_vars(SyncObject(key))
    /\ \A t \in Tenant : WF_vars(NamespaceTerminated(t))
-----------------------------------------------------------------------------
\* Types, and the shape of a pass: an entry in work has calls left to make, all
\* of them of the plan its state calls for.
TypeOK ==
    /\ {spec, specSeen, snap} \subseteq Specs
    /\ status \in [ready : BOOLEAN, observed : BOOLEAN]
    /\ obj \in [Keys -> Object]
    /\ cache \in [CachedKeys -> Object]
    /\ owed \subseteq {key \in Keys : key.kind \in Watched}
    /\ {fresh, queue, current, failed} \subseteq BOOLEAN
    /\ pc \in {"idle", "prune", "entries"}
    /\ todo \subseteq Tenant
    /\ pc = "idle" => todo = {} /\ ~failed
    /\ IF at = None THEN left = {}
       ELSE /\ at \in todo /\ left # {} /\ left \subseteq Plan(snap[at])
            /\ \A made \in Plan(snap[at]) \ left, call \in left : Turn[made] <= Turn[call]
    /\ edits \in 0 .. MaxEdits
    /\ faults \in 0 .. MaxFaults

\* When nothing is left to do or to come, a tenant is exactly as its entry says:
\* an active one has what it wants, with the specified contents, and nothing else
\* carries its labels; of an offboarded one nothing does. No interleaving of
\* edits, tampering, late events and partial failures loses the wake-up that
\* would repair the rest (managed_watch.go, appproject_watch.go, prune.go).
Quiet == ~queue /\ pc = "idle" /\ fresh /\ owed = {}

Terminating(t) == obj[Home(t)].content = "terminating"

Exact(t) ==
    LET e == spec[t]
    IN  CASE e.state = "on" ->
               \/ Terminating(t)
               \/ /\ \A k \in On(e) : \A key \in KeysOf(t, e, k) :
                        obj[key].content = Content(e, k)
                  /\ \A key \in Keys : obj[key].by = t => key \in Wanted(t, e)
          [] e.state = "offboard" ->
               \A key \in Keys : obj[key].by = t =>
                   Terminating(t) /\ (key = Home(t) \/ key.in = t)
          [] OTHER -> TRUE

QuietMeansExact == Quiet => \A t \in Tenant : Exact(t)

\* The objects outside its namespace that the cleanup of entry e of a tenant looks
\* for: projects by their labels, a Group and an EgressIP by the name the entry
\* gives them and while it enables them.
Outside == {"group", "egress", "project"}
Flagged == {"group", "egress"}

Remains(t, e) ==
    {key \in Keys :
        /\ obj[key].by = t
        /\ \/ key.kind = "project"
           \/ \E k \in Flagged \cap On(e) : key \in KeysOf(t, e, k)}

\* What the status promises about an offboarded entry: once the PO is Ready for a
\* spec that offboards a tenant, what that version names outside its namespace is
\* gone, however the entry was edited before and whatever was adopted, tampered
\* with or failed on the way (cleanup.go). Nothing else would ever delete it.
OffboardedMeansRemoved ==
    status.ready /\ status.observed =>
        \A t \in Tenant : spec[t].state = "offboard" => Remains(t, spec[t]) = {}

\* What the guide says of offboard: the operator removes the Groups, EgressIPs and
\* AppProjects it manages, whatever the entry names and enables by then. It does not
\* hold of an edit that disables and offboards at once.
OffboardedLeavesNothing ==
    status.ready /\ status.observed =>
        \A t \in Tenant : spec[t].state = "offboard" =>
            \A key \in Keys : key.kind \in Outside => obj[key].by # t

\* The same for what the operator has taken over: the Group and the EgressIP whose
\* content it has written do not outlive the entry. Those that existed before do.
OffboardedGivesUpNames ==
    status.ready /\ status.observed =>
        \A t \in Tenant, k \in Flagged : spec[t].state = "offboard" =>
            \A key \in KeysOf(t, spec[t], k) : obj[key].content # "ours"

\* Entries do not disturb each other: work on one entry never deletes what
\* another, active entry of the same version of the spec wants (prune.go,
\* cleanup.go, argocd.go: what tells the objects of two entries apart).
EntriesIndependent ==
    [][\A a, b \in Tenant :
          (at = a /\ a # b /\ snap[b].state = "on" /\ edits' = edits) =>
              \A key \in Wanted(b, snap[b]) :
                  obj[key] # Absent /\ obj'[key] = Absent =>
                      Terminating(b) /\ (key = Home(b) \/ key.in = b)]_vars

\* What nobody labelled as managed is deleted with its namespace, or by a pass that
\* read a managed object of that name from an informer which the loss of that
\* object has not reached; in no other case, and no Group, EgressIP or AppProject
\* at all, as those are read live (cleanup.go, deleteIfManaged).
ForeignUntouched ==
    [][\A key \in Keys :
          obj[key] # Absent /\ ~IsManaged(obj[key]) /\ obj'[key] = Absent =>
              \/ key.in \in Tenant /\ Terminating(key.in)
              \/ key \in owed /\ key.kind \in Cached /\ IsManaged(Seen(key))]_vars

\* What prune.go and cleanup.go say of themselves: they remove managed objects, and
\* what was previously created for the entry. A lagging cache may show a managed object
\* where there is another one by now.
ForeignNeverDeleted ==
    [][\A key \in Keys :
          obj[key] # Absent /\ ~IsManaged(obj[key]) /\ obj'[key] = Absent =>
              key.in \in Tenant /\ Terminating(key.in)]_vars

\* The tenants come to be as specified again and again, whatever finitely many
\* edits, acts of tampering and faults there are.
Converges == \A t \in Tenant : []<>Exact(t)
=============================================================================
