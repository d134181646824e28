# A verification project for project-onboarding-operator

The operator is a Kubernetes controller (Go, controller-runtime) that turns a
cluster-scoped `ProjectOnboarding` object (PO) into tenant namespaces with quotas,
network policies, admin groups, egress IPs and Argo CD projects, and a catalogue
of `TShirtSize` objects into quota presets. This directory models its core in
TLA+, checks the models with TLC and proves theorems about them with TLAPS.

## 1. Inventory

| Component | State | Operations | What makes it correct |
|---|---|---|---|
| PO controller (`internal/controller/projectonboarding_controller.go`, `internal/onboarding/{reconcile,deletion,pause,errors}.go`) | PO spec, finalizer, status (API server); informer caches; workqueue and timers; locals of a pass | `Reconcile`: finalizer, prune of offboarded entries, loop over entries, status; on deletion `FinalizeProjectOnboardingDeletion` | a running tenant namespace goes down only with consent; the PO is not gone before its tenants; no wake-up is lost; a deletion nothing blocks completes |
| Provisioning of an entry (`reconcile*.go`, `argocd.go`, `owners.go`, `helpers.go`) | Namespace, ResourceQuota, LimitRange, NetworkPolicies, RoleBinding, Group, EgressIP, AppProjects | create or merge-patch each, then prune | in the end the tenant is exactly what its entry says |
| Offboarding and cleanup (`cleanup.go`, `prune.go`) | the same objects | list or get, label check, delete | nothing wanted and nothing foreign is deleted, nothing is left behind |
| Watches (`managed_watch.go`, `appproject_watch.go`, `tshirt_watch.go`, `tshirtsize_watch.go`) | events on their way | map an event to the keys to reconcile | see "no wake-up is lost" |
| TShirtSize controller and webhooks (`tshirtsize_controller.go`, `internal/validation`, `internal/webhook`) | sizes, `status.referencedBy` | admission of PO and size requests, counting references | no dangling reference; counts and quotas follow the latest versions |
| T-shirt size merge (`tshirt_merge.go`) | none | resolve an entry with its size and inline overrides | the documented table, field by field |
| Quantities (`internal/validation/quantity.go`, `reconcile_quota.go`) | none | normalise, validate, parse | what admission accepts must not make `MustParse` panic |
| Cluster defaults, GitOps resolution (`defaults.go`, `argocd.go`) | a ConfigMap that is not watched; AppProjects | load, merge, resolve, write, prune | a changed default arrives in the end; an enabled project has an Argo CD namespace |
| Namespace labels (`namespace_settings.go`, `monitoring.go`) | labels | overlay labels from five sources | settings of the entry win over free labels; the operator's own labels survive |
| Metrics (`metrics.go`) | a gauge per PO, in memory | set after a status update, delete after the finalizer | agrees with the spec at rest, is gone with its PO |
| Events, `cmd/main.go`, generated code, manifests | | | no protocol of their own |

How they interact: the passes of one PO are serial, those of different POs run on
two workers (`MaxConcurrentReconciles: 2`). All reads of typed kinds go through
informer caches, which lag behind the API server and behind each other; reads of
unstructured kinds (Group, EgressIP, AppProject) are live. A write is a create, a
merge patch without resourceVersion (children), or an update with one (the PO and
its status, so a stale copy conflicts). Watches map child events to the PO named in
the labels. Everything is replayed every 5 minutes. Users, the garbage collector
and the namespace controller act between any two calls.

The hard parts, listed at their lines in `PROJECT.json` under `hazards`: stale
caches, reads and deletes that are two calls, several POs or entries with the same
names, half-done passes, lost answers, restarts, the order of edits, wake-ups that
could be lost, and an admission check that races the request it should exclude.

## 2. Modules

| Module | Models |
|---|---|
| `TenantCustody` | abstract: a PO takes custody of namespaces while its books are open, what was noticed stays noticed as long as the custody lasts, and the books close on nothing that was noticed |
| `TenantLifecycle` | the whole pass of `Reconcile` as far as PO and tenant namespaces go, any number of POs, namespaces and workers; implements `TenantCustody` |
| `TenantLifecycleProofs`, `TenantCustodyProofs`, `TenantWakeUps` | theorems about it: types and finalizer; custody; wake-ups |
| `TenantResources`, `TenantResourcesProofs` | the calls of a pass inside the tenants of one PO, for every kind of object; theorems |
| `TenantFootprint`, `TenantFootprintProofs` | what passes leave outside the tenants, composed with `TenantLifecycle`: the gauge, Groups and EgressIPs; theorems |
| `TShirtCatalogue`, `TShirtCatalogueProofs`, `TShirtCatalogueWakeUps` | sizes, references, both webhooks, the TShirtSize controller and the part of a PO pass that reads a size; theorems |
| `TenantSizing` | pure: quantities, admission of sizing, the merge, what becomes of it in a quota and a limit range |
| `TenantGitOps` | pure: defaults, precedence of GitOps settings, AppProjects, labels |
| `TenantContent`, `TenantContentProofs` | one tenant: passes that put the results of both into objects while entry, size and ConfigMap change; theorems |
| `MCTenantFootprint`, `MCTenantLifecycle`, `MCTenantResources`, `MCTShirtCatalogue`, `MCTenantContent` | small instances for TLC |

Operators whose comment begins with "Mutant" are deliberate bugs; no specification
uses them. `PROJECT.json` pairs each with the property that must find it.

### TenantLifecycle

`po`, `status`, `ns` are the API server; `poCache`, `nsCache` the informer caches,
`owed` the wake-ups that namespace events still on their way will cause; `queue`
and `delayed` the workqueue and its timers; the rest are the locals of each PO's
pass. `pc` names the stage: `ensure` (EnsureFinalizer) → `list`, `prune`
(PruneRemovedNamespaces) → `entries` (loop and status update), or for a deleted PO
`finalize` (finalizeNamespaceEntry per entry) → `settle` (remove the finalizer or
report DeletionBlocked). Each API call with an effect is an action of its own, so
other actors come between a read and the write that follows it
(`ReadOffboarded`/`DeleteOffboarded`, `ReadTenant`/`WriteTenant`).

Abstractions. A resourceVersion is only asked whether a copy is current
(`poFresh`, `current`). A spec entry is one of five kinds. The two managed labels
are one value, `label`, None when either is missing. A cache holds one version per object and jumps to the latest; `owed` keeps the wake-ups of the versions skipped.
What an informer shows is thus an old version or the current one, never one in between.
Entries are visited in any order. Children of a namespace are calls that may fail.
A PO that is gone is not created again, and users do not relabel namespaces.
`RemoveFinalizer` returns early when the finalizer is missing, which a deleted PO
never shows. What `cleanupClusterScopedForReleasedTenants` removes is
`TenantFootprint`'s.

### TenantFootprint

Two variables beside those of `TenantLifecycle`: `gauge`, the series of each PO in
the operator's memory, and `shared`, which tenants have cluster-scoped objects. Each
step is a step of `TenantLifecycle` together with its effect outside (`Outside`), or
one without (`Inside`). A lost answer keeps the gauge from
being set or deleted (`Answered`), a restart empties it, and a failed call may have
got as far as the objects of one entry (`PartlyRemoved`).

Abstractions. Group, EgressIP and AppProjects of a tenant come and go together and
are enabled in every entry; `TenantResources` has them apart, and the entries that
switch them off. The garbage collector's work for a PO that is gone is left out here: no
property looks at what such a PO owned. Names are the defaults, as a release by name alone (an entry made up
of a name, `deletion.go:179`) assumes.

### TenantResources

One PO with entries; `obj` maps a key (kind, place, name) to the entry whose
managed labels it carries and its content. `Provision` and `Cleanup` are the
calls `ReconcileNamespace` and `CleanupNamespace` make and `Turn` the order in which
they make them (`KindOrder`); `left` holds those still to make, and `Call` performs
the next one, reading through the cache or live (`Seen`), with the writes the
server refuses (`Refused`: already exists, namespace not active, not found,
immutable roleRef), partial effects and lost answers. An error skips the rest of
the entry, or ends the pass in the prune stage, as in the code.

Abstractions. ResourceQuota and LimitRange run through the same code and are one
kind. The read and the writes of one call are one step: for cached kinds the lag of
the cache covers what happens in between, for live reads the gap is not modelled. Objects
have no identity beside their key: that a name was given up and taken again shows in the
labels. The list of `PruneRemovedNamespaces` is made when the pass starts. An entry is
already resolved (size and defaults); its content is a value per kind. Backoff is
"back in the queue". Pausing and deletion are TenantLifecycle's.

`Careful` describes a way to use the API: an entry leaves reconciliation only after its
last version was reported Ready, with nothing else changed in that edit. Only
`QuietMeansExact` and `Converges` are stated of it (`Resources_Lag`), where no entry
changes the name of its Group either; section 3 lists what happens otherwise. The other properties of this module hold in any use.

### TShirtCatalogue

POs with one reference each, sizes with a content, the two caches, admission
requests in flight (`Found`, `Count` look, `Store` happens later), the TShirtSize
pass that counts, and the PO pass that resolves and applies a size. `MaxReviews` bounds
the requests looked at and not yet stored: from two on they overlap. Versions of a size
are told apart by their content. The operator's own updates change no reference, so their admission and storage is one step. Stored
sizes always have values, because `ValidateTShirtSize` requires it (`HasSizing` in
`TenantSizing`).

### TenantSizing, TenantGitOps, TenantContent

A quantity is a class of strings (`body`), whether blanks surround it, and a number;
all amounts are of one scale. A block of optional fields is a function from field
names, so one operator, `MergeFields`, stands for the field-by-field code of
`tshirt_merge.go`, `mergeGitOpsDefaults` and the label loops. `Valid...` is
admission, `Hard` and `Items` what `reconcile_quota.go` builds, `QuotaPanics` and
`LimitsPanic` where it calls `MustParse` on what does not parse, and `HardRefused`
and `ItemsRefused` what the API server refuses (negative counts, minimum above maximum,
an empty claim range).

`TenantContent` runs these in a pass, in the code's order: load the ConfigMap, read the
size, write labels, quota, limit range, AppProjects, prune. `obj` and `seen` are the
namespace labels, the quota and the limit range, stored and cached; a write is a merge
patch against the cached copy (`Merged`), so it may mix two versions, or be refused
because the object is (not) there (`Misled`). Sizes and POs are read in their latest
version; their own caches are `TShirtCatalogue`'s and `TenantLifecycle`'s.

Abstractions. One entry and one role per AppProject; the prune of projects is one
step; values of labels and lists are model values. spec.labels or additionalLabels
may name every label, the operator's included.

## 3. Runs

All bounds are constants: `MaxEdits` (edits by users), `MaxFaults` (failed calls,
lost answers, restarts). `CHECK_DEADLOCK FALSE` stands where the model really may
stop: every PO is gone and the edits are used up.

| Run | Question | Result |
|---|---|---|
| `Lifecycle_Custody` | one PO, two namespaces, up-to-date namespace reads: types, custody, consent, refinement of `TenantCustody`; gauge and cluster-scoped objects follow | holds |
| `Lifecycle_Lag` | lagging namespace informer, one fault: nothing is provisioned without the finalizer, a deletion keeps sight of every tenant it was shown, `TenantCustody` is implemented, no wake-up is lost, deletions complete, specs are carried out | holds |
| `Lifecycle_Shared` | two POs that list one name, two workers: labels and owner never part, who takes a tenant down had read it as its own, who takes it over had read it without an owner, no wake-up is lost | holds |
| `Lifecycle_StaleNamespaces` | does the finalizer outlive running tenants under lag? | refuted |
| `Lifecycle_TwoWorkers` | is a tenant spared until its own entry is offboarded, with two POs on one name? | refuted |
| `Resources_Entries` | two entries, any edits, a quota and a Group of somebody else's: Ready + offboarded means that what this version names is gone; entries independent; what is foreign is spared | holds |
| `Resources_Lag` | lag, tampering with watched kinds, partial failure: quiet means exact, and it becomes quiet | holds |
| `Resources_RoleChange` | does a changed clusterRole arrive? | refuted |
| `Catalogue_Lag` | two overlapping requests, two lagging caches, a fault: a reference the webhooks know of holds its size, only a missing size keeps a deleted PO, counts and quotas follow | holds |
| `Catalogue_Stuck` | does the deletion of a PO always go through? | refuted |
| `Content_Lag` | edits of entry, size and ConfigMap during passes, lag, a lost answer: merged as documented, no panic on tidy strings, exact at rest, settled in the end | holds |
| `Content_Careless` | does an admitted entry with blank or padded quantities pass without a panic? | refuted |

Each refuted run is a finding in `PROJECT.json`, with the sentence of the docs or
comments it contradicts. All are races and edit sequences of ordinary operation. With
most comes the statement that does hold in the same situation:

* `GoneMeansReleased` fails under lag; `KnownMeansReleased` says which tenants are safe:
  those the informer shows as they are when the finalizing begins (nothing changes
  `nsCache[n] = ns[n]` but a write to that namespace and its event).
* `TornDownOnlyWithConsent` fails with two workers: a namespace read before it changed
  hands is deleted by name afterwards (`cleanup.go:193`). `TornDownOnlyOnOrder` is what
  is left of it: the pass that deletes holds a copy labelled as its own PO's and an
  offboarded entry for it.
* Of two passes that read a namespace without an owner the later patch takes it from the
  earlier (`reconcile.go:160`), so a namespace can change hands. `TakenOverOnlyUnseen`
  says that this is the only way: whoever reads it with an owner does not take it.
  `LabelsFollowOwners` says that labels and owner change hands together.
* `DeletionGoesThrough` fails when requests overlap; `KnownReferenceHolds` and
  `OnlyMissingSizeBlocks` say what the two webhooks still give.

More statements that do not hold. None has a run; TLC finds each violated when the run
named here is given the statement alone and the constants in brackets:

* `LabelsFollowOwners`, in `Lifecycle_Shared` (`Kinds <- AllKinds`): labels of the spec are
  copied over the managed ones (`reconcile.go:104`, `namespace_settings.go:39`), although
  `projectonboarding_types.go:198` lets the operator's win.
* `NoDanglingReference`, in `Catalogue_Stuck`: a PO that refers to a size and the deletion of
  the size are admitted side by side (`validate.go:106`); `docs/ARCHITECTURE.md:51` says that
  the deletion is blocked while referenced.
* `OffboardedLeavesNothing`, in `Resources_Entries` (`Tenant = {t1}`, `Entries <- Hasty`): one
  edit disables Group and EgressIP and offboards the entry; the PO becomes Ready and both stay
  (`cleanup.go:54`, against `docs/guide.md:173`). `OffboardedMeansRemoved` is what Ready does
  tell: nothing managed is left under the names and flags of the version that offboards.
* `OffboardedGivesUpNames`, in `Resources_Entries` (`Tenant = {t1}`, `Entries <- Steady`): a
  Group that was there before is never recognised as managed and outlives the entry
  (`reconcile_openshift.go:70`).
* `ForeignNeverDeleted`, in `Resources_Lag` (`Entries <- QuotaOnly`, `Careful = FALSE`,
  `Tampered = {"quota"}`, `Foreign = {"quota"}`, `MaxEdits = 4`): a quota that somebody created
  in place of the managed one is deleted on the word of a stale copy (`cleanup.go:141`).
  `ForeignUntouched` has that one exception, and holds there.
* `QuietMeansExact`, in `Resources_Lag` (`Entries <- Renamed`): after a change of groupName the
  old Group and RoleBinding stay (`prune.go:104`, against `prune.go:75`).
* `QuietMeansExact`, in `Resources_Lag` (`Entries <- Steady`, `Tampered = {"group"}`): nobody
  watches Groups and EgressIPs, so their drift stays (`projectonboarding_controller.go:229`);
  `docs/api-design.md:39` promises drift correction.
* `EntriesIndependent`, in `Resources_Entries` (`Entries <- SharedGroup`): of two entries that name
  one Group, offboarding the first deletes the Group of the second (`cleanup.go:94`, against
  `docs/guide.md:134`).
* `AdmittedHaveHome`, in `Content_Lag`: a listed project needs an Argo CD namespace even when it
  is disabled (`argocd.go:42`, against `docs/cluster-defaults.md:82`), which admission does not
  ask for.

And some of which the documents promise nothing, or which is outside the statements:

* A lost answer to the removal of the finalizer leaves the gauge of a PO that is
  gone until the next restart (`metrics.go:83`): drop `faults > 0` from `GaugeOwned`.
* Admission does not know the ConfigMap: an entry whose Argo CD namespace is only
  there is rejected, although `docs/cluster-defaults.md:11` and `:82` name it as the
  fallback (`validate.go:72`).
* A project stays in the Argo CD namespace its entry has left, as the prune keeps
  projects by name (`argocd.go:290`); a label the entry no longer asks for stays on the
  namespace (`reconcile.go:148`). `Exact` in `TenantContent` does not ask for it.
* Terminating namespaces: the guide (`docs/guide.md:705`) wants the finalizer to
  outlive the tenant namespaces; it goes while they are terminating
  (`deletion.go:112`). `GoneMeansReleased` asks about running namespaces only.

Why the bounds are enough. The protocols relate at most two POs to one namespace,
and one PO to a listed and an unlisted namespace, so two of each show every
relation. Two or three edits make the sequences that matter (provision, change,
delete); the counterexamples found need no more than four. One fault puts a
lost answer or restart at every point of a pass. Where two POs share a name, two edits
beside their creation let a user make the namespace both adopt and one of them change its
mind. `Lifecycle_Shared` has them, with the informers in step and both POs listing the name
(`ListedByAll`); `Lifecycle_TwoWorkers`, under the same bounds, shows that a namespace does
change hands there and is deleted. Lag, faults and any number of POs, names and workers at
once are in the theorems.
`Catalogue_Lag` has one PO and one size: requests of other POs are like more edits of the
same one where a size is counted, two requests are enough to overlap, and the theorems have
any number. `Resources_Entries` reads live and any edit goes; `Resources_Lag` has the lagging
caches.
`Content_Lag` has few values, each chosen to meet a
rule (`MCTenantContent` says which); its two upsets are two edits, or an edit and a
failure, at any points of the first passes, which the kinds of mixture it looks for need. POs and namespaces
are interchangeable, hence symmetry, which is used only in runs without
liveness properties.

Fairness. Informers deliver and resync, timers fire, terminating namespaces end and
the garbage collector runs: weak fairness, these are services that do not stop. A
started pass goes on: weak fairness on its steps. `Start(p)` gets strong fairness in
`TenantLifecycle`, because with all workers busy it is disabled again and again, and
the workqueue is first-in first-out, so a key waits for a bounded number of
others. In `TShirtCatalogue` a request under review is answered in the end, as the API
server does not keep requests. Users are owed nothing. The resync is fair only in `TenantResources` and
`TenantContent`, where convergence of kinds nobody watches, and of the ConfigMap,
depends on it (`syncPeriod` in `cmd/main.go`). `Settles` says nothing of a tenant whose
stored wishes cannot be carried out (`Blocked`): a broken ConfigMap, a quantity that
panics, an object the API server refuses, a list of projects without a namespace.
Faults and edits are bounded, so liveness says "once they end".

## 4. Proofs

Constants are arbitrary under `ConstantsAssumption` (TenantLifecycle): any sets of
POs and namespaces, any claims, any number of workers, edits and faults.

* `TypeCorrect`: `Spec => []TypeOK`. `PassOK` is part of it and makes it inductive:
  an entry in work belongs to the loop that still has it to do.
* `FinalizerRemembered`: `Spec => []FinalizerNotForgotten`. The invariant is
  inductive with TypeOK. The argument: only a pass that read the PO as deleted
  removes the finalizer; a cache that has shown the deletion does not go back; so no
  copy that shows a live PO with the finalizer is wrong about it.
* `ProvisioningUnderFinalizer`: `Spec => TakenUnderFinalizer`, from the above: the
  only step that sets an owner is `WriteTenant`, in a stage where the PO still has the
  finalizer. These three need no assumption on informers or claims.
* `NoWakeUpLost` (`TenantWakeUps`): `PlainLabels => (Spec => []QuietMeansSettled)`, with
  any lag, overlap of claims, number of workers, faults and restarts. `PlainLabels` is
  the absence of the kind `override`: with it an event may carry labels the mapper does
  not know. `WakeInv` has three parts: label and owner of a namespace are set together,
  in the server, the cache and what a pass holds (`HandsInv`); a PO that is owed no event
  of a namespace sees it as it is if it is labelled as the PO's on either side
  (`ToldInv`); and a pass since whose start nothing has happened that would start another
  one (`Undisturbed`) works on what is stored and leaves behind what the spec asks for,
  entry by entry (`SettlingInv`).

`TenantCustodyProofs` builds on `HandsInv` and on `PlainLabels`, with any lag, overlap of
claims, workers and faults; section 3 says what becomes of `LabelsFollowOwners` without the
assumption.

* `LabelsAgree`: `PlainLabels => (Spec => []LabelsFollowOwners)`. A patch sets both or, where
  the copy it is made from has them already, neither; the copy has them together.
* `TornDownOnOrder`: `Spec => TornDownOnlyOnOrder`, with no assumption. What a pass has in
  hand in a stage that deletes was read as its PO's (`OrdersHold`).
* `TakenOverInARace`: `Spec => TakenOverOnlyUnseen`, with no assumption. What a pass has in
  hand to provision was read with no owner or its own (`FreeInv`), and a patch of a copy
  that has the owner leaves the owner alone.
* `KnownTenantsAreReleased`: `PlainLabels => (Spec => KnownMeansReleased)`. A tenant in view
  (`InView`) stays in view: in the cache until it is written, and in a pass as a
  name still to visit, on the pending list, or to be found by the scan for orphans.
* `LifecycleImplementsCustody`: `PlainLabels => (Spec => ImplementsCustody)`. The mapping
  keeps the books open while the finalizer is there and notices what is in view; initial
  states and every step map to a step or stutter of `TenantCustody`. `CustodyInv`, checked
  by `Lifecycle_Custody`, is the picture without lag and with one PO.

TenantFootprint, under the same assumption on constants and finitely many namespaces
(`NamesAssumption`: the gauge counts them):

* `LayerImplements`: `FootprintSpec => Spec`. Every theorem above holds of the composition.
* `SeriesAreOwned`: `FootprintSpec => []GaugeOwned`. A pass that sets the gauge is
  answered, so its copy of the PO was current, and it shows the finalizer.
* `RunningTenantsKeepTheirs`: `PlainLabels => (FootprintSpec => TenantsKeepTheirs)`.
  Each removal is for a name whose namespace the pass found absent or not managed, or
  whose entry is offboarded; for a namespace that the informer shows as it is, that is no
  running tenant. A stale read is the exception, and the property says so.
* `FootprintTypeCorrect`: `FootprintSpec => []FootprintTypeOK`.
* `QuietBooks`: `PlainLabels => (FootprintSpec => []QuietMeansAccounted)`. `AccountInv` stands
  on `WakeInv`: an undisturbed pass has booked the entries it has done, and nothing but
  a pass of the PO itself touches its books while it is live.

TShirtCatalogue, for any finite set of POs, any sizes, edits and faults
(`CatalogueAssumption`):

* `TypeCorrect`: `Spec => []TypeOK`, with any number of overlapping reviews.
* `KnownReferencesHold`: `Spec => KnownReferenceHolds`, with any overlap and any lag. A
  deletion of the size can only be admitted by a count that finds no reference, and the
  cache it counts in shows the one there is until the reference is dropped.
* `CountsFollow`: `Spec => []QuietMeansCounted`, with any lag and overlap. As long as the
  key of a size is not queued, a pass has counted what the PO cache shows, and an idle
  size says so in its status if its cached copy is the stored one (`CountedInv`). `VersionsInv`: a
  stored size is never again what a cache or another request knows under an older
  version, so a status update made on a stale copy cannot go through.
* `SizingsFollow`: `Spec => []QuietMeansApplied`. `SizedInv` says the same of a PO whose key
  is not queued: its pass took PO and size for what their caches show, so either of them
  catching up queues it again.

TenantContent, for any entries, sizes, ConfigMaps, projects and bounds
(`SizingAssumption`, `GitOpsAssumption`, `ContentAssumption`: Unset is no value, and
users write what has the right type):

* `TypeCorrect`: `Spec => []TypeOK`.
* `TidyIsSafe`: `Spec => []TidyNeverPanics`. Each quantity of a merged block is one of the
  entry's or one of the size's, which were admitted; an admitted tidy quantity parses.
* `EnabledHaveHome`: `Spec => []ProjectsHaveHome`. A merge with the defaults never drops
  the namespace admission saw.
* `MergeIsDocumented`: `Spec => []MergedAsDocumented`, if no storage class key is the name
  of another resource: such a key overwrites it in the quota.
* `QuietIsExact`: `Spec => []QuietMeansExact`. The strengthening `QuietInv` follows a pass
  nobody has disturbed (nothing queued, not failed): what it holds is what is stored,
  and each object it has passed is as wanted, provided its cached copy agrees with it. A
  patch made against a stale copy is either still in disagreement with that copy, or an event
  has reached the cache and queued the PO.

TenantResources, for any entries, names, contents, edits, tampering and faults
(`ResourcesAssumption`: None is no name, and the marks for what an object contains are
not contents of quotas and bindings):

* `ResourcesTypeCorrect`: `Spec => []TypeOK`.
* `ForeignSpared`: `Spec => ForeignUntouched`, with no assumption. A delete is guarded by
  labels the pass has read (`MayDelete`); if the object has none, the copy is out of date,
  and then the informer has an event to deliver (`Shown`).
* `EntriesApart`: `NamesApart => (Spec => EntriesIndependent)`. `NamesApart`: the versions of
  two entries name no object in common, and no Argo CD namespace is a tenant. The
  invariant is `Labelled`: an object carries the labels of an entry that names it.
  A Group that two entries name shows that the assumption is needed (section 3). The proof also showed that
  a namespace that ends takes nothing of another entry along, which the property now says.
* `OffboardedAreRemoved`: `Spec => []OffboardedMeansRemoved`, with no assumption. The
  invariant `RemovedInv` follows a pass call by call (no object is left of the kinds whose
  call was made), entry by entry and into the status, and `VersionsKnown` says which copies
  of the spec are the current one: Ready is written only on the version that was carried out.
  It needs that the kinds outside the namespace are read live, and that only the work on
  an active version makes an object the entry's (`RemainsShrink`).
* `QuietIsExact`: `QuietUse => (Spec => []QuietMeansExact)`, with any lag. `CarefulUse`:
  edits are careful, names are apart, the versions of an entry agree on the name of its
  Group; then an entry out of reconciliation has, of what flags enable, only what every
  copy of it still flags (`Parked`), and a pass settles it (`CarefulInv`). `QuietUse` adds that an entry stays in its Argo CD namespace and that only
  watched kinds are tampered with; a changed role or a refused write is not excluded,
  as then the pass never ends well. `Shown`: an informer with no event to deliver shows
  a labelled object as it is. `Settling`: an undisturbed pass has brought about
  what each call made is for (`Carried`). The point of the proof is that a pass which
  changes anything watched is disturbed by its own event, so the last pass was one that
  found everything in place, but for Groups and EgressIPs, which it read live.
  The project left in another Argo CD namespace and the drift of a Group show that the
  additions are needed; an edit that disables and offboards, and a changed groupName, that
  those of `CarefulUse` are (section 3).

The invariants, action properties and the refinement that passing runs check are stated by
a theorem, but for three: `GoneMeansReleased`, `CustodyInv` and `TornDownOnlyWithConsent`
hold in the setting of `Lifecycle_Custody` (one PO, namespace reads up to date) and are
refuted outside it, so they stay with TLC; their general forms above are proved. Each
strengthening was first checked by TLC on the instance of a run.

Only model-checked besides: liveness (`DeletionCompletes`, `SpecCarriedOut`,
`Converges`, `Settles`, `OnlyMissingSizeBlocks`), as TLAPS does not
handle ENABLED and fairness, and the statements that are refuted. What remains assumed is
`PlainLabels`, `NamesApart` and `QuietUse`; section 3 shows that each is needed.

## 5. Not modelled

* Casbin policies of AppProject roles (`buildRolePolicies`), the rules inside network
  policies, descriptions and messages: strings put together from fields, which no later
  step reads. `TenantResources` has one value for each such object.
* Error counters, events, flags, TLS, probes, leader election: no state a pass reads.
* CRD schema and CEL rules, generated code, manifests, end-to-end tests.
* The identity of an object over time (UID): an object that is deleted and recreated is told
  apart by its labels and content only.
