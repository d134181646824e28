---------------------------- MODULE TenantContent ----------------------------
(***************************************************************************)
(* What a pass puts into one tenant: the labels of its namespace, its      *)
(* quota, limit range and AppProjects, from its entry, a T-shirt size and  *)
(* the defaults ConfigMap, each of which users may edit at any time.       *)
(*                                                                         *)
(* Objects are patched field by field against a cached copy that lags      *)
(* (AppProjects are read from the API server).  Requests are judged and    *)
(* stored one at a time (TShirtCatalogue has them overlap), and sizes are  *)
(* not deleted here.                                                       *)
(***************************************************************************)
EXTENDS TenantGitOps

CONSTANTS Entries, SizeSpecs, DefaultsVersions,   \* what users may write
          MaxUpsets   \* bound: edits and failures

VARIABLES
    entry, sizes, defaults,       \* stored by users
    obj, seen,                    \* labels, quota and limit range; their cached copies
    projects,                     \* the AppProjects
    queued,                       \* is the PO in the workqueue, or waiting to be retried?
    pc, pass,                     \* the running pass and what it has read
    outcome,                      \* how the last one ended
    upsets

wishes == <<entry, sizes, defaults>>
vars == <<wishes, obj, seen, projects, queued, pc, pass, outcome, upsets>>

NoDefaults == [state |-> "absent", gitops |-> Unset]

ASSUME ContentAssumption ==
    /\ Entries \subseteq Entry
    /\ SizeSpecs \subseteq SizeSpec
    /\ NoDefaults \in DefaultsVersions /\ DefaultsVersions \subseteq Defaults
    /\ MaxUpsets \in Nat

Upset == upsets < MaxUpsets /\ upsets' = upsets + 1

Stages == {"idle", "load", "resolve", "labels", "quota", "limits", "projects",
           "pruneQuota", "pruneLimits", "pruneProjects"}

NoSize == [quota |-> Unset, limits |-> Unset]
Nothing == [labels |-> Unset, quota |-> Unset, limits |-> Unset]

\* ValidateTShirtSize and ValidateProjectOnboarding.
AdmitSize(t) == HasSizing(t) /\ ValidSizing(t)
AdmitEntry(e) == ValidGitOps(e) /\ ValidSizing(e) /\ (e.size # Unset => HasSizing(sizes[e.size]))

Init ==
    /\ sizes \in [SizeNames -> {t \in SizeSpecs : AdmitSize(t)}]
    /\ entry \in {e \in Entries : AdmitEntry(e)}
    /\ defaults = NoDefaults
    /\ obj = Nothing /\ seen = Nothing
    /\ projects = [a \in ArgoNamespaces \X Projects |-> Unset]
    /\ queued = TRUE
    /\ pc = "idle"
    /\ pass = [entry |-> entry, gitops |-> Unset, size |-> NoSize, todo |-> {}]
    /\ outcome = "none"
    /\ upsets = 0

-----------------------------------------------------------------------------
(* Users.  The ConfigMap is not watched.                                   *)
EditEntry ==
    /\ Upset
    /\ \E e \in Entries : AdmitEntry(e) /\ entry' = e
    /\ queued' = TRUE
    /\ UNCHANGED <<sizes, defaults, obj, seen, projects, pc, pass, outcome>>

EditSize(s) ==
    /\ Upset
    /\ \E t \in SizeSpecs : AdmitSize(t) /\ sizes' = [sizes EXCEPT ![s] = t]
    /\ queued' = (queued \/ entry.size = s)
    /\ UNCHANGED <<entry, defaults, obj, seen, projects, pc, pass, outcome>>

EditDefaults ==
    /\ Upset
    /\ defaults' \in DefaultsVersions
    /\ UNCHANGED <<entry, sizes, obj, seen, projects, queued, pc, pass, outcome>>

-----------------------------------------------------------------------------
(* The cluster.  A change of an object wakes the PO whose labels it bears  *)
(* when the cache hears of it.                                             *)
Bears(ls) == ls # Unset /\ \A k \in OnboardingKeys : ls[k] = "ours"

Wakes(kind) == kind = "labels" => Bears(obj.labels)

\* Mutant: quotas are not watched.
SyncUnwatched(kind) ==
    /\ seen[kind] # obj[kind]
    /\ seen' = [seen EXCEPT ![kind] = obj[kind]]
    /\ queued' = (queued \/ (kind # "quota" /\ Wakes(kind)))
    /\ UNCHANGED <<wishes, obj, projects, pc, pass, outcome, upsets>>

Sync(kind) ==
    /\ seen[kind] # obj[kind]
    /\ seen' = [seen EXCEPT ![kind] = obj[kind]]
    /\ queued' = (queued \/ Wakes(kind))
    /\ UNCHANGED <<wishes, obj, projects, pc, pass, outcome, upsets>>

\* Mutant: a replayed PO whose entry is known wakes nobody.
ResyncFiltered ==
    /\ ~queued
    /\ queued' = (entry # pass.entry)
    /\ UNCHANGED <<wishes, obj, seen, projects, pc, pass, outcome, upsets>>

\* The informers replay every object each SyncPeriod (5 minutes).
Resync ==
    /\ ~queued
    /\ queued' = TRUE
    /\ UNCHANGED <<wishes, obj, seen, projects, pc, pass, outcome, upsets>>

-----------------------------------------------------------------------------
(* The pass.                                                               *)
Ends(how) ==
    /\ pc' = "idle"
    /\ outcome' = how
    /\ queued' = (queued \/ how # "ready")

Goes(stage) == pc' = stage /\ UNCHANGED <<outcome, queued>>

\* A call was made; its answer may be an error or lost all the same.
Answered(stage) ==
    \/ Goes(stage) /\ UNCHANGED upsets
    \/ Upset /\ Ends("failed")

\* One of the three objects becomes new; the cache follows in its own time.
Writes(kind, new, stage) == obj' = [obj EXCEPT ![kind] = new] /\ Answered(stage)

Skips(stage) == Goes(stage) /\ UNCHANGED <<obj, upsets>>
Fails(how) == Ends(how) /\ UNCHANGED <<obj, upsets>>

\* A create finds the object there, or a patch finds it gone.
Misled(kind) == (obj[kind] = Unset) # (seen[kind] = Unset)

\* A merge patch carries the fields that differ from the cached copy.
Merged(kind, want) ==
    IF obj[kind] = Unset THEN want
    ELSE [f \in DOMAIN want |-> IF want[f] = seen[kind][f] THEN obj[kind][f] ELSE want[f]]

Start ==
    /\ pc = "idle"
    /\ queued
    /\ queued' = FALSE
    /\ pc' = "load"
    /\ pass' = [pass EXCEPT !.entry = entry]
    /\ UNCHANGED <<wishes, obj, seen, projects, outcome, upsets>>

\* LoadClusterDefaults; a broken ConfigMap ends the pass of every PO.
Load ==
    /\ pc = "load"
    /\ IF defaults.state = "broken"
       THEN Ends("failed") /\ UNCHANGED pass
       ELSE /\ Goes("resolve")
            /\ pass' = [pass EXCEPT !.gitops = EffectiveGitOps(defaults, pass.entry.gitops)]
    /\ UNCHANGED <<wishes, obj, seen, projects, upsets>>

ReadSize ==
    /\ pc = "resolve"
    /\ Goes("labels")
    /\ pass' = [pass EXCEPT !.size = IF pass.entry.size = Unset THEN NoSize
                                     ELSE sizes[pass.entry.size]]
    /\ UNCHANGED <<wishes, obj, seen, projects, upsets>>

Resolved == Resolve(pass.entry, pass.size)

\* reconcileNamespaceObject: labels are set, never taken away.
WriteNamespace ==
    /\ pc = "labels"
    /\ LET want == DesiredLabels(pass.entry, pass.gitops)
           kept == IF seen.labels = Unset THEN want ELSE MergeFields(seen.labels, want)
       IN  IF Misled("labels") THEN Fails("failed")
           ELSE Writes("labels", Merged("labels", kept), "quota")
    /\ UNCHANGED <<wishes, seen, projects, pass>>

\* A panic of MustParse is recovered by the controller runtime, and retried.
WriteQuota ==
    /\ pc = "quota"
    /\ IF ~IsOn(Resolved.quota) THEN Skips("limits")
       ELSE IF QuotaPanics(Resolved.quota) THEN Fails("panicked")
       ELSE IF Misled("quota") \/ HardRefused(Merged("quota", Hard(Resolved.quota)))
       THEN Fails("failed")
       ELSE Writes("quota", Merged("quota", Hard(Resolved.quota)), "limits")
    /\ UNCHANGED <<wishes, seen, projects, pass>>

\* spec.limits is a list, which a patch replaces as a whole.
WriteLimits ==
    /\ pc = "limits"
    /\ LET want == Items(Resolved.limits)
           new == IF want = seen.limits THEN obj.limits ELSE want
       IN  IF ~IsOn(Resolved.limits) THEN Skips("projects")
           ELSE IF LimitsPanic(Resolved.limits) THEN Fails("panicked")
           ELSE IF Misled("limits") \/ ItemsRefused(new) THEN Fails("failed")
           ELSE Writes("limits", new, "projects")
    /\ pass' = [pass EXCEPT !.todo = EnabledProjects(pass.entry)]
    /\ UNCHANGED <<wishes, seen, projects>>

\* reconcileArgoCDProjects: a list without a namespace to go to is an error,
\* whether or not a project of it is enabled.
Homeless ==
    /\ pc = "projects"
    /\ \E a \in Projects : pass.entry.projects[a] # Unset
    /\ ArgoNamespace(pass.entry, pass.gitops) = Unset

NowhereToGo ==
    /\ Homeless
    /\ Ends("failed")
    /\ UNCHANGED <<wishes, obj, seen, projects, pass, upsets>>

WriteProject(a) ==
    /\ pc = "projects"
    /\ ~Homeless
    /\ a \in pass.todo
    /\ projects' = [projects EXCEPT ![<<ArgoNamespace(pass.entry, pass.gitops), a>>] =
                       Desired(pass.entry.projects[a], pass.gitops)]
    /\ Answered("projects")
    /\ pass' = [pass EXCEPT !.todo = @ \ {a}]
    /\ UNCHANGED <<wishes, obj, seen>>

ProjectsWritten ==
    /\ pc = "projects"
    /\ ~Homeless
    /\ pass.todo = {}
    /\ Goes("pruneQuota")
    /\ UNCHANGED <<wishes, obj, seen, projects, pass, upsets>>

(* PruneNamespaceResources.                                                *)
PruneQuota ==
    /\ pc = "pruneQuota"
    /\ IF IsOn(Resolved.quota) \/ seen.quota = Unset THEN Skips("pruneLimits")
       ELSE Writes("quota", Unset, "pruneLimits")
    /\ UNCHANGED <<wishes, seen, projects, pass>>

PruneLimits ==
    /\ pc = "pruneLimits"
    /\ IF IsOn(Resolved.limits) \/ seen.limits = Unset THEN Skips("pruneProjects")
       ELSE Writes("limits", Unset, "pruneProjects")
    /\ UNCHANGED <<wishes, seen, projects, pass>>

\* AppProjects are kept by name, wherever they are.
PruneProjects ==
    /\ pc = "pruneProjects"
    /\ projects' = [na \in ArgoNamespaces \X Projects |->
                       IF na[2] \in EnabledProjects(pass.entry) THEN projects[na] ELSE Unset]
    /\ \/ Ends("ready") /\ UNCHANGED upsets
       \/ Upset /\ Ends("failed")
    /\ UNCHANGED <<wishes, obj, seen, pass>>

\* A call of the pass fails without effect.
CallFails ==
    /\ pc # "idle"
    /\ Upset
    /\ Ends("failed")
    /\ UNCHANGED <<wishes, obj, seen, projects, pass>>

Pass ==
    \/ Start \/ Load \/ ReadSize
    \/ WriteNamespace \/ WriteQuota \/ WriteLimits
    \/ NowhereToGo \/ (\E a \in Projects : WriteProject(a)) \/ ProjectsWritten
    \/ PruneQuota \/ PruneLimits \/ PruneProjects

Synced == \E kind \in {"labels", "quota", "limits"} : Sync(kind)

Next ==
    \/ EditEntry \/ EditDefaults \/ \E s \in SizeNames : EditSize(s)
    \/ Synced \/ Resync
    \/ Pass \/ CallFails

Spec == Init /\ [][Next]_vars

\* Passes go on, the caches follow and everything is replayed in the end.
FairSpec == Spec /\ WF_vars(Pass) /\ WF_vars(Synced) /\ WF_vars(Resync)

-----------------------------------------------------------------------------
Amounted == [{"cpu", "memory"} -> Opt(Int)]
LimitItems ==
    [pod : Opt([MinMax -> Opt(Amounted)]), container : Opt([ContainerBounds -> Opt(Amounted)]),
     pvc : Opt([MinMax -> Opt([{"storage"} -> Opt(Int)])])]
Labels == [LabelKeys -> Opt(LabelValues) \cup SizeNames \cup ArgoNamespaces
                        \cup {"ours", "true", "false", "name"}]
Objects == [labels : Opt(Labels), quota : Opt([HardKeys -> Opt(Int)]), limits : Opt(LimitItems)]

\* Every variable has its type.
TypeOK ==
    /\ entry \in Entries /\ sizes \in [SizeNames -> SizeSpecs] /\ defaults \in DefaultsVersions
    /\ obj \in Objects /\ seen \in Objects
    /\ projects \in [ArgoNamespaces \X Projects -> Opt(AppProject)]
    /\ queued \in BOOLEAN /\ pc \in Stages
    /\ pass \in [entry : Entries, gitops : Opt(GitOpsSpec), size : SizeSpecs \cup {NoSize},
                todo : SUBSET Projects]
    /\ outcome \in {"none", "ready", "failed", "panicked"}
    /\ upsets \in 0..MaxUpsets

-----------------------------------------------------------------------------
(* What is promised.                                                       *)

\* Strings nobody would call odd: no blanks around a quantity, and no empty
\* ones where they are not skipped.
Tidy(s) ==
    /\ s.quota # Unset =>
          /\ \A k \in QuantityKeys :
                LET v == Given(s.quota, k) IN v # Unset => IsBlank(v) \/ ~v.pad
          /\ \A k \in ClassKeys :
                s.quota.classes[k] # Unset => ~IsBlank(s.quota.classes[k]) /\ ~s.quota.classes[k].pad
    /\ s.limits # Unset => \A rq \in Bounds(s.limits) : ~IsBlank(rq[2]) /\ ~rq[2].pad

Panics ==
    \/ pc = "quota" /\ IsOn(Resolved.quota) /\ QuotaPanics(Resolved.quota)
    \/ pc = "limits" /\ IsOn(Resolved.limits) /\ LimitsPanic(Resolved.limits)

\* Admission and the builders of quotas and limit ranges read the same
\* strings by different rules (validation/quantity.go, reconcile_quota.go).
\* They agree on tidy ones: whatever is admitted and however it is merged,
\* parsing it does not panic.
TidyNeverPanics == pc # "idle" /\ Tidy(pass.entry) /\ Tidy(pass.size) => ~Panics

\* No admitted entry makes a pass panic (docs/guide.md on quotas: fill what
\* you need, leave the rest empty).
AdmittedNeverPanics == ~Panics

\* Admission judges the GitOps settings of an entry without the ConfigMap, and
\* a pass uses them with it: one that enables AppProjects has a namespace for them.
ProjectsHaveHome == Homeless => EnabledProjects(pass.entry) = {}

\* An Argo CD namespace is required when AppProjects are enabled
\* (docs/cluster-defaults.md), so no admitted entry fails for want of one. One that
\* lists a disabled project does.
AdmittedHaveHome == ~Homeless

\* The table of docs/project-size.md.  A tenant with a size has a quota, or a
\* limit range, if its own block is switched on, and there is one to be had.
HasBlock(e, own, catalogue) ==
    IF e.size = Unset THEN IsOn(own)
    ELSE /\ own # Unset /\ own.enabled = "on"
         /\ e.overwrite = "on" \/ IsOn(catalogue)

\* Each limit is the tenant's if overwriteTshirt is set and it names one, be it
\* empty, else the catalogue's.
Documented(e, t) ==
    LET Says(q) == IF q = Unset THEN [k \in HardKeys |-> Unset] ELSE Hard(q)
        Blank(q, k) == q # Unset /\ k \in QuantityKeys /\ Given(q, k) # Unset
    IN  IF e.size = Unset THEN Says(e.quota)
        ELSE [k \in HardKeys |->
                IF e.overwrite = "on" /\ (Says(e.quota)[k] # Unset \/ Blank(e.quota, k))
                THEN Says(e.quota)[k] ELSE Says(t.quota)[k]]

\* Merging the nested optional blocks of a size and an entry (tshirt_merge.go)
\* amounts to that table, field by field.
MergedAsDocumented ==
    pc = "quota" /\ ~Panics =>
        /\ IsOn(Resolved.quota) <=> HasBlock(pass.entry, pass.entry.quota, pass.size.quota)
        /\ IsOn(Resolved.limits) <=> HasBlock(pass.entry, pass.entry.limits, pass.size.limits)
        /\ IsOn(Resolved.quota) => Hard(Resolved.quota) = Documented(pass.entry, pass.size)

\* Do the tenant's objects say what entry e asks for, given size t and gitops g?
Exact(e, t, g) ==
    LET want == Resolve(e, t)
        own == OwnLabels(e, g)
    IN  /\ obj.labels # Unset
        /\ \A k \in OwnKeys : own[k] # Unset => obj.labels[k] = own[k]
        /\ obj.quota = IF IsOn(want.quota) THEN Hard(want.quota) ELSE Unset
        /\ obj.limits = IF IsOn(want.limits) THEN Items(want.limits) ELSE Unset
        /\ \A a \in Projects :
              IF a \in EnabledProjects(e)
              THEN projects[<<ArgoNamespace(e, g), a>>] = Desired(e.projects[a], g)
              ELSE \A n \in ArgoNamespaces : projects[<<n, a>>] = Unset

SizeOf(e) == IF e.size = Unset THEN NoSize ELSE sizes[e.size]

\* After a good pass, with nothing queued and the caches in step, the tenant is
\* exactly what its stored entry and size and the defaults last loaded ask for:
\* no patch made against a stale copy, no edit during a pass and no failed pass
\* leaves a mixture behind, unless the PO's own labels are overwritten.
QuietMeansExact ==
    pc = "idle" /\ ~queued /\ outcome = "ready" /\ seen = obj /\ Bears(obj.labels)
        => Exact(entry, SizeOf(entry), pass.gitops)

\* What is stored cannot be carried out.
Blocked ==
    LET want == Resolve(entry, SizeOf(entry))
    IN  \/ defaults.state = "broken"
        \/ IsOn(want.quota) /\ (QuotaPanics(want.quota) \/ HardRefused(Hard(want.quota)))
        \/ IsOn(want.limits) /\ (LimitsPanic(want.limits) \/ ItemsRefused(Items(want.limits)))
        \/ /\ \E a \in Projects : entry.projects[a] # Unset
           /\ ArgoNamespace(entry, EffectiveGitOps(defaults, entry.gitops)) = Unset

\* Once users stop editing, a tenant that can be settled is settled for good,
\* also as to the ConfigMap, of whose changes nobody is told (defaults.go).
Settles ==
    <>[](Blocked \/ Exact(entry, SizeOf(entry), EffectiveGitOps(defaults, entry.gitops)))
=============================================================================
