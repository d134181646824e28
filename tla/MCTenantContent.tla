--------------------------- MODULE MCTenantContent ---------------------------
(* Instances of TenantContent: one size, two Argo CD namespaces, one        *)
(* project, and entries, sizes and ConfigMaps chosen to meet each rule.     *)
EXTENDS TenantContent, TLC

CONSTANTS S, argo1, argo2, web, mine, theirs, team, strict, lax, gold, claims

MCSizeNames == {S}
MCClassKeys == {gold, claims}
MCClaimKeys == {claims}
MCStorageKeys == {gold}
MCArgoNamespaces == {argo1, argo2}
MCProjects == {web}
MCLists == {mine, theirs}
MCUserKeys == {team}
MCLabelValues == {strict, lax}

Unit(m) == [body |-> "unit", pad |-> FALSE, n |-> m]
Bare(m) == [body |-> "number", pad |-> FALSE, n |-> m]
Lower(m) == [body |-> "lower", pad |-> FALSE, n |-> m]
Empty == [body |-> "blank", pad |-> FALSE, n |-> 0]
Junk == [body |-> "junk", pad |-> FALSE, n |-> 0]
Padded(q) == [q EXCEPT !.pad = TRUE]

\* f, with the fields of g in place of its own.
With(f, g) == [x \in DOMAIN f |-> IF x \in DOMAIN g THEN g[x] ELSE f[x]]
Blank(S0) == [x \in S0 |-> Unset]

Quota(flag, amounts, limits) ==
    [enabled |-> flag, counts |-> Blank(Counts), amounts |-> With(Blank(Amounts), amounts),
     limits |-> IF limits = Unset THEN Unset ELSE With(Blank(LimitKeys), limits),
     requests |-> Unset, classes |-> Blank(ClassKeys)]

PodRange(flag, low, high) ==
    [enabled |-> flag, container |-> Unset, pvc |-> Unset,
     pod |-> [min |-> With(Blank({"cpu", "memory"}), ("cpu" :> low)),
              max |-> With(Blank({"cpu", "memory"}), ("cpu" :> high))]]

Plain ==
    [size |-> Unset, overwrite |-> "unset", quota |-> Unset, limits |-> Unset,
     gitops |-> Unset, argo |-> Unset, projects |-> [a \in Projects |-> Unset],
     labels |-> Blank(LabelKeys), additional |-> Blank(LabelKeys),
     podSecurity |-> Blank(PodSecurity), monitoring |-> "unset", egress |-> "unset"]

Web(flag) ==
    [a \in Projects |->
        [enabled |-> flag, roleGroups |-> Unset,
         given |-> With(Blank(ProjectFields), ("sourceRepos" :> mine))]]

GitOps(ns, dest) ==
    With(Blank({"applicationNamespace"} \cup ProjectFields),
         [applicationNamespace |-> ns, destinations |-> dest])

\* A quota of its own, some of it blank; labels that contradict the settings.
Own ==
    [Plain EXCEPT
        !.quota = [Quota("unset", [cpu |-> Padded(Empty), memory |-> Lower(4)], Unset)
                     EXCEPT !.counts["pods"] = 5,
                            !.classes = With(@, (gold :> Unit(20)) @@ (claims :> Bare(3)))],
        !.argo = argo1, !.projects = Web("on"),
        !.additional = With(@, [enforce |-> lax] @@ ("user-monitoring" :> lax) @@ (team :> lax)),
        !.podSecurity["enforce"] = strict]

\* A size, overridden in part.
Overridden ==
    [Plain EXCEPT
        !.size = S, !.overwrite = "on",
        !.quota = Quota("on", ("memory" :> Unit(8)), ("limits.cpu" :> Bare(10))),
        !.limits = PodRange("on", Bare(1), Unset),
        !.gitops = GitOps(argo2, Unset), !.projects = Web("on"), !.monitoring = "off"]

\* The size as it is; what else is filled in is ignored.
Catalogue ==
    [Plain EXCEPT
        !.size = S, !.quota = Quota("on", ("memory" :> Unit(8)), Unset),
        !.limits = PodRange("on", Bare(4), Unset), !.argo = argo2]

\* The size without its limits, and a disabled project that may lack a namespace.
Idle ==
    [Plain EXCEPT
        !.size = S, !.quota = Quota("unset", ("memory" :> Unit(8)), Unset),
        !.limits = PodRange("unset", Bare(4), Unset),
        !.projects = Web("off"), !.egress = "on"]

Small ==
    [quota |-> Quota("unset", ("cpu" :> Bare(2)), [x \in {"limits.cpu", "limits.memory"} |-> Unit(1)]),
     limits |-> PodRange("unset", Unset, Bare(2))]

\* Admitted, but the limit range panics, and the quota is refused if switched on.
Large ==
    [quota |-> [Quota("off", ("memory" :> Unit(64)), Unset) EXCEPT !.counts["pods"] = -1],
     limits |-> PodRange("on", Unset, Padded(Bare(8)))]

\* Not admitted.
Unparsed == [Small EXCEPT !.quota.amounts["memory"] = Junk]
Garbled == [Own EXCEPT !.quota.amounts["memory"] = Junk]

MCEntries == {Own, Overridden, Catalogue, Idle, Garbled}
CarelessEntries ==
    {[Own EXCEPT !.quota.classes = With(@, (gold :> Empty))],
     [Own EXCEPT !.limits = PodRange("on", Empty, Unset)],
     [Own EXCEPT !.quota.amounts["memory"] = Padded(@)]}
MCSizeSpecs == {Small, Large, Unparsed}
MCDefaults ==
    {[state |-> "absent", gitops |-> Unset], [state |-> "broken", gitops |-> Unset],
     [state |-> "good", gitops |-> GitOps(argo1, theirs)]}
=============================================================================
