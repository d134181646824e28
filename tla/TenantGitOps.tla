---------------------------- MODULE TenantGitOps ----------------------------
(***************************************************************************)
(* Argo CD settings of a tenant and the labels of its namespace: where     *)
(* each value comes from when several places name one.                     *)
(***************************************************************************)
EXTENDS TenantSizing

CONSTANTS ArgoNamespaces,   \* namespaces of Argo CD instances
          Projects,         \* names of AppProjects
          Lists,            \* non-empty lists: repositories, groups, destinations
          UserKeys,         \* label keys that are no business of the operator
          LabelValues       \* what users write into labels

ProjectFields == {"destinations", "sourceRepos", "oidcGroups", "sourceNamespaces"}

\* GitOpsSpec: spec.gitOps of a PO, and what the defaults ConfigMap holds.
GitOpsSpec ==
    [applicationNamespace : Opt(ArgoNamespaces), destinations : Opt(Lists),
     sourceRepos : Opt(Lists), oidcGroups : Opt(Lists), sourceNamespaces : Opt(Lists)]

ASSUME GitOpsAssumption == Unset \notin GitOpsSpec

\* The ConfigMap onboarding-defaults; broken: no YAML, or a destination
\* without name and server.
Defaults == [state : {"absent", "good", "broken"}, gitops : Opt(GitOpsSpec)]

\* ArgoCDProjectSpec, with one role.
Project ==
    [enabled : Flag, given : [ProjectFields -> Opt(Lists)], roleGroups : Opt(Lists)]

\* What an AppProject is to say.
AppProject ==
    [destinations : Opt(Lists), sourceRepos : Lists \cup {"*"},
     sourceNamespaces : Lists \cup {"*"}, groups : Lists \cup {"dummy-group"}]

-----------------------------------------------------------------------------
\* LoadClusterDefaults, of a ConfigMap that is not broken.
Loaded(cm) == IF cm.state = "good" THEN cm.gitops ELSE Unset

\* Mutant: a pass goes by the defaults alone.
DefaultsOnly(cm, own) == Loaded(cm)

\* MergeClusterDefaults: what the PO says wins, field by field.
EffectiveGitOps(cm, own) == MergeBlock(Loaded(cm), own)

\* ResolveApplicationGitOpsNamespace.
ArgoNamespace(e, g) ==
    IF e.argo # Unset THEN e.argo ELSE IF g = Unset THEN Unset ELSE g.applicationNamespace

\* The project's own list, that of gitOps, the last resort.
ResolveList(pr, g, f, last) ==
    IF pr.given[f] # Unset THEN pr.given[f]
    ELSE IF g # Unset /\ g[f] # Unset THEN g[f] ELSE last

\* Mutant: without destinations a project may deploy anywhere.
DesiredAnywhere(pr, g) ==
    [f \in (ProjectFields \ {"oidcGroups"}) \cup {"groups"} |->
        IF f = "groups" THEN ResolveList(pr, g, "oidcGroups", "dummy-group")
        ELSE ResolveList(pr, g, f, "*")]

Desired(pr, g) ==
    [destinations |-> ResolveList(pr, g, "destinations", Unset),
     sourceRepos |-> ResolveList(pr, g, "sourceRepos", "*"),
     sourceNamespaces |-> ResolveList(pr, g, "sourceNamespaces", "*"),
     groups |-> IF pr.roleGroups # Unset THEN pr.roleGroups
                ELSE ResolveList(pr, g, "oidcGroups", "dummy-group")]

EnabledProjects(e) ==
    {a \in Projects : e.projects[a] # Unset /\ e.projects[a].enabled = "on"}

\* validateGitOpsRequirements: of the PO alone, without the ConfigMap.
ValidGitOps(e) == EnabledProjects(e) # {} => ArgoNamespace(e, e.gitops) # Unset

-----------------------------------------------------------------------------
OnboardingKeys == {"managed-by", "onboarding", "tenant"}
PodSecurity == {"enforce", "warn", "audit"}
OwnKeys == PodSecurity \cup {"user-monitoring", "namespace-size", "env", "argocd-managed-by"}
LabelKeys == OnboardingKeys \cup OwnKeys \cup UserKeys

ManagedLabels == [k \in LabelKeys |-> IF k \in OnboardingKeys THEN "ours" ELSE Unset]

\* Labels the operator derives from other settings of the entry.
OwnLabels(e, g) ==
    [k \in LabelKeys |->
        CASE k \in PodSecurity -> e.podSecurity[k]
          [] k = "user-monitoring" -> IF e.monitoring = "off" THEN "false" ELSE "true"
          [] k = "namespace-size" -> e.size
          [] k = "env" -> IF e.egress = "on" THEN "name" ELSE Unset
          [] k = "argocd-managed-by" -> ArgoNamespace(e, g)
          [] OTHER -> Unset]

\* reconcileNamespaceObject: each source is laid over those before it.
DesiredLabels(e, g) ==
    MergeFields(MergeFields(MergeFields(ManagedLabels, e.labels), e.additional), OwnLabels(e, g))

\* What of an entry this module and TenantSizing are about.
Entry ==
    [size : Opt(SizeNames), overwrite : Flag, quota : Opt(Quotas), limits : Opt(Limits),
     gitops : Opt(GitOpsSpec), argo : Opt(ArgoNamespaces), projects : [Projects -> Opt(Project)],
     labels : [LabelKeys -> Opt(LabelValues)], additional : [LabelKeys -> Opt(LabelValues)],
     podSecurity : [PodSecurity -> Opt(LabelValues)], monitoring : Flag, egress : Flag]
=============================================================================
