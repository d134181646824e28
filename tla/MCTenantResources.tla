------------------------- MODULE MCTenantResources -------------------------
(* Small instances of TenantResources for TLC. *)
EXTENDS TenantResources, TLC

CONSTANTS t1, t2, g1, g2, pol1, prj1, prj2, argo1

Off == [state |-> "off", quota |-> "S", policies |-> {pol1}, admins |-> TRUE,
        group |-> None, role |-> "admin", egress |-> TRUE, argo |-> argo1,
        projects |-> {prj1}]

\* An entry with everything and the same one with next to nothing, in every state.
InEveryState(entries) == {[e EXCEPT !.state = s] : e \in entries,
                                                   s \in {"off", "on", "frozen", "offboard"}}

Bare(e) == [e EXCEPT !.quota = None, !.policies = {}, !.admins = FALSE,
                     !.egress = FALSE, !.projects = {}]

\* Two entries with names of their own.
TwoEntries ==
    (t1 :> InEveryState({Off, Bare(Off)}))
    @@ (t2 :> {[Off EXCEPT !.projects = {prj2}, !.state = s] : s \in {"off", "on", "offboard"}})

\* One entry, with the versions that a statement is about.
Only(entries) == t1 :> entries

\* Renamed, Hasty, Steady, QuotaOnly, SharedGroup: for the statements that README
\* lists as refuted by hand.
Renamed == Only({Off, [Off EXCEPT !.state = "on"],
                 [Off EXCEPT !.state = "on", !.group = g1]})

Hasty == Only({Off, [Off EXCEPT !.state = "on"], [Bare(Off) EXCEPT !.state = "offboard"]})

Steady == Only({[Off EXCEPT !.state = s] : s \in {"off", "on", "offboard"}})

GrownOrShrunk == Only({[Off EXCEPT !.state = s] : s \in {"off", "on", "offboard"}}
                        \cup {[Bare(Off) EXCEPT !.state = "on"]})

QuotaOnly ==
    Only({Bare(Off), [Bare(Off) EXCEPT !.state = "on", !.quota = "S"],
          [Bare(Off) EXCEPT !.state = "on"], [Bare(Off) EXCEPT !.state = "offboard"]})

NewRole == Only({Off, [Off EXCEPT !.state = "on"],
                 [Off EXCEPT !.state = "on", !.role = "edit"]})

\* Two entries that name one Group.
SharedGroup ==
    [t \in {t1, t2} |->
        {[Off EXCEPT !.group = g1, !.projects = {}, !.state = s] : s \in {"off", "on", "offboard"}}]
=============================================================================
