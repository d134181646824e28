---------------------------- MODULE TenantSizing ----------------------------
(***************************************************************************)
(* Quotas and limit ranges of a tenant: what admission accepts, how an     *)
(* entry is merged with its T-shirt size, what the operator builds from    *)
(* the result, and what the API server then says to it.                    *)
(*                                                                         *)
(* A field that is not set (a nil pointer, an empty string or list) is     *)
(* Unset.  A block of fields is a function from the names of its fields,   *)
(* which are those of the resources they limit.                            *)
(***************************************************************************)
EXTENDS Integers

CONSTANTS Unset,        \* the value of a field that is not set
          SizeNames,    \* names of T-shirt sizes
          ClassKeys,    \* keys of storage class quotas
          ClaimKeys,    \* those that contain "persistentvolumeclaims"
          StorageKeys   \* those that contain "storage"

Opt(S) == S \cup {Unset}
Flag == {"unset", "on", "off"}      \* a *bool

-----------------------------------------------------------------------------
(* A string in a quantity field: what it says without the blanks around    *)
(* it, whether there are any, and the number it stands for.                *)
Quantity ==
    [body : {"blank",       \* nothing
             "number",      \* 4
             "dots",        \* 1.2.3
             "unit",        \* 4Gi, 500m
             "lower",       \* 4gi
             "junk"},
     pad : BOOLEAN, n : Int]

\* strings.TrimSpace and NormalizeQuantity.
Trim(q) == [q EXCEPT !.pad = FALSE]
Normalize(q) == IF q.body = "lower" THEN [q EXCEPT !.body = "unit"] ELSE q

\* resource.ParseQuantity, and so MustParse, takes no blanks and no lower-case suffix.
Parses(q) == q.body \in {"number", "unit"} /\ ~q.pad
IsBlank(q) == q.body = "blank"
IsBareNumber(q) == q.body \in {"number", "dots"} /\ q.n >= 0   \* ^[\d.]+$

ValidCPU(q) == IsBlank(q) \/ Parses(Trim(q))

\* Mutant: a value with a lower-case suffix passes as it is.
ValidBytesUnparsed(q) == IsBlank(q) \/ ~IsBareNumber(q)

ValidBytes(q) == IsBlank(q) \/ (~IsBareNumber(q) /\ Parses(Normalize(Trim(q))))

ValidClassValue(k, q) ==
    \/ IsBlank(q)
    \/ k \in ClaimKeys /\ IsBareNumber(q) /\ Parses(Trim(q))
    \/ k \notin ClaimKeys \cup StorageKeys /\ IsBareNumber(q) /\ Parses(Trim(q))
    \/ ~IsBareNumber(q) /\ ValidBytes(q)

-----------------------------------------------------------------------------
Counts == {"pods", "replicationcontrollers", "resourcequotas", "services",
           "secrets", "configmaps", "persistentvolumeclaims"}
Amounts == {"cpu", "memory", "ephemeral-storage"}
LimitKeys == {"limits.cpu", "limits.memory", "limits.ephemeral-storage"}
RequestKeys == {"requests.cpu", "requests.memory", "requests.storage",
                "requests.ephemeral-storage"}
QuantityKeys == Amounts \cup LimitKeys \cup RequestKeys
CPUKeys == {"cpu", "limits.cpu", "requests.cpu"}
HardKeys == Counts \cup QuantityKeys \cup ClassKeys

Quotas ==
    [enabled : Flag,
     counts : [Counts -> Opt(Int)],
     amounts : [Amounts -> Opt(Quantity)],
     limits : Opt([LimitKeys -> Opt(Quantity)]),
     requests : Opt([RequestKeys -> Opt(Quantity)]),
     classes : [ClassKeys -> Opt(Quantity)]]

AmountSpec == [{"cpu", "memory"} -> Opt(Quantity)]
StorageSpec == [{"storage"} -> Opt(Quantity)]
MinMax == {"min", "max"}
ContainerBounds == MinMax \cup {"default", "defaultRequest"}

Limits ==
    [enabled : Flag,
     pod : Opt([MinMax -> Opt(AmountSpec)]),
     container : Opt([ContainerBounds -> Opt(AmountSpec)]),
     pvc : Opt([MinMax -> Opt(StorageSpec)])]

\* TShirtSizeSpec, and the part of NamespaceSpec that concerns sizing.
SizeSpec == [quota : Opt(Quotas), limits : Opt(Limits)]
Sizing == [size : Opt(SizeNames), overwrite : Flag, quota : Opt(Quotas), limits : Opt(Limits)]

ASSUME SizingAssumption ==
    /\ ClaimKeys \subseteq ClassKeys
    /\ StorageKeys \subseteq ClassKeys
    /\ Unset \notin Int \cup Quantity \cup Quotas \cup Limits \cup SizeNames
    /\ Unset \notin [LimitKeys -> Opt(Quantity)] \cup [RequestKeys -> Opt(Quantity)]
    /\ Unset \notin AmountSpec \cup StorageSpec
    /\ Unset \notin [ContainerBounds -> Opt(AmountSpec)]
    /\ Unset \notin [MinMax -> Opt(AmountSpec)] \cup [MinMax -> Opt(StorageSpec)]

\* What a quota says of a resource, by whichever block.
Given(q, k) ==
    CASE k \in Amounts -> q.amounts[k]
      [] k \in LimitKeys -> IF q.limits = Unset THEN Unset ELSE q.limits[k]
      [] k \in RequestKeys -> IF q.requests = Unset THEN Unset ELSE q.requests[k]

\* The quantities of a limit range, with the resource each is about.
InBlock(block) ==
    IF block = Unset THEN {}
    ELSE UNION {{<<r, block[b][r]>> : r \in DOMAIN block[b]} :
                  b \in {c \in DOMAIN block : block[c] # Unset}}
Bounds(l) == {rq \in InBlock(l.pod) \cup InBlock(l.container) \cup InBlock(l.pvc) : rq[2] # Unset}

-----------------------------------------------------------------------------
(* Admission (internal/validation).                                        *)
ValidQuota(q) ==
    /\ \A k \in QuantityKeys :
          Given(q, k) # Unset =>
             IF k \in CPUKeys THEN ValidCPU(Given(q, k)) ELSE ValidBytes(Given(q, k))
    /\ \A k \in ClassKeys : q.classes[k] # Unset => ValidClassValue(k, q.classes[k])

ValidLimits(l) ==
    \A rq \in Bounds(l) : IF rq[1] = "cpu" THEN ValidCPU(rq[2]) ELSE ValidBytes(rq[2])

\* TShirtSizeSpecHasSizing: one block at least is not switched off and says
\* something, be it an empty block.
HasSizing(t) ==
    \/ /\ t.quota # Unset /\ t.quota.enabled # "off"
       /\ \/ \E k \in Counts : t.quota.counts[k] # Unset
          \/ \E k \in Amounts : t.quota.amounts[k] # Unset
          \/ \E k \in ClassKeys : t.quota.classes[k] # Unset
          \/ t.quota.limits # Unset \/ t.quota.requests # Unset
    \/ /\ t.limits # Unset /\ t.limits.enabled # "off"
       /\ t.limits.pod # Unset \/ t.limits.container # Unset \/ t.limits.pvc # Unset

\* Of the sizing of a catalogue entry or of a namespace entry.
ValidSizing(s) ==
    /\ s.quota # Unset => ValidQuota(s.quota)
    /\ s.limits # Unset => ValidLimits(s.limits)

-----------------------------------------------------------------------------
(* The merge (tshirt_merge.go): what the override sets wins.               *)

\* Mutant: the override replaces the block as a whole.
ReplaceFields(base, over) == over

MergeFields(base, over) == [f \in DOMAIN base |-> IF over[f] # Unset THEN over[f] ELSE base[f]]

MergeBlock(base, over) ==
    IF over = Unset THEN base ELSE IF base = Unset THEN over ELSE MergeFields(base, over)

MergeBounds(base, over) ==
    IF over = Unset THEN base
    ELSE IF base = Unset THEN over
    ELSE [b \in DOMAIN base |-> MergeBlock(base[b], over[b])]

MergeFlag(base, over) ==
    IF over # "unset" THEN over ELSE IF base = "unset" THEN "on" ELSE base

EnsureEnabled(b) == IF b = Unset THEN Unset ELSE [b EXCEPT !.enabled = MergeFlag(@, "unset")]

\* The override is there and enabled: otherwise the size is not applied.
MergeQuota(base, over) ==
    IF base = Unset THEN EnsureEnabled(over)
    ELSE [enabled |-> MergeFlag(base.enabled, over.enabled),
          counts |-> MergeFields(base.counts, over.counts),
          amounts |-> MergeFields(base.amounts, over.amounts),
          limits |-> MergeBlock(base.limits, over.limits),
          requests |-> MergeBlock(base.requests, over.requests),
          classes |-> MergeFields(base.classes, over.classes)]

MergeLimits(base, over) ==
    IF base = Unset THEN EnsureEnabled(over)
    ELSE [enabled |-> MergeFlag(base.enabled, over.enabled),
          pod |-> MergeBounds(base.pod, over.pod),
          container |-> MergeBounds(base.container, over.container),
          pvc |-> MergeBounds(base.pvc, over.pvc)]

AppliesTShirt(block) == block # Unset /\ block.enabled = "on"

\* ResolveNamespaceSpec, given the size it has read.
Resolve(e, t) ==
    IF e.size = Unset THEN [quota |-> e.quota, limits |-> e.limits]
    ELSE [quota |-> IF ~AppliesTShirt(e.quota) THEN Unset
                    ELSE IF e.overwrite = "on" THEN MergeQuota(t.quota, e.quota)
                    ELSE EnsureEnabled(t.quota),
          limits |-> IF ~AppliesTShirt(e.limits) THEN Unset
                     ELSE IF e.overwrite = "on" THEN MergeLimits(t.limits, e.limits)
                     ELSE EnsureEnabled(t.limits)]

-----------------------------------------------------------------------------
(* What the operator writes (reconcile_quota.go).                          *)
IsOn(block) == block # Unset /\ block.enabled # "off"

\* MustParse panics.  Blank quantities of a quota are skipped, those of
\* storage classes and limit ranges are not.
QuotaPanics(q) ==
    \/ \E k \in QuantityKeys :
          LET v == Given(q, k) IN v # Unset /\ ~IsBlank(v) /\ ~Parses(Normalize(v))
    \/ \E k \in ClassKeys : q.classes[k] # Unset /\ ~Parses(Normalize(q.classes[k]))

LimitsPanic(l) ==
    \E rq \in Bounds(l) : ~Parses(IF rq[1] = "cpu" THEN rq[2] ELSE Normalize(rq[2]))

Number(v) == IF v = Unset \/ IsBlank(v) THEN Unset ELSE v.n

Hard(q) ==
    [k \in HardKeys |->
        IF k \in ClassKeys /\ q.classes[k] # Unset THEN q.classes[k].n
        ELSE IF k \in Counts THEN q.counts[k]
        ELSE IF k \in QuantityKeys THEN Number(Given(q, k)) ELSE Unset]

Items(l) ==
    LET Numbers(block) ==
          IF block = Unset THEN Unset
          ELSE [b \in DOMAIN block |->
                  IF block[b] = Unset THEN Unset
                  ELSE [r \in DOMAIN block[b] |-> Number(block[b][r])]]
    IN  [pod |-> Numbers(l.pod), container |-> Numbers(l.container), pvc |-> Numbers(l.pvc)]

-----------------------------------------------------------------------------
(* What the API server refuses of it (external).                           *)
HardRefused(h) == \E k \in HardKeys : h[k] # Unset /\ h[k] < 0

Exceeds(block, low, high) ==
    /\ block # Unset /\ block[low] # Unset /\ block[high] # Unset
    /\ \E r \in DOMAIN block[low] :
          block[low][r] # Unset /\ block[high][r] # Unset /\ block[low][r] > block[high][r]

ItemsRefused(i) ==
    \/ Exceeds(i.pod, "min", "max") \/ Exceeds(i.pvc, "min", "max")
    \/ \E lh \in {<<"min", "max">>, <<"min", "default">>, <<"min", "defaultRequest">>,
                   <<"default", "max">>, <<"defaultRequest", "max">>,
                   <<"defaultRequest", "default">>} : Exceeds(i.container, lh[1], lh[2])
    \/ /\ i.pvc # Unset
       /\ \A b \in MinMax : i.pvc[b] = Unset \/ i.pvc[b]["storage"] = Unset
=============================================================================
