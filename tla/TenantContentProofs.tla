------------------------- MODULE TenantContentProofs -------------------------
(***************************************************************************)
(* Proofs about TenantContent and the operators it is built from: types;   *)
(* admitted quantities and AppProjects; the merge of sizes; and that a     *)
(* quiet tenant is exact, whose invariant QuietInv says of each object     *)
(* that a pass nobody has disturbed left it as it should be, if the copy   *)
(* it was patched against is still the object's.                           *)
(***************************************************************************)
EXTENDS TenantContent, TLAPS

USE DEF Opt

-----------------------------------------------------------------------------
(* Quantities and their merge.                                             *)

\* A quantity admission accepts parses, unless it is blank or padded with spaces.
LEMMA TidyParses ==
    ASSUME NEW v \in Quantity, ~v.pad, ~IsBlank(v), ValidCPU(v) \/ ValidBytes(v)
    PROVE  Parses(Normalize(v)) /\ (ValidCPU(v) => Parses(v))
  <1>1. Trim(v) = v
    BY DEF Trim, Quantity
  <1>2. ValidCPU(v) => Parses(v)
    BY <1>1 DEF ValidCPU
  <1>3. Parses(v) => Normalize(v) = v
    BY DEF Parses, Normalize
  <1>4. ValidBytes(v) => Parses(Normalize(v))
    BY <1>1 DEF ValidBytes
  <1> QED
    BY <1>2, <1>3, <1>4

\* So does a storage class value, after it is normalised.
LEMMA TidyClassParses ==
    ASSUME NEW k, NEW v \in Quantity, ~v.pad, ~IsBlank(v), ValidClassValue(k, v)
    PROVE  Parses(Normalize(v))
  <1>1. Trim(v) = v
    BY DEF Trim, Quantity
  <1>2. Parses(v) => Normalize(v) = v
    BY DEF Parses, Normalize
  <1> QED
    BY <1>1, <1>2, TidyParses DEF ValidClassValue

\* A merged field is one of the two.
LEMMA MergedField ==
    ASSUME NEW base, NEW over, NEW m, m = MergeFields(base, over), NEW f \in DOMAIN base
    PROVE  m[f] = over[f] \/ m[f] = base[f]
  BY DEF MergeFields

\* The merge of two records of fields has the fields of both.
LEMMA MergedType ==
    ASSUME NEW D, NEW T, NEW base, NEW over, NEW m,
           base \in [D -> T], over \in [D -> T], m = MergeFields(base, over)
    PROVE  m \in [D -> T]
  BY DEF MergeFields

\* In a merged block a field is the override's where it is given, else the size's.
LEMMA MergedBlockField ==
    ASSUME NEW base, NEW over, NEW m, m = MergeBlock(base, over), m # Unset,
           NEW f, base # Unset => f \in DOMAIN base
    PROVE  (over # Unset /\ m[f] = over[f]) \/ (base # Unset /\ m[f] = base[f])
  BY DEF MergeBlock, MergeFields

\* A merged block has the type of its parts.
LEMMA MergedBlockType ==
    ASSUME NEW D, NEW T, NEW base, NEW over, NEW m,
           base \in Opt([D -> T]), over \in Opt([D -> T]), m = MergeBlock(base, over)
    PROVE  m \in Opt([D -> T])
  <1>1. CASE base # Unset /\ over # Unset
    <2>1. base \in [D -> T] /\ over \in [D -> T] /\ m = MergeFields(base, over)
      BY <1>1 DEF MergeBlock
    <2>2. m \in [D -> T]
      BY <2>1 DEF MergeFields
    <2> QED
      BY <1>1, <2>2
  <1>2. CASE base = Unset \/ over = Unset
    BY <1>2 DEF MergeBlock
  <1> QED
    BY <1>1, <1>2

\* Which of the amounts, limits and requests of a quota are given, key by key.
LEMMA GivenBy ==
    /\ \A k \in Amounts : \A q : Given(q, k) = q.amounts[k]
    /\ \A k \in LimitKeys : \A q :
          Given(q, k) = IF q.limits = Unset THEN Unset ELSE q.limits[k]
    /\ \A k \in RequestKeys : \A q :
          Given(q, k) = IF q.requests = Unset THEN Unset ELSE q.requests[k]
  BY DEF Given, Amounts, LimitKeys, RequestKeys

\* A merged quota takes each of its quantities from the override or from the size.
LEMMA MergedQuota ==
    ASSUME NEW base \in Opt(Quotas), NEW over \in Quotas, NEW q, q = MergeQuota(base, over)
    PROVE  /\ q \in Quotas
           /\ \A k \in QuantityKeys : \/ Given(q, k) = Given(over, k)
                                      \/ base # Unset /\ Given(q, k) = Given(base, k)
           /\ \A k \in ClassKeys : \/ q.classes[k] = over.classes[k]
                                   \/ base # Unset /\ q.classes[k] = base.classes[k]
  <1>1. CASE base = Unset
    <2>1. q = [over EXCEPT !.enabled = MergeFlag(over.enabled, "unset")]
      BY <1>1, SizingAssumption DEF MergeQuota, EnsureEnabled
    <2>2. /\ q \in Quotas /\ q.amounts = over.amounts /\ q.limits = over.limits
          /\ q.requests = over.requests /\ q.classes = over.classes
      BY <2>1 DEF Quotas, MergeFlag, Flag
    <2>3. \A k \in QuantityKeys : Given(q, k) = Given(over, k)
      BY <2>2 DEF Given, QuantityKeys
    <2> QED
      BY <2>2, <2>3
  <1>2. CASE base # Unset
    <2>1. base \in Quotas
      BY <1>2
    <2>2. /\ q.enabled \in Flag
          /\ q.counts \in [Counts -> Opt(Int)]
      <3>1. /\ q.enabled = MergeFlag(base.enabled, over.enabled)
            /\ base.enabled \in Flag /\ over.enabled \in Flag
        BY <1>2, <2>1 DEF MergeQuota, Quotas
      <3>2. /\ q.counts = MergeFields(base.counts, over.counts)
            /\ base.counts \in [Counts -> Opt(Int)] /\ over.counts \in [Counts -> Opt(Int)]
        BY <1>2, <2>1 DEF MergeQuota, Quotas
      <3>3. q.enabled \in Flag
        BY <3>1 DEF MergeFlag, Flag
      <3>4. q.counts \in [Counts -> Opt(Int)]
        BY <3>2, MergedType
      <3> QED
        BY <3>3, <3>4
    <2>3. /\ q.amounts \in [Amounts -> Opt(Quantity)]
          /\ \A k \in Amounts : q.amounts[k] = over.amounts[k] \/ q.amounts[k] = base.amounts[k]
      <3>1. /\ q.amounts = MergeFields(base.amounts, over.amounts)
            /\ base.amounts \in [Amounts -> Opt(Quantity)]
            /\ over.amounts \in [Amounts -> Opt(Quantity)]
        BY <1>2, <2>1 DEF MergeQuota, Quotas
      <3>2. q.amounts \in [Amounts -> Opt(Quantity)]
        BY <3>1, MergedType
      <3> QED
        BY <3>1, <3>2, MergedField
    <2>4. /\ q.classes \in [ClassKeys -> Opt(Quantity)]
          /\ \A k \in ClassKeys : q.classes[k] = over.classes[k] \/ q.classes[k] = base.classes[k]
      <3>1. /\ q.classes = MergeFields(base.classes, over.classes)
            /\ base.classes \in [ClassKeys -> Opt(Quantity)]
            /\ over.classes \in [ClassKeys -> Opt(Quantity)]
        BY <1>2, <2>1 DEF MergeQuota, Quotas
      <3>2. q.classes \in [ClassKeys -> Opt(Quantity)]
        BY <3>1, MergedType
      <3> QED
        BY <3>1, <3>2, MergedField
    <2>5. /\ q.limits \in Opt([LimitKeys -> Opt(Quantity)])
          /\ q.limits = Unset => base.limits = Unset /\ over.limits = Unset
          /\ \A k \in LimitKeys : q.limits # Unset =>
                \/ over.limits # Unset /\ q.limits[k] = over.limits[k]
                \/ base.limits # Unset /\ q.limits[k] = base.limits[k]
      <3>1. /\ q.limits = MergeBlock(base.limits, over.limits)
            /\ base.limits \in Opt([LimitKeys -> Opt(Quantity)])
            /\ over.limits \in Opt([LimitKeys -> Opt(Quantity)])
        BY <1>2, <2>1 DEF MergeQuota, Quotas
      <3>2. Unset \notin [LimitKeys -> Opt(Quantity)]
        BY SizingAssumption
      <3>3. q.limits \in Opt([LimitKeys -> Opt(Quantity)])
        BY <3>1, MergedBlockType
      <3>4. q.limits = Unset => base.limits = Unset /\ over.limits = Unset
        BY <3>1, <3>2 DEF MergeBlock, MergeFields
      <3> QED
        BY <3>1, <3>3, <3>4, MergedBlockField
    <2>6. /\ q.requests \in Opt([RequestKeys -> Opt(Quantity)])
          /\ q.requests = Unset => base.requests = Unset /\ over.requests = Unset
          /\ \A k \in RequestKeys : q.requests # Unset =>
                \/ over.requests # Unset /\ q.requests[k] = over.requests[k]
                \/ base.requests # Unset /\ q.requests[k] = base.requests[k]
      <3>1. /\ q.requests = MergeBlock(base.requests, over.requests)
            /\ base.requests \in Opt([RequestKeys -> Opt(Quantity)])
            /\ over.requests \in Opt([RequestKeys -> Opt(Quantity)])
        BY <1>2, <2>1 DEF MergeQuota, Quotas
      <3>2. Unset \notin [RequestKeys -> Opt(Quantity)]
        BY SizingAssumption
      <3>3. q.requests \in Opt([RequestKeys -> Opt(Quantity)])
        BY <3>1, MergedBlockType
      <3>4. q.requests = Unset => base.requests = Unset /\ over.requests = Unset
        BY <3>1, <3>2 DEF MergeBlock, MergeFields
      <3> QED
        BY <3>1, <3>3, <3>4, MergedBlockField
    <2>7. q \in Quotas
      BY <1>2, <2>2, <2>3, <2>4, <2>5, <2>6 DEF Quotas, MergeQuota
    <2>8. ASSUME NEW k \in QuantityKeys
          PROVE  Given(q, k) = Given(over, k) \/ Given(q, k) = Given(base, k)
      <3>1. CASE k \in Amounts
        BY <2>3, <3>1, GivenBy
      <3>2. CASE k \in LimitKeys
        BY <2>5, <3>2, GivenBy
      <3>3. CASE k \in RequestKeys
        BY <2>6, <3>3, GivenBy
      <3> QED
        BY <3>1, <3>2, <3>3 DEF QuantityKeys
    <2> QED
      BY <1>2, <2>4, <2>7, <2>8
  <1> QED
    BY <1>1, <1>2

\* The quantities of a block are those it gives under some field.
LEMMA InBlockIs ==
    ASSUME NEW block, NEW rq
    PROVE  rq \in InBlock(block) <=>
              /\ block # Unset
              /\ \E b \in DOMAIN block :
                    block[b] # Unset /\ \E r \in DOMAIN block[b] : rq = <<r, block[b][r]>>
  BY DEF InBlock

\* Merged bounds come from the override's or the size's bounds, block by block.
LEMMA MergedBounds ==
    ASSUME NEW D, NEW R, NEW base, NEW over, NEW m,
           base \in Opt([D -> Opt([R -> Opt(Quantity)])]),
           over \in Opt([D -> Opt([R -> Opt(Quantity)])]),
           m = MergeBounds(base, over),
           Unset \notin [D -> Opt([R -> Opt(Quantity)])]
    PROVE  /\ m \in Opt([D -> Opt([R -> Opt(Quantity)])])
           /\ InBlock(m) \subseteq InBlock(base) \cup InBlock(over)
  <1>1. CASE base # Unset /\ over # Unset
    <2>1. /\ base \in [D -> Opt([R -> Opt(Quantity)])]
          /\ over \in [D -> Opt([R -> Opt(Quantity)])]
          /\ m = [b \in D |-> MergeBlock(base[b], over[b])]
      BY <1>1 DEF MergeBounds
    <2>2. ASSUME NEW b \in D
          PROVE  /\ m[b] \in Opt([R -> Opt(Quantity)])
                 /\ base[b] \in Opt([R -> Opt(Quantity)])
                 /\ over[b] \in Opt([R -> Opt(Quantity)])
                 /\ m[b] = MergeBlock(base[b], over[b])
      <3>1. /\ base[b] \in Opt([R -> Opt(Quantity)])
            /\ over[b] \in Opt([R -> Opt(Quantity)])
            /\ m[b] = MergeBlock(base[b], over[b])
        BY <2>1
      <3>2. CASE base[b] # Unset /\ over[b] # Unset
        BY <3>1, <3>2 DEF MergeBlock, MergeFields
      <3>3. CASE base[b] = Unset \/ over[b] = Unset
        BY <3>1, <3>3 DEF MergeBlock
      <3> QED
        BY <3>1, <3>2, <3>3
    <2>3. m \in [D -> Opt([R -> Opt(Quantity)])]
      BY <2>1, <2>2
    <2>4. ASSUME NEW rq \in InBlock(m)
          PROVE  rq \in InBlock(base) \cup InBlock(over)
      <3>1. PICK b \in D : m[b] # Unset /\ \E r \in DOMAIN m[b] : rq = <<r, m[b][r]>>
        BY <2>3, InBlockIs
      <3>2. PICK r \in R : rq = <<r, m[b][r]>>
        BY <2>2, <3>1
      <3>3. base[b] # Unset => r \in DOMAIN base[b]
        BY <2>2
      <3>4. over[b] # Unset => r \in DOMAIN over[b]
        BY <2>2
      <3>5. \/ over[b] # Unset /\ m[b][r] = over[b][r]
            \/ base[b] # Unset /\ m[b][r] = base[b][r]
        BY <2>2, <3>1, <3>3, MergedBlockField
      <3>6. b \in DOMAIN base /\ b \in DOMAIN over
        BY <2>1
      <3> QED
        BY <1>1, <3>2, <3>3, <3>4, <3>5, <3>6, InBlockIs
    <2> QED
      BY <2>3, <2>4
  <1>2. CASE base = Unset \/ over = Unset
    BY <1>2 DEF MergeBounds
  <1> QED
    BY <1>1, <1>2

\* A merged limit range holds quantities of the override or the size, and no others.
LEMMA MergedLimits ==
    ASSUME NEW base \in Opt(Limits), NEW over \in Limits, NEW l, l = MergeLimits(base, over)
    PROVE  /\ l \in Limits
           /\ \A rq \in Bounds(l) : rq \in Bounds(over) \/ (base # Unset /\ rq \in Bounds(base))
  <1>1. CASE base = Unset
    <2>1. l = [over EXCEPT !.enabled = MergeFlag(over.enabled, "unset")]
      BY <1>1, SizingAssumption DEF MergeLimits, EnsureEnabled
    <2>2. l \in Limits /\ l.pod = over.pod /\ l.container = over.container /\ l.pvc = over.pvc
      BY <2>1 DEF Limits, MergeFlag, Flag
    <2> QED
      BY <2>2 DEF Bounds
  <1>2. CASE base # Unset
    <2>1. base \in Limits
      BY <1>2
    <2>2. l.enabled \in Flag
      <3>1. /\ l.enabled = MergeFlag(base.enabled, over.enabled)
            /\ base.enabled \in Flag /\ over.enabled \in Flag
        BY <1>2, <2>1 DEF MergeLimits, Limits
      <3> QED
        BY <3>1 DEF MergeFlag, Flag
    <2>3. /\ l.pod \in Opt([MinMax -> Opt(AmountSpec)])
          /\ InBlock(l.pod) \subseteq InBlock(base.pod) \cup InBlock(over.pod)
      <3>1. /\ l.pod = MergeBounds(base.pod, over.pod)
            /\ base.pod \in Opt([MinMax -> Opt(AmountSpec)])
            /\ over.pod \in Opt([MinMax -> Opt(AmountSpec)])
        BY <1>2, <2>1 DEF MergeLimits, Limits
      <3>2. Unset \notin [MinMax -> Opt(AmountSpec)]
        BY SizingAssumption
      <3> QED
        BY <3>1, <3>2, MergedBounds DEF AmountSpec
    <2>4. /\ l.container \in Opt([ContainerBounds -> Opt(AmountSpec)])
          /\ InBlock(l.container) \subseteq InBlock(base.container) \cup InBlock(over.container)
      <3>1. /\ l.container = MergeBounds(base.container, over.container)
            /\ base.container \in Opt([ContainerBounds -> Opt(AmountSpec)])
            /\ over.container \in Opt([ContainerBounds -> Opt(AmountSpec)])
        BY <1>2, <2>1 DEF MergeLimits, Limits
      <3>2. Unset \notin [ContainerBounds -> Opt(AmountSpec)]
        BY SizingAssumption
      <3> QED
        BY <3>1, <3>2, MergedBounds DEF AmountSpec
    <2>5. /\ l.pvc \in Opt([MinMax -> Opt(StorageSpec)])
          /\ InBlock(l.pvc) \subseteq InBlock(base.pvc) \cup InBlock(over.pvc)
      <3>1. /\ l.pvc = MergeBounds(base.pvc, over.pvc)
            /\ base.pvc \in Opt([MinMax -> Opt(StorageSpec)])
            /\ over.pvc \in Opt([MinMax -> Opt(StorageSpec)])
        BY <1>2, <2>1 DEF MergeLimits, Limits
      <3>2. Unset \notin [MinMax -> Opt(StorageSpec)]
        BY SizingAssumption
      <3> QED
        BY <3>1, <3>2, MergedBounds DEF StorageSpec
    <2>6. l \in Limits
      BY <1>2, <2>2, <2>3, <2>4, <2>5 DEF Limits, MergeLimits
    <2> QED
      BY <1>2, <2>3, <2>4, <2>5, <2>6 DEF Bounds
  <1> QED
    BY <1>1, <1>2

\* What is in a limit range is a quantity.
LEMMA BoundsAreQuantities ==
    ASSUME NEW l \in Limits, NEW rq \in Bounds(l)
    PROVE  rq[2] \in Quantity
  <1>1. /\ l.pod \in Opt([MinMax -> Opt(AmountSpec)])
        /\ l.container \in Opt([ContainerBounds -> Opt(AmountSpec)])
        /\ l.pvc \in Opt([MinMax -> Opt(StorageSpec)])
    BY DEF Limits
  <1>2. rq[2] # Unset /\ rq \in InBlock(l.pod) \cup InBlock(l.container) \cup InBlock(l.pvc)
    BY DEF Bounds
  <1>3. CASE rq \in InBlock(l.pod)
    BY <1>1, <1>2, <1>3, InBlockIs DEF AmountSpec
  <1>4. CASE rq \in InBlock(l.container)
    BY <1>1, <1>2, <1>4, InBlockIs DEF AmountSpec
  <1>5. CASE rq \in InBlock(l.pvc)
    BY <1>1, <1>2, <1>5, InBlockIs DEF StorageSpec
  <1> QED
    BY <1>2, <1>3, <1>4, <1>5

-----------------------------------------------------------------------------
(* The types of what is computed.                                          *)

\* Switching a quota on changes nothing it gives.
LEMMA EnsuredQuota ==
    ASSUME NEW b \in Quotas
    PROVE  /\ EnsureEnabled(b) \in Quotas
           /\ \A k \in QuantityKeys : Given(EnsureEnabled(b), k) = Given(b, k)
           /\ EnsureEnabled(b).classes = b.classes
  <1>1. EnsureEnabled(b) = [b EXCEPT !.enabled = MergeFlag(b.enabled, "unset")]
    BY SizingAssumption DEF EnsureEnabled
  <1>2. /\ EnsureEnabled(b) \in Quotas
        /\ EnsureEnabled(b).amounts = b.amounts /\ EnsureEnabled(b).limits = b.limits
        /\ EnsureEnabled(b).requests = b.requests /\ EnsureEnabled(b).classes = b.classes
    BY <1>1 DEF Quotas, MergeFlag, Flag
  <1> QED
    BY <1>2 DEF Given, QuantityKeys

\* Nor does it change the bounds of a limit range.
LEMMA EnsuredLimits ==
    ASSUME NEW b \in Limits
    PROVE  EnsureEnabled(b) \in Limits /\ Bounds(EnsureEnabled(b)) = Bounds(b)
  <1>1. EnsureEnabled(b) = [b EXCEPT !.enabled = MergeFlag(b.enabled, "unset")]
    BY SizingAssumption DEF EnsureEnabled
  <1>2. /\ EnsureEnabled(b) \in Limits
        /\ EnsureEnabled(b).pod = b.pod /\ EnsureEnabled(b).container = b.container
        /\ EnsureEnabled(b).pvc = b.pvc
    BY <1>1 DEF Limits, MergeFlag, Flag
  <1> QED
    BY <1>2 DEF Bounds

\* Whatever is resolved comes from the entry or from the size.
LEMMA ResolvedQuota ==
    ASSUME NEW e \in Entry, NEW t \in SizeSpec, NEW q, q = Resolve(e, t).quota, q # Unset
    PROVE  /\ q \in Quotas
           /\ \A k \in QuantityKeys : \/ e.quota # Unset /\ Given(q, k) = Given(e.quota, k)
                                      \/ t.quota # Unset /\ Given(q, k) = Given(t.quota, k)
           /\ \A k \in ClassKeys : \/ e.quota # Unset /\ q.classes[k] = e.quota.classes[k]
                                   \/ t.quota # Unset /\ q.classes[k] = t.quota.classes[k]
  <1>1. e.quota \in Opt(Quotas) /\ t.quota \in Opt(Quotas)
    BY DEF Entry, SizeSpec
  <1>2. CASE e.size = Unset
    BY <1>1, <1>2 DEF Resolve
  <1>3. CASE e.size # Unset /\ e.overwrite = "on"
    <2>1. e.quota # Unset /\ q = MergeQuota(t.quota, e.quota)
      BY <1>3 DEF Resolve, AppliesTShirt
    <2> QED
      BY <1>1, <2>1, MergedQuota
  <1>4. CASE e.size # Unset /\ e.overwrite # "on"
    <2>1. q = EnsureEnabled(t.quota)
      BY <1>4 DEF Resolve
    <2>2. t.quota \in Quotas
      BY <1>1, <2>1 DEF EnsureEnabled
    <2>3. t.quota # Unset
      BY <2>2, SizingAssumption
    <2> QED
      BY <2>1, <2>2, <2>3, EnsuredQuota
  <1> QED
    BY <1>2, <1>3, <1>4

\* A resolved limit range holds quantities of the entry or of its size.
LEMMA ResolvedLimits ==
    ASSUME NEW e \in Entry, NEW t \in SizeSpec, NEW l, l = Resolve(e, t).limits, l # Unset
    PROVE  /\ l \in Limits
           /\ \A rq \in Bounds(l) : \/ e.limits # Unset /\ rq \in Bounds(e.limits)
                                    \/ t.limits # Unset /\ rq \in Bounds(t.limits)
  <1>1. e.limits \in Opt(Limits) /\ t.limits \in Opt(Limits)
    BY DEF Entry, SizeSpec
  <1>2. CASE e.size = Unset
    BY <1>1, <1>2 DEF Resolve
  <1>3. CASE e.size # Unset /\ e.overwrite = "on"
    <2>1. e.limits # Unset /\ l = MergeLimits(t.limits, e.limits)
      BY <1>3 DEF Resolve, AppliesTShirt
    <2> QED
      BY <1>1, <2>1, MergedLimits
  <1>4. CASE e.size # Unset /\ e.overwrite # "on"
    <2>1. l = EnsureEnabled(t.limits)
      BY <1>4 DEF Resolve
    <2>2. t.limits \in Limits
      BY <1>1, <2>1 DEF EnsureEnabled
    <2>3. t.limits # Unset
      BY <2>2, SizingAssumption
    <2> QED
      BY <2>1, <2>2, <2>3, EnsuredLimits
  <1> QED
    BY <1>2, <1>3, <1>4

\* What a ResourceQuota gets is a number, or nothing, under each key.
LEMMA HardType ==
    ASSUME NEW q \in Quotas
    PROVE  Hard(q) \in [HardKeys -> Opt(Int)]
  <1>1. /\ q.counts \in [Counts -> Opt(Int)] /\ q.amounts \in [Amounts -> Opt(Quantity)]
        /\ q.classes \in [ClassKeys -> Opt(Quantity)]
        /\ q.limits \in Opt([LimitKeys -> Opt(Quantity)])
        /\ q.requests \in Opt([RequestKeys -> Opt(Quantity)])
    BY DEF Quotas
  <1>2. ASSUME NEW k \in QuantityKeys
        PROVE  Given(q, k) \in Opt(Quantity)
    BY <1>1, GivenBy DEF QuantityKeys
  <1>3. ASSUME NEW v \in Opt(Quantity)
        PROVE  Number(v) \in Opt(Int) /\ (v # Unset => v.n \in Int)
    BY DEF Number, Quantity
  <1>4. ASSUME NEW k \in HardKeys
        PROVE  Hard(q)[k] \in Opt(Int)
    <2>1. CASE k \in ClassKeys /\ q.classes[k] # Unset
      BY <1>1, <1>3, <2>1 DEF Hard
    <2>2. CASE ~(k \in ClassKeys /\ q.classes[k] # Unset) /\ k \in Counts
      BY <1>1, <2>2 DEF Hard
    <2>3. CASE ~(k \in ClassKeys /\ q.classes[k] # Unset) /\ k \notin Counts /\ k \in QuantityKeys
      BY <1>2, <1>3, <2>3 DEF Hard
    <2>4. CASE ~(k \in ClassKeys /\ q.classes[k] # Unset) /\ k \notin Counts /\ k \notin QuantityKeys
      BY <2>4 DEF Hard
    <2> QED
      BY <2>1, <2>2, <2>3, <2>4
  <1> QED
    BY <1>4 DEF Hard

\* So is what a LimitRange gets, block by block.
LEMMA NumbersType ==
    ASSUME NEW D, NEW R, NEW block, block \in [D -> Opt([R -> Opt(Quantity)])], Unset \notin [R -> Opt(Quantity)]
    PROVE  [b \in DOMAIN block |->
              IF block[b] = Unset THEN Unset
              ELSE [r \in DOMAIN block[b] |-> Number(block[b][r])]]
           \in [D -> Opt([R -> Opt(Int)])]
  <1>1. ASSUME NEW b \in D, block[b] # Unset
        PROVE  [r \in DOMAIN block[b] |-> Number(block[b][r])] \in [R -> Opt(Int)]
    <2>1. block[b] \in [R -> Opt(Quantity)]
      BY <1>1
    <2>2. \A v \in Opt(Quantity) : Number(v) \in Opt(Int)
      BY DEF Number, Quantity
    <2> QED
      BY <2>1, <2>2
  <1> QED
    BY <1>1

\* And its items taken together.
LEMMA ItemsType ==
    ASSUME NEW l \in Limits
    PROVE  Items(l) \in LimitItems
  <1>1. /\ l.pod \in Opt([MinMax -> Opt(AmountSpec)])
        /\ l.container \in Opt([ContainerBounds -> Opt(AmountSpec)])
        /\ l.pvc \in Opt([MinMax -> Opt(StorageSpec)])
    BY DEF Limits
  <1>2. Unset \notin AmountSpec /\ Unset \notin StorageSpec
    BY SizingAssumption
  <1>3. Items(l).pod \in Opt([MinMax -> Opt(Amounted)])
    <2>1. CASE l.pod = Unset
      BY <2>1 DEF Items
    <2>2. CASE l.pod # Unset
      BY <1>1, <1>2, <2>2, NumbersType DEF Items, AmountSpec, Amounted
    <2> QED
      BY <2>1, <2>2
  <1>4. Items(l).container \in Opt([ContainerBounds -> Opt(Amounted)])
    <2>1. CASE l.container = Unset
      BY <2>1 DEF Items
    <2>2. CASE l.container # Unset
      BY <1>1, <1>2, <2>2, NumbersType DEF Items, AmountSpec, Amounted
    <2> QED
      BY <2>1, <2>2
  <1>5. Items(l).pvc \in Opt([MinMax -> Opt([{"storage"} -> Opt(Int)])])
    <2>1. CASE l.pvc = Unset
      BY <2>1 DEF Items
    <2>2. CASE l.pvc # Unset
      BY <1>1, <1>2, <2>2, NumbersType DEF Items, StorageSpec
    <2> QED
      BY <2>1, <2>2
  <1> QED
    BY <1>3, <1>4, <1>5 DEF Items, LimitItems

\* The settings a pass works with are settings, and keep the Argo CD namespace a PO names.
LEMMA EffectiveType ==
    ASSUME NEW cm \in Defaults, NEW own \in Opt(GitOpsSpec)
    PROVE  /\ EffectiveGitOps(cm, own) \in Opt(GitOpsSpec)
           /\ own # Unset /\ own.applicationNamespace # Unset =>
                 /\ EffectiveGitOps(cm, own) # Unset
                 /\ EffectiveGitOps(cm, own).applicationNamespace = own.applicationNamespace
  <1> DEFINE base == Loaded(cm)
  <1>1. base \in Opt(GitOpsSpec)
    BY DEF Loaded, Defaults
  <1>2. CASE base = Unset \/ own = Unset
    BY <1>1, <1>2 DEF EffectiveGitOps, MergeBlock
  <1>3. CASE base # Unset /\ own # Unset
    <2>1. base \in GitOpsSpec /\ own \in GitOpsSpec
      BY <1>1, <1>3
    <2>2. EffectiveGitOps(cm, own) =
             [f \in {"applicationNamespace"} \cup ProjectFields |->
                IF own[f] # Unset THEN own[f] ELSE base[f]]
      BY <1>3, <2>1 DEF EffectiveGitOps, MergeBlock, MergeFields, GitOpsSpec, ProjectFields
    <2>3. EffectiveGitOps(cm, own) \in GitOpsSpec
      BY <2>1, <2>2 DEF GitOpsSpec, ProjectFields
    <2> QED
      BY <2>1, <2>2, <2>3, GitOpsAssumption
  <1> QED
    BY <1>2, <1>3

\* An AppProject that is asked for is an AppProject.
LEMMA DesiredType ==
    ASSUME NEW pr \in Project, NEW g \in Opt(GitOpsSpec)
    PROVE  Desired(pr, g) \in AppProject
  <1>1. ASSUME NEW f \in ProjectFields, NEW last
        PROVE  ResolveList(pr, g, f, last) \in Lists \cup {last}
    <2>1. pr.given[f] \in Opt(Lists)
      BY DEF Project
    <2>2. g # Unset => g[f] \in Opt(Lists)
      BY DEF GitOpsSpec, ProjectFields
    <2> QED
      BY <2>1, <2>2 DEF ResolveList
  <1>2. pr.roleGroups \in Opt(Lists)
    BY DEF Project
  <1>3. /\ ResolveList(pr, g, "destinations", Unset) \in Opt(Lists)
        /\ ResolveList(pr, g, "sourceRepos", "*") \in Lists \cup {"*"}
        /\ ResolveList(pr, g, "sourceNamespaces", "*") \in Lists \cup {"*"}
        /\ ResolveList(pr, g, "oidcGroups", "dummy-group") \in Lists \cup {"dummy-group"}
    BY <1>1 DEF ProjectFields
  <1> QED
    BY <1>2, <1>3 DEF Desired, AppProject

\* Its namespace is one of the Argo CD namespaces, or not known.
LEMMA ArgoNamespaceType ==
    ASSUME NEW e \in Entry, NEW g \in Opt(GitOpsSpec)
    PROVE  ArgoNamespace(e, g) \in Opt(ArgoNamespaces)
  BY DEF ArgoNamespace, Entry, GitOpsSpec

\* The labels a namespace should have are labels, its own among them.
LEMMA DesiredLabelsType ==
    ASSUME NEW e \in Entry, NEW g \in Opt(GitOpsSpec)
    PROVE  /\ DesiredLabels(e, g) \in Labels
           /\ \A k \in LabelKeys : OwnLabels(e, g)[k] # Unset =>
                 DesiredLabels(e, g)[k] = OwnLabels(e, g)[k]
  <1> DEFINE V == Opt(LabelValues) \cup SizeNames \cup ArgoNamespaces
                     \cup {"ours", "true", "false", "name"}
  <1>1. ManagedLabels \in [LabelKeys -> V]
    BY DEF ManagedLabels
  <1>2. e.labels \in [LabelKeys -> V] /\ e.additional \in [LabelKeys -> V]
    BY DEF Entry
  <1>3. OwnLabels(e, g) \in [LabelKeys -> V]
    <2>1. /\ e.podSecurity \in [PodSecurity -> Opt(LabelValues)] /\ e.size \in Opt(SizeNames)
          /\ ArgoNamespace(e, g) \in Opt(ArgoNamespaces)
      BY ArgoNamespaceType DEF Entry
    <2>2. \A k \in PodSecurity : e.podSecurity[k] \in V
      BY <2>1
    <2> QED
      BY <2>1, <2>2 DEF OwnLabels
  <1>4. \A base, over \in [LabelKeys -> V] :
           /\ MergeFields(base, over) \in [LabelKeys -> V]
           /\ \A k \in LabelKeys : over[k] # Unset => MergeFields(base, over)[k] = over[k]
    BY DEF MergeFields
  <1> HIDE DEF V
  <1> DEFINE first == MergeFields(ManagedLabels, e.labels)
             second == MergeFields(first, e.additional)
  <1>5. first \in [LabelKeys -> V]
    BY <1>1, <1>2, <1>4
  <1>6. second \in [LabelKeys -> V]
    BY <1>2, <1>4, <1>5
  <1> HIDE DEF second
  <1>7. /\ MergeFields(second, OwnLabels(e, g)) \in [LabelKeys -> V]
        /\ \A k \in LabelKeys : OwnLabels(e, g)[k] # Unset =>
              MergeFields(second, OwnLabels(e, g))[k] = OwnLabels(e, g)[k]
    BY <1>3, <1>4, <1>6
  <1> QED
    BY <1>7 DEF second, V, DesiredLabels, Labels

-----------------------------------------------------------------------------
(* Types.                                                                  *)

ControlOK ==
    /\ queued \in BOOLEAN /\ pc \in Stages
    /\ outcome \in {"none", "ready", "failed", "panicked"}
    /\ upsets \in 0..MaxUpsets

PassOK ==
    pass \in [entry : Entries, gitops : Opt(GitOpsSpec), size : SizeSpecs \cup {NoSize},
              todo : SUBSET Projects]

\* Only enabled projects are left to write.
TodoOK == pc = "projects" => pass.todo \subseteq EnabledProjects(pass.entry)

\* No size counts as an empty size.
LEMMA NoSizeIsSize == NoSize \in SizeSpec
  BY DEF NoSize, SizeSpec

\* What the pass holds is of the types the builders take.
LEMMA Held ==
    ASSUME TypeOK
    PROVE  /\ pass.entry \in Entry /\ pass.gitops \in Opt(GitOpsSpec) /\ pass.size \in SizeSpec
           /\ Resolved.quota \in Opt(Quotas) /\ Resolved.limits \in Opt(Limits)
           /\ entry \in Entry
  <1>1. /\ pass.entry \in Entry /\ pass.gitops \in Opt(GitOpsSpec) /\ pass.size \in SizeSpec
        /\ entry \in Entry
    BY NoSizeIsSize, ContentAssumption DEF TypeOK
  <1>2. Resolved.quota # Unset => Resolved.quota \in Quotas
    BY <1>1, ResolvedQuota DEF Resolved
  <1>3. Resolved.limits # Unset => Resolved.limits \in Limits
    BY <1>1, ResolvedLimits DEF Resolved
  <1> QED
    BY <1>1, <1>2, <1>3

\* The answer to a call, or its loss, keeps the types of what controls the pass.
LEMMA AnsweredOK ==
    ASSUME ControlOK, NEW stage \in Stages, Answered(stage)
    PROVE  ControlOK'
  <1>1. MaxUpsets \in Nat
    BY ContentAssumption
  <1>2. CASE Goes(stage) /\ UNCHANGED upsets
    BY <1>2 DEF Goes, ControlOK
  <1>3. CASE Upset /\ Ends("failed")
    BY <1>1, <1>3 DEF Upset, Ends, ControlOK, Stages
  <1> QED
    BY <1>2, <1>3 DEF Answered

\* A merge patch keeps the type of the object it changes.
LEMMA PatchOK ==
    ASSUME NEW D, NEW T, NEW kind, NEW want, want \in [D -> T], obj[kind] \in Opt([D -> T])
    PROVE  Merged(kind, want) \in [D -> T]
  BY DEF Merged

\* A write of one kind keeps the types of all of them.
LEMMA PutOK ==
    ASSUME TypeOK, NEW kind \in {"labels", "quota", "limits"}, NEW new,
           kind = "labels" => new \in Opt(Labels),
           kind = "quota" => new \in Opt([HardKeys -> Opt(Int)]),
           kind = "limits" => new \in Opt(LimitItems),
           obj' = [obj EXCEPT ![kind] = new]
    PROVE  obj' \in Objects
  BY DEF TypeOK, Objects

\* The initial state is well typed.
LEMMA TypeInit == Init => TypeOK
  <1> SUFFICES ASSUME Init PROVE TypeOK
    OBVIOUS
  <1>1. ControlOK
    BY ContentAssumption DEF Init, ControlOK, Stages
  <1>2. obj \in Objects /\ seen \in Objects
    BY DEF Init, Nothing, Objects
  <1>3. projects \in [ArgoNamespaces \X Projects -> Opt(AppProject)]
    BY DEF Init
  <1>4. entry \in Entries /\ sizes \in [SizeNames -> SizeSpecs] /\ defaults \in DefaultsVersions
    BY ContentAssumption DEF Init
  <1>5. PassOK
    BY <1>4 DEF Init, PassOK
  <1> QED
    BY <1>1, <1>2, <1>3, <1>4, <1>5 DEF TypeOK, ControlOK, PassOK

\* Every step keeps the types.
LEMMA TypeStep ==
    ASSUME TypeOK, TodoOK, [Next]_vars
    PROVE  TypeOK'
  <1>0. ControlOK /\ PassOK /\ MaxUpsets \in Nat
    BY ContentAssumption DEF TypeOK, ControlOK, PassOK
  <1>1. CASE EditEntry
    BY <1>0, <1>1 DEF EditEntry, Upset, TypeOK
  <1>2. CASE EditDefaults
    BY <1>0, <1>2 DEF EditDefaults, Upset, TypeOK
  <1>3. ASSUME NEW s \in SizeNames, EditSize(s) PROVE TypeOK'
    BY <1>0, <1>3 DEF EditSize, Upset, TypeOK
  <1>4. ASSUME NEW kind \in {"labels", "quota", "limits"}, Sync(kind) PROVE TypeOK'
    <2>1. seen' \in Objects
      BY <1>4 DEF Sync, TypeOK, Objects
    <2>2. queued' \in BOOLEAN
      BY <1>4 DEF Sync
    <2> QED
      BY <1>4, <2>1, <2>2 DEF Sync, TypeOK, wishes
  <1>5. CASE Resync
    BY <1>5 DEF Resync, TypeOK, wishes
  <1>6. CASE Start
    BY <1>0, <1>6 DEF Start, TypeOK, wishes, Stages
  <1>7. CASE Load
    <2>1. pass' \in [entry : Entries, gitops : Opt(GitOpsSpec), size : SizeSpecs \cup {NoSize},
                     todo : SUBSET Projects]
      <3>1. defaults \in Defaults /\ pass.entry.gitops \in Opt(GitOpsSpec)
        BY Held, ContentAssumption DEF TypeOK, Entry
      <3>2. EffectiveGitOps(defaults, pass.entry.gitops) \in Opt(GitOpsSpec)
        BY <3>1, EffectiveType
      <3> QED
        BY <1>0, <1>7, <3>2 DEF Load, PassOK
    <2>2. ControlOK'
      BY <1>0, <1>7 DEF Load, Ends, Goes, ControlOK, Stages
    <2> QED
      BY <1>7, <2>1, <2>2 DEF Load, TypeOK, ControlOK, wishes
  <1>8. CASE ReadSize
    <2>1. PassOK'
      <3>1. pass.entry.size \in Opt(SizeNames)
        BY Held DEF Entry
      <3>2. pass.entry.size # Unset => sizes[pass.entry.size] \in SizeSpecs
        BY <3>1 DEF TypeOK
      <3> QED
        BY <1>0, <1>8, <3>2 DEF ReadSize, PassOK
    <2>2. ControlOK'
      BY <1>0, <1>8 DEF ReadSize, Goes, ControlOK, Stages
    <2> QED
      BY <1>8, <2>1, <2>2 DEF ReadSize, TypeOK, ControlOK, PassOK, wishes
  <1>9. CASE WriteNamespace
    <2> DEFINE want == DesiredLabels(pass.entry, pass.gitops)
               kept == IF seen.labels = Unset THEN want ELSE MergeFields(seen.labels, want)
    <2>1. obj.labels \in Opt(Labels) /\ seen.labels \in Opt(Labels)
      BY DEF TypeOK, Objects
    <2>2. kept \in Labels
      BY <2>1, Held, DesiredLabelsType DEF Labels, MergeFields
    <2> HIDE DEF kept
    <2>3. Merged("labels", kept) \in Labels
      BY <2>1, <2>2 DEF Merged, Labels
    <2>4. obj' \in Objects
      <3>1. CASE Misled("labels")
        BY <1>9, <3>1 DEF WriteNamespace, Fails, TypeOK
      <3>2. CASE ~Misled("labels")
        <4>1. obj' = [obj EXCEPT !["labels"] = Merged("labels", kept)]
          BY <1>9, <3>2 DEF WriteNamespace, Writes, kept
        <4> QED
          BY <2>3, <4>1, PutOK
      <3> QED
        BY <3>1, <3>2
    <2>5. ControlOK'
      <3>1. CASE Fails("failed")
        BY <1>0, <3>1 DEF Fails, Ends, ControlOK, Stages
      <3>2. CASE Answered("quota")
        BY <1>0, <3>2, AnsweredOK DEF Stages
      <3> QED
        BY <1>9, <3>1, <3>2 DEF WriteNamespace, Writes
    <2> QED
      BY <1>9, <2>4, <2>5 DEF WriteNamespace, TypeOK, ControlOK, wishes
  <1>10. CASE WriteQuota
    <2>1. IsOn(Resolved.quota) => Hard(Resolved.quota) \in [HardKeys -> Opt(Int)]
      BY Held, HardType DEF IsOn
    <2>2. obj.quota \in Opt([HardKeys -> Opt(Int)])
      BY DEF TypeOK, Objects
    <2>3. UNCHANGED obj => obj' \in Objects
      BY DEF TypeOK
    <2>4. ASSUME IsOn(Resolved.quota),
                 obj' = [obj EXCEPT !["quota"] = Merged("quota", Hard(Resolved.quota))]
          PROVE  obj' \in Objects
      <3>1. Merged("quota", Hard(Resolved.quota)) \in [HardKeys -> Opt(Int)]
        BY <2>1, <2>2, <2>4 DEF Merged
      <3> QED
        BY <2>4, <3>1, PutOK
    <2>5. obj' \in Objects
      BY <1>10, <2>3, <2>4 DEF WriteQuota, Skips, Fails, Writes, TypeOK
    <2>6. ControlOK'
      <3>1. CASE Fails("failed") \/ Fails("panicked") \/ Skips("limits")
        BY <1>0, <3>1 DEF Fails, Skips, Goes, Ends, ControlOK, Stages
      <3>2. CASE Answered("limits")
        BY <1>0, <3>2, AnsweredOK DEF Stages
      <3> QED
        BY <1>10, <3>1, <3>2 DEF WriteQuota, Writes
    <2> QED
      BY <1>10, <2>5, <2>6 DEF WriteQuota, TypeOK, ControlOK, wishes
  <1>11. CASE WriteLimits
    <2>1. IsOn(Resolved.limits) => Items(Resolved.limits) \in LimitItems
      BY Held, ItemsType DEF IsOn
    <2>2. obj.limits \in Opt(LimitItems)
      BY DEF TypeOK, Objects
    <2>3. UNCHANGED obj => obj' \in Objects
      BY DEF TypeOK
    <2>4. ASSUME NEW new \in Opt(LimitItems), obj' = [obj EXCEPT !["limits"] = new]
          PROVE  obj' \in Objects
      BY <2>4, PutOK
    <2>5. obj' \in Objects
      BY <1>11, <2>1, <2>2, <2>3, <2>4 DEF WriteLimits, Skips, Fails, Writes, TypeOK
    <2>6. ControlOK'
      <3>1. CASE Fails("failed") \/ Fails("panicked") \/ Skips("projects")
        BY <1>0, <3>1 DEF Fails, Skips, Goes, Ends, ControlOK, Stages
      <3>2. CASE Answered("projects")
        BY <1>0, <3>2, AnsweredOK DEF Stages
      <3> QED
        BY <1>11, <3>1, <3>2 DEF WriteLimits, Writes
    <2>7. PassOK'
      BY <1>0, <1>11 DEF WriteLimits, PassOK, EnabledProjects
    <2> QED
      BY <1>11, <2>5, <2>6, <2>7 DEF WriteLimits, TypeOK, ControlOK, PassOK, wishes
  <1>12. CASE NowhereToGo
    BY <1>0, <1>12 DEF NowhereToGo, Ends, TypeOK, wishes, Stages
  <1>13. ASSUME NEW a \in Projects, WriteProject(a) PROVE TypeOK'
    <2>1. ControlOK'
      BY <1>0, <1>13, AnsweredOK DEF WriteProject, Stages
    <2>2. PassOK'
      BY <1>0, <1>13 DEF WriteProject, PassOK
    <2>3. projects' \in [ArgoNamespaces \X Projects -> Opt(AppProject)]
      <3>1. pass.entry.projects[a] \in Project
        <4>1. pass.entry.projects[a] \in Opt(Project)
          BY Held DEF Entry
        <4>2. a \in EnabledProjects(pass.entry)
          BY <1>13 DEF WriteProject, TodoOK
        <4> QED
          BY <4>1, <4>2 DEF EnabledProjects
      <3>2. Desired(pass.entry.projects[a], pass.gitops) \in AppProject
        BY <3>1, Held, DesiredType
      <3> QED
        BY <1>13, <3>2 DEF WriteProject, TypeOK
    <2> QED
      BY <1>13, <2>1, <2>2, <2>3 DEF WriteProject, TypeOK, ControlOK, PassOK, wishes
  <1>14. CASE ProjectsWritten
    BY <1>0, <1>14 DEF ProjectsWritten, Goes, TypeOK, wishes, Stages
  <1>15. CASE PruneQuota \/ PruneLimits
    <2>1. obj' \in Objects
      <3>1. CASE UNCHANGED obj
        BY <3>1 DEF TypeOK
      <3>2. CASE obj' = [obj EXCEPT !["quota"] = Unset] \/ obj' = [obj EXCEPT !["limits"] = Unset]
        BY <3>2, PutOK
      <3> QED
        BY <1>15, <3>1, <3>2 DEF PruneQuota, PruneLimits, Skips, Writes
    <2>2. ControlOK'
      <3>1. CASE Skips("pruneLimits") \/ Skips("pruneProjects")
        BY <1>0, <3>1 DEF Skips, Goes, ControlOK, Stages
      <3>2. CASE Answered("pruneLimits") \/ Answered("pruneProjects")
        BY <1>0, <3>2, AnsweredOK DEF Stages
      <3> QED
        BY <1>15, <3>1, <3>2 DEF PruneQuota, PruneLimits, Writes
    <2> QED
      BY <1>15, <2>1, <2>2 DEF PruneQuota, PruneLimits, TypeOK, ControlOK, wishes
  <1>16. CASE PruneProjects
    <2>1. ControlOK'
      <3>1. CASE Ends("ready") /\ UNCHANGED upsets
        BY <1>0, <3>1 DEF Ends, ControlOK, Stages
      <3>2. CASE Upset /\ Ends("failed")
        BY <1>0, <3>2 DEF Ends, Upset, ControlOK, Stages
      <3> QED
        BY <1>16, <3>1, <3>2 DEF PruneProjects
    <2>2. projects' \in [ArgoNamespaces \X Projects -> Opt(AppProject)]
      BY <1>16 DEF PruneProjects, TypeOK
    <2> QED
      BY <1>16, <2>1, <2>2 DEF PruneProjects, TypeOK, ControlOK, wishes
  <1>17. CASE CallFails
    BY <1>0, <1>17 DEF CallFails, Upset, Ends, TypeOK, wishes, Stages
  <1>18. CASE UNCHANGED vars
    BY <1>18 DEF vars, wishes, TypeOK
  <1> QED
    BY <1>1, <1>2, <1>3, <1>4, <1>5, <1>6, <1>7, <1>8, <1>9, <1>10, <1>11, <1>12, <1>13,
       <1>14, <1>15, <1>16, <1>17, <1>18 DEF Next, Pass, Synced

\* What a pass has still to do are AppProjects of the entry it works on.
LEMMA TodoStep ==
    ASSUME TypeOK, TodoOK, [Next]_vars
    PROVE  TodoOK'
  <1>0. PassOK
    BY DEF TypeOK, PassOK
  <1>1. CASE EditEntry \/ EditDefaults \/ (\E s \in SizeNames : EditSize(s)) \/ Synced \/ Resync
             \/ UNCHANGED vars
    BY <1>1 DEF EditEntry, EditDefaults, EditSize, Synced, Sync, Resync, TodoOK, vars
  <1>2. CASE Start \/ Load \/ ReadSize \/ NowhereToGo \/ ProjectsWritten \/ PruneProjects \/ CallFails
    BY <1>2 DEF Start, Load, ReadSize, NowhereToGo, ProjectsWritten, PruneProjects, CallFails,
                Goes, Ends, TodoOK
  <1>3. CASE WriteNamespace \/ WriteQuota \/ PruneQuota \/ PruneLimits
    BY <1>3 DEF WriteNamespace, WriteQuota, PruneQuota, PruneLimits, Writes, Skips, Fails,
                Answered, Goes, Ends, TodoOK
  <1>4. CASE WriteLimits
    BY <1>0, <1>4 DEF WriteLimits, PassOK, TodoOK
  <1>5. ASSUME NEW a \in Projects, WriteProject(a) PROVE TodoOK'
    BY <1>0, <1>5 DEF WriteProject, PassOK, TodoOK
  <1> QED
    BY <1>1, <1>2, <1>3, <1>4, <1>5 DEF Next, Pass

\* Every variable has its type, whatever entries, sizes and ConfigMaps users
\* may write.
THEOREM TypeCorrect == Spec => []TypeOK
  <1>1. Init => TypeOK /\ TodoOK
    BY TypeInit DEF Init, TodoOK
  <1>2. TypeOK /\ TodoOK /\ [Next]_vars => TypeOK' /\ TodoOK'
    BY TypeStep, TodoStep
  <1> QED
    BY <1>1, <1>2, PTL DEF Spec

-----------------------------------------------------------------------------
(* What was admitted.                                                      *)

Admitted ==
    /\ ValidSizing(entry) /\ ValidGitOps(entry)
    /\ \A s \in SizeNames : ValidSizing(sizes[s])
    /\ ValidSizing(pass.entry) /\ ValidGitOps(pass.entry)
    /\ ValidSizing(pass.size)

\* The Argo CD namespace a PO names is not lost in the defaults.
NamedHolds ==
    LET own == pass.entry.gitops
    IN  pc \notin {"idle", "load"} /\ own # Unset /\ own.applicationNamespace # Unset =>
           /\ pass.gitops # Unset
           /\ pass.gitops.applicationNamespace = own.applicationNamespace

\* What is there at first has passed admission.
LEMMA AdmittedInit == Init => Admitted /\ NamedHolds
  <1> SUFFICES ASSUME Init PROVE Admitted /\ NamedHolds
    OBVIOUS
  <1>1. \A s \in SizeNames : ValidSizing(sizes[s])
    BY DEF Init, AdmitSize
  <1>2. ValidSizing(entry) /\ ValidGitOps(entry)
    BY DEF Init, AdmitEntry
  <1>3. pass.entry = entry /\ pass.size = NoSize /\ pc = "idle"
    BY DEF Init
  <1>4. ValidSizing(NoSize)
    BY DEF ValidSizing, NoSize
  <1> QED
    BY <1>1, <1>2, <1>3, <1>4 DEF Admitted, NamedHolds

\* What users store later has passed it, too, and so has what a pass reads.
LEMMA AdmittedStep ==
    ASSUME TypeOK, Admitted, NamedHolds, [Next]_vars
    PROVE  Admitted' /\ NamedHolds'
  <1>0. PassOK /\ sizes \in [SizeNames -> SizeSpecs]
    BY DEF TypeOK, PassOK
  <1>1. CASE EditEntry
    BY <1>1 DEF EditEntry, AdmitEntry, Admitted, NamedHolds
  <1>2. ASSUME NEW s \in SizeNames, EditSize(s) PROVE Admitted' /\ NamedHolds'
    BY <1>0, <1>2 DEF EditSize, AdmitSize, Admitted, NamedHolds
  <1>3. CASE EditDefaults \/ Synced \/ Resync \/ CallFails \/ UNCHANGED vars
    BY <1>3 DEF EditDefaults, Synced, Sync, Resync, CallFails, Ends, vars, wishes,
                Admitted, NamedHolds
  <1>4. CASE Start
    BY <1>0, <1>4 DEF Start, PassOK, Admitted, NamedHolds, wishes
  <1>5. CASE Load
    <2>1. UNCHANGED <<entry, sizes, pass.entry, pass.size>>
      BY <1>0, <1>5 DEF Load, PassOK, wishes
    <2>2. Admitted'
      BY <2>1 DEF Admitted
    <2>3. CASE defaults.state = "broken"
      BY <1>5, <2>2, <2>3 DEF Load, Ends, NamedHolds
    <2>4. CASE defaults.state # "broken"
      <3>1. pass'.gitops = EffectiveGitOps(defaults, pass.entry.gitops)
        BY <1>0, <1>5, <2>4 DEF Load, PassOK
      <3>2. defaults \in Defaults /\ pass.entry.gitops \in Opt(GitOpsSpec)
        BY Held, ContentAssumption DEF TypeOK, Entry
      <3> QED
        BY <2>1, <2>2, <3>1, <3>2, EffectiveType DEF NamedHolds
    <2> QED
      BY <2>2, <2>3, <2>4
  <1>6. CASE ReadSize
    <2>1. ValidSizing(NoSize)
      BY DEF ValidSizing, NoSize
    <2>2. pass.entry.size # Unset => pass.entry.size \in SizeNames
      BY Held DEF Entry
    <2> QED
      BY <1>0, <1>6, <2>1, <2>2 DEF ReadSize, Goes, PassOK, Admitted, NamedHolds, wishes
  <1>7. CASE WriteNamespace \/ WriteQuota \/ PruneQuota \/ PruneLimits
    <2>1. pc \notin {"idle", "load"} /\ UNCHANGED <<entry, sizes, pass>>
      BY <1>7 DEF WriteNamespace, WriteQuota, PruneQuota, PruneLimits, wishes
    <2> QED
      BY <2>1 DEF Admitted, NamedHolds
  <1>8. CASE WriteLimits
    <2>1. /\ pc \notin {"idle", "load"}
          /\ UNCHANGED <<entry, sizes, pass.entry, pass.size, pass.gitops>>
      BY <1>0, <1>8 DEF WriteLimits, PassOK, wishes
    <2> QED
      BY <2>1 DEF Admitted, NamedHolds
  <1>9. ASSUME NEW a \in Projects, WriteProject(a) PROVE Admitted' /\ NamedHolds'
    <2>1. /\ pc \notin {"idle", "load"}
          /\ UNCHANGED <<entry, sizes, pass.entry, pass.size, pass.gitops>>
      BY <1>0, <1>9 DEF WriteProject, PassOK, wishes
    <2> QED
      BY <2>1 DEF Admitted, NamedHolds
  <1>10. CASE NowhereToGo \/ ProjectsWritten \/ PruneProjects
    <2>1. pc \notin {"idle", "load"} /\ UNCHANGED <<entry, sizes, pass>>
      BY <1>10 DEF NowhereToGo, Homeless, ProjectsWritten, PruneProjects, wishes
    <2> QED
      BY <2>1 DEF Admitted, NamedHolds
  <1> QED
    BY <1>1, <1>2, <1>3, <1>4, <1>5, <1>6, <1>7, <1>8, <1>9, <1>10 DEF Next, Pass

\* A tidy quantity that admission accepts is one that can be parsed, and none is
\* made up by merging.
LEMMA TidyQuota ==
    ASSUME NEW e \in Entry, NEW t \in SizeSpec, NEW q, q = Resolve(e, t).quota, q # Unset,
           ValidSizing(e), ValidSizing(t), Tidy(e), Tidy(t)
    PROVE  ~QuotaPanics(q)
  <1>1. ASSUME NEW p \in Quotas, NEW k \in QuantityKeys, ValidQuota(p), Given(p, k) # Unset,
               IsBlank(Given(p, k)) \/ ~Given(p, k).pad
        PROVE  IsBlank(Given(p, k)) \/ Parses(Normalize(Given(p, k)))
    <2>1. Given(p, k) \in Quantity
      BY <1>1, GivenBy DEF Quotas, QuantityKeys
    <2> QED
      BY <1>1, <2>1, TidyParses DEF ValidQuota
  <1>2. ASSUME NEW p \in Quotas, NEW k \in ClassKeys, ValidQuota(p), p.classes[k] # Unset,
               ~IsBlank(p.classes[k]), ~p.classes[k].pad
        PROVE  Parses(Normalize(p.classes[k]))
    <2>1. p.classes[k] \in Quantity
      BY <1>2 DEF Quotas
    <2> QED
      BY <1>2, <2>1, TidyClassParses DEF ValidQuota
  <1>3. e.quota \in Opt(Quotas) /\ t.quota \in Opt(Quotas)
    BY DEF Entry, SizeSpec
  <1>4. ASSUME NEW s \in {e, t}, s.quota # Unset
        PROVE  /\ \A k \in QuantityKeys :
                     \/ Given(s.quota, k) = Unset \/ IsBlank(Given(s.quota, k))
                     \/ Parses(Normalize(Given(s.quota, k)))
               /\ \A k \in ClassKeys :
                     s.quota.classes[k] = Unset \/ Parses(Normalize(s.quota.classes[k]))
    <2>1. s.quota \in Quotas /\ ValidQuota(s.quota)
      BY <1>3, <1>4 DEF ValidSizing
    <2>2. Tidy(s)
      OBVIOUS
    <2> QED
      BY <1>1, <1>2, <1>4, <2>1, <2>2 DEF Tidy
  <1> QED
    BY <1>4, ResolvedQuota DEF QuotaPanics

\* A resolved limit range of tidy, admitted parts has no quantity that does not parse.
LEMMA TidyLimits ==
    ASSUME NEW e \in Entry, NEW t \in SizeSpec, NEW l, l = Resolve(e, t).limits, l # Unset,
           ValidSizing(e), ValidSizing(t), Tidy(e), Tidy(t)
    PROVE  ~LimitsPanic(l)
  <1>1. e.limits \in Opt(Limits) /\ t.limits \in Opt(Limits)
    BY DEF Entry, SizeSpec
  <1>2. ASSUME NEW s \in {e, t}, s.limits # Unset, NEW rq \in Bounds(s.limits)
        PROVE  Parses(IF rq[1] = "cpu" THEN rq[2] ELSE Normalize(rq[2]))
    <2>1. s.limits \in Limits /\ ValidLimits(s.limits) /\ Tidy(s)
      BY <1>1, <1>2 DEF ValidSizing
    <2>2. rq[2] \in Quantity
      BY <1>2, <2>1, BoundsAreQuantities
    <2>3. ~IsBlank(rq[2]) /\ ~rq[2].pad
      BY <1>2, <2>1 DEF Tidy
    <2>4. IF rq[1] = "cpu" THEN ValidCPU(rq[2]) ELSE ValidBytes(rq[2])
      BY <1>2, <2>1 DEF ValidLimits
    <2> QED
      BY <2>2, <2>3, <2>4, TidyParses
  <1> QED
    BY <1>2, ResolvedLimits DEF LimitsPanic

\* Admission and use of quantities agree on tidy strings.
THEOREM TidyIsSafe == Spec => []TidyNeverPanics
  <1>1. Init => TypeOK /\ TodoOK /\ Admitted /\ NamedHolds
    BY TypeInit, AdmittedInit DEF Init, TodoOK
  <1>2. TypeOK /\ TodoOK /\ Admitted /\ NamedHolds /\ [Next]_vars
           => TypeOK' /\ TodoOK' /\ Admitted' /\ NamedHolds'
    BY TypeStep, TodoStep, AdmittedStep
  <1>3. TypeOK /\ Admitted => TidyNeverPanics
    BY Held, TidyQuota, TidyLimits DEF TidyNeverPanics, Panics, Admitted, Resolved, IsOn
  <1> QED
    BY <1>1, <1>2, <1>3, PTL DEF Spec

\* An admitted entry that enables AppProjects has a namespace for them, whatever
\* becomes of the ConfigMap.
THEOREM EnabledHaveHome == Spec => []ProjectsHaveHome
  <1>1. Init => TypeOK /\ TodoOK /\ Admitted /\ NamedHolds
    BY TypeInit, AdmittedInit DEF Init, TodoOK
  <1>2. TypeOK /\ TodoOK /\ Admitted /\ NamedHolds /\ [Next]_vars
           => TypeOK' /\ TodoOK' /\ Admitted' /\ NamedHolds'
    BY TypeStep, TodoStep, AdmittedStep
  <1>3. Admitted /\ NamedHolds => ProjectsHaveHome
    BY DEF Admitted, NamedHolds, ProjectsHaveHome, Homeless, ValidGitOps, ArgoNamespace
  <1> QED
    BY <1>1, <1>2, <1>3, PTL DEF Spec

-----------------------------------------------------------------------------
(* What a quiet tenant looks like.                                         *)

\* Nothing has been heard of since the pass began that runs, or was the last.
Live == ~queued /\ (pc # "idle" \/ outcome = "ready")

AfterLabels == Stages \ {"load", "resolve", "labels"}
AfterQuota == AfterLabels \ {"quota"}
AfterLimits == AfterQuota \ {"limits"}
AfterProjects == AfterLimits \ {"projects"}
AfterPruneQuota == AfterProjects \ {"pruneQuota"}
AfterPruneLimits == AfterPruneQuota \ {"pruneLimits"}

\* So the pass holds what is stored.
EntryHeld == Live => pass.entry = entry
SizeHeld == Live /\ pc \notin {"load", "resolve"} => pass.size = SizeOf(pass.entry)

\* What it wrote against its cached copy is what it wants, if the copy agrees
\* with the object in the end: no event of the object came in between.
LabelsHeld ==
    Live /\ pc \in AfterLabels /\ seen.labels = obj.labels /\ Bears(obj.labels) =>
        \A k \in LabelKeys : OwnLabels(pass.entry, pass.gitops)[k] # Unset =>
            obj.labels[k] = OwnLabels(pass.entry, pass.gitops)[k]

QuotaHeld ==
    Live /\ pc \in AfterQuota /\ seen.quota = obj.quota =>
        /\ IsOn(Resolved.quota) => obj.quota = Hard(Resolved.quota)
        /\ pc \in AfterPruneQuota /\ ~IsOn(Resolved.quota) => obj.quota = Unset

LimitsHeld ==
    Live /\ pc \in AfterLimits /\ seen.limits = obj.limits =>
        /\ IsOn(Resolved.limits) => obj.limits = Items(Resolved.limits)
        /\ pc \in AfterPruneLimits /\ ~IsOn(Resolved.limits) => obj.limits = Unset

\* AppProjects are not cached.
ProjectsHeld ==
    Live /\ pc \in AfterLimits =>
        /\ \A a \in EnabledProjects(pass.entry) : pc # "projects" \/ a \notin pass.todo =>
              /\ ArgoNamespace(pass.entry, pass.gitops) # Unset
              /\ projects[<<ArgoNamespace(pass.entry, pass.gitops), a>>] =
                    Desired(pass.entry.projects[a], pass.gitops)
        /\ pc = "idle" => \A a \in Projects \ EnabledProjects(pass.entry) :
                             \A n \in ArgoNamespaces : projects[<<n, a>>] = Unset

QuietInv == EntryHeld /\ SizeHeld /\ LabelsHeld /\ QuotaHeld /\ LimitsHeld /\ ProjectsHeld

\* A patch made against a copy that is still the object's is the whole of it.
LEMMA PatchIsWhole ==
    ASSUME NEW D, NEW T, NEW kind, NEW want, want \in [D -> T], ~Misled(kind),
           Merged(kind, want) = seen[kind]
    PROVE  Merged(kind, want) = want
  <1>1. CASE obj[kind] = Unset
    BY <1>1 DEF Merged
  <1>2. CASE obj[kind] # Unset
    <2> DEFINE m == Merged(kind, want)
    <2>1. m = [f \in D |-> IF want[f] = seen[kind][f] THEN obj[kind][f] ELSE want[f]]
      BY <1>2 DEF Merged
    <2>2. \A f \in D : m[f] = seen[kind][f]
      OBVIOUS
    <2> HIDE DEF m
    <2>3. \A f \in D : m[f] = want[f]
      BY <2>1, <2>2
    <2> QED
      BY <2>1, <2>3 DEF m
  <1> QED
    BY <1>1, <1>2

\* Nothing of the invariant changes when only the queue grows and a copy or
\* the ConfigMap does.
LEMMA QuietUsers ==
    ASSUME TypeOK, QuietInv,
           EditEntry \/ EditDefaults \/ (\E s \in SizeNames : EditSize(s)) \/ Resync
    PROVE  QuietInv'
  <1>1. CASE EditEntry \/ Resync
    <2>1. ~Live'
      BY <1>1 DEF EditEntry, Resync, Live
    <2> QED
      BY <2>1 DEF QuietInv, EntryHeld, SizeHeld, LabelsHeld, QuotaHeld, LimitsHeld, ProjectsHeld
  <1>2. CASE EditDefaults
    BY <1>2 DEF EditDefaults, QuietInv, EntryHeld, SizeHeld, LabelsHeld, QuotaHeld, LimitsHeld,
                ProjectsHeld, Live, SizeOf, Resolved
  <1>3. ASSUME NEW s \in SizeNames, EditSize(s) PROVE QuietInv'
    <2>1. UNCHANGED <<entry, obj, seen, projects, pc, pass, outcome>>
      BY <1>3 DEF EditSize
    <2>2. Live' => Live /\ entry.size # s
      BY <1>3 DEF EditSize, Live
    <2>3. Live' => SizeOf(pass.entry)' = SizeOf(pass.entry)
      <3> SUFFICES ASSUME Live' PROVE SizeOf(pass.entry)' = SizeOf(pass.entry)
        OBVIOUS
      <3>1. pass.entry = entry /\ entry.size \in Opt(SizeNames)
        BY <2>2, Held DEF QuietInv, EntryHeld, Entry
      <3> QED
        BY <1>3, <2>1, <2>2, <3>1 DEF EditSize, SizeOf, TypeOK
    <2>4. EntryHeld' /\ SizeHeld'
      BY <2>1, <2>2, <2>3 DEF QuietInv, EntryHeld, SizeHeld
    <2>5. LabelsHeld' /\ ProjectsHeld'
      BY <2>1, <2>2 DEF QuietInv, LabelsHeld, ProjectsHeld
    <2>6. QuotaHeld' /\ LimitsHeld'
      BY <2>1, <2>2 DEF QuietInv, QuotaHeld, LimitsHeld, Resolved
    <2> QED
      BY <2>4, <2>5, <2>6 DEF QuietInv
  <1> QED
    BY <1>1, <1>2, <1>3

\* An informer that catches up with an object of ours wakes the PO.
LEMMA QuietSync ==
    ASSUME TypeOK, QuietInv, NEW kind \in {"labels", "quota", "limits"}, Sync(kind)
    PROVE  QuietInv'
  <1>1. UNCHANGED <<entry, sizes, obj, projects, pc, pass, outcome>>
    BY DEF Sync, wishes
  <1>2. Live' => Live /\ ~Wakes(kind)
    BY DEF Sync, Live
  <1>3. seen' = [seen EXCEPT ![kind] = obj[kind]] /\ DOMAIN seen = {"labels", "quota", "limits"}
    BY DEF Sync, TypeOK, Objects
  <1>4. Live' => kind = "labels" /\ ~Bears(obj.labels)
    BY <1>2 DEF Wakes
  <1>5. Live' => seen'.quota = seen.quota /\ seen'.limits = seen.limits
    BY <1>3, <1>4
  <1>6. EntryHeld' /\ SizeHeld' /\ ProjectsHeld'
    BY <1>1, <1>2 DEF QuietInv, EntryHeld, SizeHeld, SizeOf, ProjectsHeld
  <1>7. LabelsHeld'
    BY <1>1, <1>4 DEF LabelsHeld
  <1>8. QuotaHeld' /\ LimitsHeld'
    BY <1>1, <1>2, <1>5 DEF QuietInv, QuotaHeld, LimitsHeld, Resolved
  <1> QED
    BY <1>6, <1>7, <1>8 DEF QuietInv

\* A pass that is still live has not failed in this step.
LEMMA FailedIsNotLive ==
    /\ \A how \in {"failed", "panicked"} : Ends(how) => ~Live'
    /\ \A how \in {"failed", "panicked"} : Fails(how) => ~Live'
  BY DEF Ends, Fails, Live

\* A pass that goes on was running, and knows what it has read.
LEMMA GoesOn ==
    ASSUME NEW stage \in Stages, pc # "idle", Live', Answered(stage) \/ Skips(stage) \/ Goes(stage)
    PROVE  Live /\ pc' = stage
  BY FailedIsNotLive DEF Answered, Skips, Goes, Live

\* Reading the entry, the defaults and the size sets the books of the pass.
LEMMA QuietBegins ==
    ASSUME TypeOK, QuietInv, Start \/ Load \/ ReadSize
    PROVE  QuietInv'
  <1>0. PassOK
    BY DEF TypeOK, PassOK
  <1>1. CASE Start
    BY <1>0, <1>1 DEF Start, PassOK, QuietInv, EntryHeld, SizeHeld, LabelsHeld, QuotaHeld, LimitsHeld,
                ProjectsHeld, AfterLabels, AfterQuota, AfterLimits, Stages, wishes
  <1>2. CASE Load
    <2>1. Live' => Live /\ pc' = "resolve"
      BY <1>2, FailedIsNotLive, GoesOn DEF Load, Stages
    <2>2. pass'.entry = pass.entry /\ entry' = entry
      BY <1>0, <1>2 DEF Load, PassOK, wishes
    <2>3. EntryHeld'
      BY <2>1, <2>2 DEF QuietInv, EntryHeld
    <2> QED
      BY <2>1, <2>3 DEF QuietInv, SizeHeld, LabelsHeld, QuotaHeld, LimitsHeld, ProjectsHeld,
                AfterLabels, AfterQuota, AfterLimits, Stages
  <1>3. CASE ReadSize
    <2>1. Live' => Live /\ pc' = "labels"
      BY <1>3, GoesOn DEF ReadSize, Stages
    <2>2. pass'.entry = pass.entry /\ entry' = entry /\ sizes' = sizes
      BY <1>0, <1>3 DEF ReadSize, PassOK, wishes
    <2>3. pass'.size = SizeOf(pass.entry)
      BY <1>0, <1>3 DEF ReadSize, PassOK, SizeOf
    <2>4. EntryHeld' /\ SizeHeld'
      BY <2>1, <2>2, <2>3 DEF QuietInv, EntryHeld, SizeHeld, SizeOf
    <2> QED
      BY <2>1, <2>4 DEF QuietInv, LabelsHeld, QuotaHeld, LimitsHeld, ProjectsHeld,
                AfterLabels, AfterQuota, AfterLimits, Stages
  <1> QED
    BY <1>1, <1>2, <1>3

\* After the write of the namespace its labels are what the pass asks for.
LEMMA QuietNamespace ==
    ASSUME TypeOK, QuietInv, WriteNamespace
    PROVE  QuietInv'
  <1> DEFINE want == DesiredLabels(pass.entry, pass.gitops)
             kept == IF seen.labels = Unset THEN want ELSE MergeFields(seen.labels, want)
  <1>1. pc = "labels" /\ UNCHANGED <<wishes, seen, projects, pass>>
    BY DEF WriteNamespace
  <1>2. Live' => /\ Live /\ pc' = "quota" /\ ~Misled("labels")
                 /\ obj' = [obj EXCEPT !["labels"] = Merged("labels", kept)]
    BY FailedIsNotLive, GoesOn DEF WriteNamespace, Writes, Stages
  <1>3. EntryHeld' /\ SizeHeld'
    BY <1>1, <1>2 DEF QuietInv, EntryHeld, SizeHeld, SizeOf, wishes
  <1>4. LabelsHeld'
    <2> SUFFICES ASSUME Live', seen.labels' = obj.labels',
                        NEW k \in LabelKeys, OwnLabels(pass.entry, pass.gitops)[k] # Unset
                 PROVE  obj.labels'[k] = OwnLabels(pass.entry, pass.gitops)[k]
      BY <1>1 DEF LabelsHeld
    <2>1. seen.labels \in Opt(Labels) /\ obj \in Objects
      BY DEF TypeOK, Objects
    <2>2. want \in Labels /\ want[k] = OwnLabels(pass.entry, pass.gitops)[k]
      BY Held, DesiredLabelsType
    <2>3. kept \in Labels /\ kept[k] = want[k]
      BY <2>1, <2>2 DEF Labels, MergeFields
    <2>4. obj'.labels = Merged("labels", kept)
      BY <1>2, <2>1 DEF Objects
    <2> HIDE DEF kept, want
    <2>5. Merged("labels", kept) = seen["labels"]
      BY <1>1, <2>4
    <2>6. Merged("labels", kept) = kept
      BY <1>2, <2>3, <2>5, PatchIsWhole DEF Labels
    <2> QED
      BY <2>2, <2>3, <2>4, <2>6
  <1>5. QuotaHeld' /\ LimitsHeld' /\ ProjectsHeld'
    BY <1>2 DEF QuotaHeld, LimitsHeld, ProjectsHeld, AfterQuota, AfterLimits, AfterLabels
  <1> QED
    BY <1>3, <1>4, <1>5 DEF QuietInv

\* After the write of the quota, so is the quota.
LEMMA QuietQuota ==
    ASSUME TypeOK, QuietInv, WriteQuota
    PROVE  QuietInv'
  <1> DEFINE want == Hard(Resolved.quota)
  <1>1. pc = "quota" /\ UNCHANGED <<wishes, seen, projects, pass>>
    BY DEF WriteQuota
  <1>2. Live' => /\ Live /\ pc' = "limits"
                 /\ \/ ~IsOn(Resolved.quota) /\ obj' = obj
                    \/ /\ IsOn(Resolved.quota) /\ ~Misled("quota")
                       /\ obj' = [obj EXCEPT !["quota"] = Merged("quota", want)]
    BY FailedIsNotLive, GoesOn DEF WriteQuota, Writes, Skips, Stages
  <1>3. obj \in Objects
    BY DEF TypeOK
  <1>4. Live' => obj'.labels = obj.labels
    BY <1>2, <1>3 DEF Objects
  <1>5. EntryHeld' /\ SizeHeld' /\ LabelsHeld'
    BY <1>1, <1>2, <1>4 DEF QuietInv, EntryHeld, SizeHeld, SizeOf, LabelsHeld, wishes,
                AfterLabels, Stages
  <1>6. QuotaHeld'
    <2> SUFFICES ASSUME Live', seen.quota' = obj.quota', IsOn(Resolved.quota)
                 PROVE  obj.quota' = want
      BY <1>1, <1>2 DEF QuotaHeld, Resolved, AfterPruneQuota, AfterProjects, AfterLimits
    <2>1. want \in [HardKeys -> Opt(Int)]
      BY Held, HardType DEF IsOn
    <2>2. obj'.quota = Merged("quota", want)
      BY <1>2, <1>3 DEF Objects
    <2>3. Merged("quota", want) = seen["quota"]
      BY <1>1, <2>2
    <2> HIDE DEF want
    <2> QED
      BY <1>2, <2>1, <2>2, <2>3, PatchIsWhole
  <1>7. LimitsHeld' /\ ProjectsHeld'
    BY <1>2 DEF LimitsHeld, ProjectsHeld, AfterQuota, AfterLimits
  <1> QED
    BY <1>5, <1>6, <1>7 DEF QuietInv

\* After the write of the limit range, so is the limit range.
LEMMA QuietLimits ==
    ASSUME TypeOK, QuietInv, WriteLimits
    PROVE  QuietInv'
  <1> DEFINE want == Items(Resolved.limits)
             new == IF want = seen.limits THEN obj.limits ELSE want
  <1>0. PassOK
    BY DEF TypeOK, PassOK
  <1>1. /\ pc = "limits" /\ UNCHANGED <<wishes, seen, projects>>
        /\ pass' = [pass EXCEPT !.todo = EnabledProjects(pass.entry)]
    BY DEF WriteLimits
  <1>2. /\ pass'.entry = pass.entry /\ pass'.size = pass.size /\ pass'.gitops = pass.gitops
        /\ pass'.todo = EnabledProjects(pass.entry)
    BY <1>0, <1>1 DEF PassOK
  <1>3. Live' => /\ Live /\ pc' = "projects"
                 /\ \/ ~IsOn(Resolved.limits) /\ obj' = obj
                    \/ IsOn(Resolved.limits) /\ obj' = [obj EXCEPT !["limits"] = new]
    BY FailedIsNotLive, GoesOn DEF WriteLimits, Writes, Skips, Stages
  <1>4. obj \in Objects
    BY DEF TypeOK
  <1>5. Live' => obj'.labels = obj.labels /\ obj'.quota = obj.quota
    BY <1>3, <1>4 DEF Objects
  <1>6. EntryHeld' /\ SizeHeld' /\ LabelsHeld'
    BY <1>1, <1>2, <1>3, <1>5 DEF QuietInv, EntryHeld, SizeHeld, SizeOf, LabelsHeld, wishes,
                AfterLabels, Stages
  <1>7. QuotaHeld'
    BY <1>1, <1>2, <1>3, <1>5 DEF QuietInv, QuotaHeld, Resolved, AfterQuota, AfterLabels,
                AfterPruneQuota, AfterProjects, AfterLimits, Stages
  <1>8. LimitsHeld'
    <2> SUFFICES ASSUME Live', seen.limits' = obj.limits', IsOn(Resolved.limits)
                 PROVE  obj.limits' = want
      BY <1>2, <1>3 DEF LimitsHeld, Resolved, AfterPruneLimits, AfterPruneQuota, AfterProjects
    <2>1. obj'.limits = new
      BY <1>3, <1>4 DEF Objects
    <2> QED
      BY <1>1, <2>1
  <1>9. ProjectsHeld'
    BY <1>1, <1>2, <1>3 DEF ProjectsHeld
  <1> QED
    BY <1>6, <1>7, <1>8, <1>9 DEF QuietInv

\* After the last AppProject, so are the AppProjects that are listed.
LEMMA QuietProjects ==
    ASSUME TypeOK, TodoOK, QuietInv, (\E a \in Projects : WriteProject(a)) \/ ProjectsWritten
    PROVE  QuietInv'
  <1>0. PassOK
    BY DEF TypeOK, PassOK
  <1>1. ASSUME NEW a \in Projects, WriteProject(a) PROVE QuietInv'
    <2>1. /\ pc = "projects" /\ a \in pass.todo
          /\ UNCHANGED <<wishes, obj, seen>>
          /\ pass'.entry = pass.entry /\ pass'.size = pass.size /\ pass'.gitops = pass.gitops
          /\ pass'.todo = pass.todo \ {a}
      BY <1>0, <1>1 DEF WriteProject, PassOK
    <2>2. Live' => Live /\ pc' = "projects"
      BY <1>1, <2>1, GoesOn DEF WriteProject, Stages
    <2>3. EntryHeld' /\ SizeHeld' /\ LabelsHeld' /\ QuotaHeld' /\ LimitsHeld'
      BY <2>1, <2>2 DEF QuietInv, EntryHeld, SizeHeld, SizeOf, LabelsHeld, QuotaHeld, LimitsHeld,
                Resolved, wishes
    <2>4. ProjectsHeld'
      <3> DEFINE here == ArgoNamespace(pass.entry, pass.gitops)
      <3>1. projects' = [projects EXCEPT ![<<here, a>>] = Desired(pass.entry.projects[a], pass.gitops)]
        BY <1>1 DEF WriteProject
      <3>2. <<here, a>> \in DOMAIN projects /\ here # Unset
        <4>1. pass.entry.projects[a] # Unset
          BY <2>1 DEF TodoOK, EnabledProjects
        <4>2. here \in ArgoNamespaces
          BY <1>1, <4>1, Held, ArgoNamespaceType DEF WriteProject, Homeless
        <4>3. here # Unset
          BY <1>1, <4>1 DEF WriteProject, Homeless
        <4> QED
          BY <4>2, <4>3 DEF TypeOK
      <3>3. ASSUME Live', NEW b \in EnabledProjects(pass.entry), b \notin pass'.todo
            PROVE  projects'[<<here, b>>] = Desired(pass.entry.projects[b], pass.gitops)
        <4>1. CASE b = a
          BY <3>1, <3>2, <4>1
        <4>2. CASE b # a
          <5>1. projects'[<<here, b>>] = projects[<<here, b>>]
            BY <3>1, <4>2
          <5>2. b \notin pass.todo
            BY <2>1, <3>3, <4>2
          <5> QED
            BY <2>1, <2>2, <3>3, <5>1, <5>2 DEF QuietInv, ProjectsHeld, AfterLimits, AfterQuota,
                      AfterLabels, Stages
        <4> QED
          BY <4>1, <4>2
      <3> QED
        BY <2>1, <2>2, <3>2, <3>3 DEF ProjectsHeld
    <2> QED
      BY <2>3, <2>4 DEF QuietInv
  <1>2. CASE ProjectsWritten
    <2>1. /\ pc = "projects" /\ pass.todo = {}
          /\ UNCHANGED <<wishes, obj, seen, projects, pass>>
      BY <1>2 DEF ProjectsWritten
    <2>2. Live' => Live /\ pc' = "pruneQuota"
      BY <1>2, <2>1, GoesOn DEF ProjectsWritten, Stages
    <2>3. EntryHeld' /\ SizeHeld' /\ LabelsHeld'
      BY <2>1, <2>2 DEF QuietInv, EntryHeld, SizeHeld, SizeOf, LabelsHeld, wishes,
                AfterLabels, Stages
    <2>4. QuotaHeld' /\ LimitsHeld'
      BY <2>1, <2>2 DEF QuietInv, QuotaHeld, LimitsHeld, Resolved, AfterLabels, AfterQuota,
                AfterLimits, AfterProjects, AfterPruneQuota, AfterPruneLimits, Stages
    <2>5. ProjectsHeld'
      BY <2>1, <2>2 DEF QuietInv, ProjectsHeld, AfterLabels, AfterQuota, AfterLimits, Stages
    <2> QED
      BY <2>3, <2>4, <2>5 DEF QuietInv
  <1> QED
    BY <1>1, <1>2

\* Prune removes a quota or a limit range that is switched off.
LEMMA QuietPrune ==
    ASSUME TypeOK, QuietInv, PruneQuota \/ PruneLimits
    PROVE  QuietInv'
  <1>0. obj \in Objects
    BY DEF TypeOK
  <1>1. CASE PruneQuota
    <2>1. pc = "pruneQuota" /\ UNCHANGED <<wishes, seen, projects, pass>>
      BY <1>1 DEF PruneQuota
    <2>2. Live' => /\ Live /\ pc' = "pruneLimits"
                   /\ \/ (IsOn(Resolved.quota) \/ seen.quota = Unset) /\ obj' = obj
                      \/ ~IsOn(Resolved.quota) /\ obj' = [obj EXCEPT !["quota"] = Unset]
      BY <1>1, GoesOn DEF PruneQuota, Writes, Skips, Stages
    <2>3. Live' => obj'.labels = obj.labels /\ obj'.limits = obj.limits
      BY <1>0, <2>2 DEF Objects
    <2>4. EntryHeld' /\ SizeHeld' /\ LabelsHeld'
      BY <2>1, <2>2, <2>3 DEF QuietInv, EntryHeld, SizeHeld, SizeOf, LabelsHeld, wishes,
                AfterLabels, Stages
    <2>5. QuotaHeld'
      BY <1>0, <2>1, <2>2 DEF QuietInv, QuotaHeld, Resolved, Objects, AfterLabels, AfterQuota, Stages
    <2>6. LimitsHeld'
      BY <2>1, <2>2, <2>3 DEF QuietInv, LimitsHeld, Resolved, AfterLabels, AfterQuota,
                AfterLimits, AfterProjects, AfterPruneQuota, AfterPruneLimits, Stages
    <2>7. ProjectsHeld'
      BY <2>1, <2>2 DEF QuietInv, ProjectsHeld, AfterLabels, AfterQuota, AfterLimits, Stages
    <2> QED
      BY <2>4, <2>5, <2>6, <2>7 DEF QuietInv
  <1>2. CASE PruneLimits
    <2>1. pc = "pruneLimits" /\ UNCHANGED <<wishes, seen, projects, pass>>
      BY <1>2 DEF PruneLimits
    <2>2. Live' => /\ Live /\ pc' = "pruneProjects"
                   /\ \/ (IsOn(Resolved.limits) \/ seen.limits = Unset) /\ obj' = obj
                      \/ ~IsOn(Resolved.limits) /\ obj' = [obj EXCEPT !["limits"] = Unset]
      BY <1>2, GoesOn DEF PruneLimits, Writes, Skips, Stages
    <2>3. Live' => obj'.labels = obj.labels /\ obj'.quota = obj.quota
      BY <1>0, <2>2 DEF Objects
    <2>4. EntryHeld' /\ SizeHeld' /\ LabelsHeld'
      BY <2>1, <2>2, <2>3 DEF QuietInv, EntryHeld, SizeHeld, SizeOf, LabelsHeld, wishes,
                AfterLabels, Stages
    <2>5. LimitsHeld'
      BY <1>0, <2>1, <2>2 DEF QuietInv, LimitsHeld, Resolved, Objects, AfterLabels, AfterQuota,
                AfterLimits, Stages
    <2>6. QuotaHeld'
      BY <2>1, <2>2, <2>3 DEF QuietInv, QuotaHeld, Resolved, AfterLabels, AfterQuota,
                AfterLimits, AfterProjects, AfterPruneQuota, Stages
    <2>7. ProjectsHeld'
      BY <2>1, <2>2 DEF QuietInv, ProjectsHeld, AfterLabels, AfterQuota, AfterLimits, Stages
    <2> QED
      BY <2>4, <2>5, <2>6, <2>7 DEF QuietInv
  <1> QED
    BY <1>1, <1>2

\* A pass that ends leaves a key to come back, or everything as asked for.
LEMMA QuietEnds ==
    ASSUME TypeOK, QuietInv, PruneProjects \/ NowhereToGo \/ CallFails
    PROVE  QuietInv'
  <1>1. CASE NowhereToGo \/ CallFails \/ (PruneProjects /\ Ends("failed"))
    <2>1. ~Live'
      BY <1>1, FailedIsNotLive DEF NowhereToGo, CallFails
    <2> QED
      BY <2>1 DEF QuietInv, EntryHeld, SizeHeld, LabelsHeld, QuotaHeld, LimitsHeld, ProjectsHeld
  <1>2. CASE PruneProjects /\ Ends("ready")
    <2>1. pc = "pruneProjects" /\ UNCHANGED <<wishes, obj, seen, pass>>
      BY <1>2 DEF PruneProjects
    <2>2. Live' => Live /\ pc' = "idle"
      BY <1>2, <2>1 DEF Ends, Live
    <2>3. EntryHeld' /\ SizeHeld' /\ LabelsHeld'
      BY <2>1, <2>2 DEF QuietInv, EntryHeld, SizeHeld, SizeOf, LabelsHeld, wishes,
                AfterLabels, Stages
    <2>4. QuotaHeld' /\ LimitsHeld'
      BY <2>1, <2>2 DEF QuietInv, QuotaHeld, LimitsHeld, Resolved, AfterLabels, AfterQuota,
                AfterLimits, AfterProjects, AfterPruneQuota, AfterPruneLimits, Stages
    <2>5. ProjectsHeld'
      <3> DEFINE here == ArgoNamespace(pass.entry, pass.gitops)
      <3>1. projects' = [na \in ArgoNamespaces \X Projects |->
                           IF na[2] \in EnabledProjects(pass.entry) THEN projects[na] ELSE Unset]
        BY <1>2 DEF PruneProjects
      <3>2. ASSUME Live', NEW a \in EnabledProjects(pass.entry)
            PROVE  here # Unset /\ projects'[<<here, a>>] = Desired(pass.entry.projects[a], pass.gitops)
        <4>1. here # Unset /\ projects[<<here, a>>] = Desired(pass.entry.projects[a], pass.gitops)
          BY <2>1, <2>2, <3>2 DEF QuietInv, ProjectsHeld, AfterLimits, AfterQuota, AfterLabels, Stages
        <4>2. <<here, a>> \in ArgoNamespaces \X Projects
          BY <4>1, Held, ArgoNamespaceType DEF EnabledProjects
        <4> QED
          BY <3>1, <4>1, <4>2
      <3>3. ASSUME NEW a \in Projects \ EnabledProjects(pass.entry), NEW n \in ArgoNamespaces
            PROVE  projects'[<<n, a>>] = Unset
        BY <3>1, <3>3
      <3> QED
        BY <2>1, <2>2, <3>2, <3>3 DEF ProjectsHeld
    <2> QED
      BY <2>3, <2>4, <2>5 DEF QuietInv
  <1> QED
    BY <1>1, <1>2 DEF PruneProjects

\* Every step keeps the books.
LEMMA QuietStep ==
    ASSUME TypeOK, TodoOK, QuietInv, [Next]_vars
    PROVE  QuietInv'
  <1>1. CASE UNCHANGED vars
    BY <1>1 DEF vars, wishes, QuietInv, EntryHeld, SizeHeld, LabelsHeld, QuotaHeld, LimitsHeld,
                ProjectsHeld, Live, SizeOf, Resolved
  <1>2. CASE EditEntry \/ EditDefaults \/ (\E s \in SizeNames : EditSize(s)) \/ Resync
    BY <1>2, QuietUsers
  <1>3. CASE Synced
    BY <1>3, QuietSync DEF Synced
  <1>4. CASE Pass \/ CallFails
    BY <1>4, QuietBegins, QuietNamespace, QuietQuota, QuietLimits, QuietProjects, QuietPrune,
       QuietEnds DEF Pass
  <1> QED
    BY <1>1, <1>2, <1>3, <1>4 DEF Next

\* After a good pass, with nothing queued and the caches in step, a tenant is
\* exactly what is stored, though every patch was made against a copy that may
\* have lagged, and users edited as they liked.
THEOREM QuietIsExact == Spec => []QuietMeansExact
  <1>1. Init => TypeOK /\ TodoOK /\ QuietInv
    <2>1. Init => ~Live
      BY DEF Init, Live
    <2>2. Init => QuietInv
      BY <2>1 DEF QuietInv, EntryHeld, SizeHeld, LabelsHeld, QuotaHeld, LimitsHeld, ProjectsHeld
    <2> QED
      BY <2>2, TypeInit DEF Init, TodoOK
  <1>2. TypeOK /\ TodoOK /\ QuietInv /\ [Next]_vars => TypeOK' /\ TodoOK' /\ QuietInv'
    BY TypeStep, TodoStep, QuietStep
  <1>3. TypeOK /\ QuietInv => QuietMeansExact
    <2> SUFFICES ASSUME TypeOK, QuietInv, pc = "idle", ~queued, outcome = "ready", seen = obj,
                        Bears(obj.labels)
                 PROVE  Exact(entry, SizeOf(entry), pass.gitops)
      BY DEF QuietMeansExact
    <2>1. Live /\ pass.entry = entry /\ pass.size = SizeOf(entry)
      BY DEF QuietInv, EntryHeld, SizeHeld, Live
    <2>2. pc \in AfterLabels /\ pc \in AfterQuota /\ pc \in AfterLimits
          /\ pc \in AfterPruneQuota /\ pc \in AfterPruneLimits
      BY DEF AfterLabels, AfterQuota, AfterLimits, AfterProjects, AfterPruneQuota,
             AfterPruneLimits, Stages
    <2>3. /\ obj.labels # Unset
          /\ \A k \in OwnKeys : OwnLabels(entry, pass.gitops)[k] # Unset =>
                obj.labels[k] = OwnLabels(entry, pass.gitops)[k]
      BY <2>1, <2>2 DEF QuietInv, LabelsHeld, Bears, LabelKeys
    <2>4. Resolved = Resolve(entry, SizeOf(entry))
      BY <2>1 DEF Resolved
    <2>5. /\ obj.quota = IF IsOn(Resolved.quota) THEN Hard(Resolved.quota) ELSE Unset
          /\ obj.limits = IF IsOn(Resolved.limits) THEN Items(Resolved.limits) ELSE Unset
      BY <2>1, <2>2 DEF QuietInv, QuotaHeld, LimitsHeld
    <2>6. ASSUME NEW a \in Projects
          PROVE  IF a \in EnabledProjects(entry)
                 THEN projects[<<ArgoNamespace(entry, pass.gitops), a>>] =
                        Desired(entry.projects[a], pass.gitops)
                 ELSE \A n \in ArgoNamespaces : projects[<<n, a>>] = Unset
      BY <2>1, <2>2 DEF QuietInv, ProjectsHeld
    <2> QED
      BY <2>3, <2>4, <2>5, <2>6 DEF Exact
  <1> QED
    BY <1>1, <1>2, <1>3, PTL DEF Spec

-----------------------------------------------------------------------------
(* The merge and its table.                                                *)

\* A quota, or a limit range, is on exactly as the documentation of the sizes has it.
LEMMA SwitchedOn ==
    ASSUME NEW e \in Entry, NEW t \in SizeSpec
    PROVE  /\ IsOn(Resolve(e, t).quota) <=> HasBlock(e, e.quota, t.quota)
           /\ IsOn(Resolve(e, t).limits) <=> HasBlock(e, e.limits, t.limits)
  <1>1. /\ e.quota \in Opt(Quotas) /\ t.quota \in Opt(Quotas)
        /\ e.limits \in Opt(Limits) /\ t.limits \in Opt(Limits)
    BY DEF Entry, SizeSpec
  <1>2. \A b \in Quotas \cup Limits : b # Unset /\ b.enabled \in Flag
    BY SizingAssumption DEF Quotas, Limits
  <1>3. \A b \in Quotas \cup Limits :
           /\ EnsureEnabled(b) # Unset
           /\ EnsureEnabled(b).enabled = IF b.enabled = "unset" THEN "on" ELSE b.enabled
    <2> TAKE b \in Quotas \cup Limits
    <2>1. EnsureEnabled(b) = [b EXCEPT !.enabled = MergeFlag(b.enabled, "unset")]
      BY <1>2 DEF EnsureEnabled
    <2>2. EnsureEnabled(b).enabled = MergeFlag(b.enabled, "unset")
      BY <2>1 DEF Quotas, Limits
    <2>3. EnsureEnabled(b) \in Quotas \cup Limits
      BY EnsuredQuota, EnsuredLimits
    <2> QED
      BY <1>2, <2>2, <2>3 DEF MergeFlag
  <1>4. EnsureEnabled(Unset) = Unset
    BY DEF EnsureEnabled
  <1>5. ASSUME NEW over \in Quotas, over.enabled = "on", NEW base \in Opt(Quotas)
        PROVE  MergeQuota(base, over) # Unset /\ MergeQuota(base, over).enabled = "on"
    <2>1. MergeQuota(base, over) # Unset
      BY <1>2, MergedQuota
    <2>2. CASE base = Unset
      BY <1>3, <1>5, <2>1, <2>2 DEF MergeQuota
    <2>3. CASE base # Unset
      BY <1>5, <2>1, <2>3 DEF MergeQuota, MergeFlag
    <2> QED
      BY <2>2, <2>3
  <1>6. ASSUME NEW over \in Limits, over.enabled = "on", NEW base \in Opt(Limits)
        PROVE  MergeLimits(base, over) # Unset /\ MergeLimits(base, over).enabled = "on"
    <2>1. MergeLimits(base, over) # Unset
      BY <1>2, MergedLimits
    <2>2. CASE base = Unset
      BY <1>3, <1>6, <2>1, <2>2 DEF MergeLimits
    <2>3. CASE base # Unset
      BY <1>6, <2>1, <2>3 DEF MergeLimits, MergeFlag
    <2> QED
      BY <2>2, <2>3
  <1>7. IsOn(Resolve(e, t).quota) <=> HasBlock(e, e.quota, t.quota)
    BY <1>1, <1>3, <1>4, <1>5 DEF Resolve, IsOn, HasBlock, AppliesTShirt
  <1>8. IsOn(Resolve(e, t).limits) <=> HasBlock(e, e.limits, t.limits)
    BY <1>1, <1>3, <1>4, <1>6 DEF Resolve, IsOn, HasBlock, AppliesTShirt
  <1> QED
    BY <1>7, <1>8

\* What a ResourceQuota holds under a key, read off the quota it is built from.
LEMMA HardIs ==
    ASSUME NEW q \in Quotas, ClassKeys \cap (Counts \cup QuantityKeys) = {}
    PROVE  /\ Hard(q) \in [HardKeys -> Opt(Int)]
           /\ \A k \in ClassKeys :
                 Hard(q)[k] = IF q.classes[k] # Unset THEN q.classes[k].n ELSE Unset
           /\ \A k \in Counts : k \notin QuantityKeys /\ Hard(q)[k] = q.counts[k]
           /\ \A k \in QuantityKeys : Hard(q)[k] = Number(Given(q, k))
  <1>1. \A k \in Counts : k \notin QuantityKeys
    BY DEF Counts, QuantityKeys, Amounts, LimitKeys, RequestKeys
  <1> QED
    BY <1>1, HardType DEF Hard, HardKeys

\* The same quantity of the same resource, field by field.
LEMMA MergedHard ==
    ASSUME NEW base \in Quotas, NEW over \in Quotas, NEW q, q = MergeQuota(base, over)
    PROVE  /\ \A k \in Counts :
                 q.counts[k] = IF over.counts[k] # Unset THEN over.counts[k] ELSE base.counts[k]
           /\ \A k \in ClassKeys :
                 q.classes[k] = IF over.classes[k] # Unset THEN over.classes[k] ELSE base.classes[k]
           /\ \A k \in QuantityKeys :
                 Given(q, k) = IF Given(over, k) # Unset THEN Given(over, k) ELSE Given(base, k)
  <1>1. base # Unset
    BY SizingAssumption
  <1>2. /\ q.counts = MergeFields(base.counts, over.counts)
        /\ q.amounts = MergeFields(base.amounts, over.amounts)
        /\ q.classes = MergeFields(base.classes, over.classes)
        /\ q.limits = MergeBlock(base.limits, over.limits)
        /\ q.requests = MergeBlock(base.requests, over.requests)
    BY <1>1 DEF MergeQuota
  <1>3. /\ DOMAIN base.counts = Counts /\ DOMAIN base.classes = ClassKeys
        /\ DOMAIN base.amounts = Amounts
        /\ base.limits # Unset => DOMAIN base.limits = LimitKeys
        /\ base.requests # Unset => DOMAIN base.requests = RequestKeys
    BY DEF Quotas
  <1>4. \A k \in Counts :
           q.counts[k] = IF over.counts[k] # Unset THEN over.counts[k] ELSE base.counts[k]
    BY <1>2, <1>3 DEF MergeFields
  <1>5. \A k \in ClassKeys :
           q.classes[k] = IF over.classes[k] # Unset THEN over.classes[k] ELSE base.classes[k]
    BY <1>2, <1>3 DEF MergeFields
  <1>6. ASSUME NEW k \in Amounts
        PROVE  Given(q, k) = IF Given(over, k) # Unset THEN Given(over, k) ELSE Given(base, k)
    <2>1. q.amounts[k] = IF over.amounts[k] # Unset THEN over.amounts[k] ELSE base.amounts[k]
      BY <1>2, <1>3 DEF MergeFields
    <2> QED
      BY <2>1, GivenBy
  <1>7. ASSUME NEW b, NEW o, NEW m, NEW k, m = MergeBlock(b, o), b # Unset => k \in DOMAIN b,
               m = Unset => b = Unset /\ o = Unset
        PROVE  LET In(x) == IF x = Unset THEN Unset ELSE x[k]
               IN  In(m) = IF In(o) # Unset THEN In(o) ELSE In(b)
    BY <1>7 DEF MergeBlock, MergeFields
  <1>8. ASSUME NEW k \in LimitKeys
        PROVE  Given(q, k) = IF Given(over, k) # Unset THEN Given(over, k) ELSE Given(base, k)
    <2>1. q.limits = Unset => base.limits = Unset /\ over.limits = Unset
      <3>1. /\ base.limits \in Opt([LimitKeys -> Opt(Quantity)])
            /\ over.limits \in Opt([LimitKeys -> Opt(Quantity)])
        BY DEF Quotas
      <3>2. Unset \notin [LimitKeys -> Opt(Quantity)]
        BY SizingAssumption
      <3> QED
        BY <1>2, <3>1, <3>2 DEF MergeBlock, MergeFields
    <2> QED
      BY <1>2, <1>3, <1>7, <2>1, GivenBy
  <1>9. ASSUME NEW k \in RequestKeys
        PROVE  Given(q, k) = IF Given(over, k) # Unset THEN Given(over, k) ELSE Given(base, k)
    <2>1. q.requests = Unset => base.requests = Unset /\ over.requests = Unset
      <3>1. /\ base.requests \in Opt([RequestKeys -> Opt(Quantity)])
            /\ over.requests \in Opt([RequestKeys -> Opt(Quantity)])
        BY DEF Quotas
      <3>2. Unset \notin [RequestKeys -> Opt(Quantity)]
        BY SizingAssumption
      <3> QED
        BY <1>2, <3>1, <3>2 DEF MergeBlock, MergeFields
    <2> QED
      BY <1>2, <1>3, <1>7, <2>1, GivenBy
  <1> QED
    BY <1>4, <1>5, <1>6, <1>8, <1>9 DEF QuantityKeys

\* And so off the entry and the size, by the documented precedence.
LEMMA HardDocumented ==
    ASSUME NEW e \in Entry, NEW t \in SizeSpec, NEW q, q = Resolve(e, t).quota, IsOn(q),
           ClassKeys \cap (Counts \cup QuantityKeys) = {}
    PROVE  Hard(q) = Documented(e, t)
  <1> DEFINE Says(b) == IF b = Unset THEN [k \in HardKeys |-> Unset] ELSE Hard(b)
             Blank(b, k) == b # Unset /\ k \in QuantityKeys /\ Given(b, k) # Unset
  <1>0. /\ e.quota \in Opt(Quotas) /\ t.quota \in Opt(Quotas)
        /\ q # Unset /\ q \in Quotas
    BY ResolvedQuota DEF Entry, SizeSpec, IsOn
  <1>1. ASSUME NEW b \in Quotas
        PROVE  Hard(EnsureEnabled(b)) = Hard(b)
    <2>1. EnsureEnabled(b) = [b EXCEPT !.enabled = MergeFlag(b.enabled, "unset")]
      BY SizingAssumption DEF EnsureEnabled
    <2>2. EnsureEnabled(b).counts = b.counts
      BY <2>1 DEF Quotas
    <2> QED
      BY <2>2, EnsuredQuota DEF Hard
  <1>2. CASE e.size = Unset
    BY <1>0, <1>2 DEF Resolve, Documented
  <1>3. CASE e.size # Unset /\ e.overwrite # "on"
    <2>1. q = EnsureEnabled(t.quota) /\ t.quota # Unset
      BY <1>0, <1>3 DEF Resolve, EnsureEnabled
    <2>2. Hard(q) = Hard(t.quota) /\ Hard(q) \in [HardKeys -> Opt(Int)]
      BY <1>0, <1>1, <2>1, HardType
    <2>3. Documented(e, t) = [k \in HardKeys |-> Hard(t.quota)[k]]
      BY <1>3, <2>1 DEF Documented
    <2> QED
      BY <2>2, <2>3
  <1>4. CASE e.size # Unset /\ e.overwrite = "on"
    <2>1. e.quota # Unset /\ q = MergeQuota(t.quota, e.quota)
      BY <1>0, <1>4 DEF Resolve, AppliesTShirt
    <2>2. Documented(e, t) =
             [k \in HardKeys |->
                IF Hard(e.quota)[k] # Unset \/ Blank(e.quota, k)
                THEN Hard(e.quota)[k] ELSE Says(t.quota)[k]]
      BY <1>4, <2>1 DEF Documented
    <2>3. Hard(q) \in [HardKeys -> Opt(Int)] /\ e.quota \in Quotas
      BY <1>0, <2>1, HardType
    <2>4. \A v \in Opt(Quantity) : v = Unset => Number(v) = Unset
      BY DEF Number
    <2>5. \A v \in Quantity : v # Unset /\ v.n # Unset
      BY SizingAssumption DEF Quantity
    <2>6. CASE t.quota = Unset
      <3>1. Hard(q) = Hard(e.quota)
        BY <1>1, <2>1, <2>3, <2>6 DEF MergeQuota
      <3>2. \A k \in HardKeys : Says(t.quota)[k] = Unset
        BY <2>6
      <3>3. \A k \in HardKeys : Documented(e, t)[k] = Hard(e.quota)[k]
        BY <2>2, <3>2
      <3> QED
        BY <2>2, <2>3, <3>1, <3>3
    <2>7. CASE t.quota # Unset
      <3>1. t.quota \in Quotas /\ Says(t.quota) = Hard(t.quota)
        BY <1>0, <2>7
      <3>2. ASSUME NEW k \in Counts
            PROVE  Hard(q)[k] = IF Hard(e.quota)[k] # Unset \/ Blank(e.quota, k)
                                THEN Hard(e.quota)[k] ELSE Says(t.quota)[k]
        BY <1>0, <2>1, <2>3, <3>1, HardIs, MergedHard
      <3>3. ASSUME NEW k \in ClassKeys
            PROVE  Hard(q)[k] = IF Hard(e.quota)[k] # Unset \/ Blank(e.quota, k)
                                THEN Hard(e.quota)[k] ELSE Says(t.quota)[k]
        <4>1. k \notin QuantityKeys
          OBVIOUS
        <4>2. e.quota.classes[k] \in Opt(Quantity) /\ t.quota.classes[k] \in Opt(Quantity)
          BY <2>3, <3>1 DEF Quotas
        <4> QED
          BY <1>0, <2>1, <2>3, <2>5, <3>1, <4>1, <4>2, HardIs, MergedHard
      <3>4. ASSUME NEW k \in QuantityKeys
            PROVE  Hard(q)[k] = IF Hard(e.quota)[k] # Unset \/ Blank(e.quota, k)
                                THEN Hard(e.quota)[k] ELSE Says(t.quota)[k]
        <4>1. /\ Hard(q)[k] = Number(Given(q, k)) /\ Hard(e.quota)[k] = Number(Given(e.quota, k))
              /\ Hard(t.quota)[k] = Number(Given(t.quota, k))
          BY <1>0, <2>3, <3>1, HardIs
        <4>2. Given(q, k) = IF Given(e.quota, k) # Unset THEN Given(e.quota, k)
                            ELSE Given(t.quota, k)
          BY <2>1, <2>3, <3>1, MergedHard
        <4>3. Number(Unset) = Unset
          BY DEF Number
        <4> QED
          BY <2>1, <3>1, <4>1, <4>2, <4>3
      <3>5. \A k \in HardKeys : Hard(q)[k] = Documented(e, t)[k]
        BY <2>2, <3>2, <3>3, <3>4 DEF HardKeys
      <3> QED
        BY <2>2, <2>3, <3>5
    <2> QED
      BY <2>6, <2>7
  <1> QED
    BY <1>2, <1>3, <1>4

\* Merging an entry with its size amounts to the table of the guide, for all
\* entries and sizes, as long as no storage class key is the name of another
\* resource.
THEOREM MergeIsDocumented ==
    ASSUME ClassKeys \cap (Counts \cup QuantityKeys) = {}
    PROVE  Spec => []MergedAsDocumented
  <1>1. Init => TypeOK /\ TodoOK
    BY TypeInit DEF Init, TodoOK
  <1>2. TypeOK /\ TodoOK /\ [Next]_vars => TypeOK' /\ TodoOK'
    BY TypeStep, TodoStep
  <1>3. TypeOK => MergedAsDocumented
    BY Held, SwitchedOn, HardDocumented DEF MergedAsDocumented, Resolved
  <1> QED
    BY <1>1, <1>2, <1>3, PTL DEF Spec

=============================================================================
