--------------------------- MODULE TenantWakeUps ---------------------------
(***************************************************************************)
(* Theorems of TenantLifecycle about what is true when nothing is left to  *)
(* do for a PO: no wake-up is lost, however far the informers lag and      *)
(* whoever claims the same names, and whatever fails or restarts.          *)
(***************************************************************************)
EXTENDS TenantLifecycleProofs

\* Labels of the spec leave the managed labels alone.
PlainLabels == "override" \notin Kinds

PlainSpec(spec) == \A n \in NS : spec[n] # "override"

\* So the two managed labels of a namespace and its controller are set together,
\* and are read together.
InOneHand(rec) ==
    /\ rec.label = rec.owner
    /\ rec.phase = "absent" => rec.label = None

SpecsPlain == \A p \in PO : PlainSpec(po[p].spec) /\ PlainSpec(poCache[p].spec)

RecordsInHand == \A n \in NS : InOneHand(ns[n]) /\ InOneHand(nsCache[n])

\* ... in what a pass holds, too; and an entry fails in the loop over the entries.
PassInHand(p) ==
    /\ PlainSpec(snap[p].spec)
    /\ InOneHand(seen[p])
    /\ failed[p] => pc[p] = "entries"

HandsInv == SpecsPlain /\ RecordsInHand /\ \A p \in PO : PassInHand(p)

\* A PO that is owed no event of a namespace sees it as it is, if it is labelled
\* as the PO's there or in the cache.
SameFor(p, old, new) == old.label = p \/ new.label = p => old = new

Told(n, p) == p \in owed[n] \/ SameFor(p, nsCache[n], ns[n])

ToldInv == \A n \in NS, p \in PO : Told(n, p)

\* Nothing has happened since the pass began that runs, or was the last one,
\* that would start another one.
Undisturbed(p) ==
    /\ p \notin queue \cup delayed
    /\ poFresh[p] /\ ~failed[p]
    /\ \A n \in NS : p \notin owed[n]

\* Then the pass works on what is stored, the entries it has done are as specified,
\* what it holds of the one in work is what is stored, and a pass that was the last
\* has done them all.
Settling(p) ==
    Undisturbed(p) =>
        /\ pc[p] # "idle" => snap[p] = po[p]
        /\ pc[p] = "entries" => \A n \in NS : n \notin todo[p] => AsSpecified(p, n)
        /\ pc[p] = "entries" /\ at[p] # None => SameFor(p, seen[p], ns[at[p]])
        /\ pc[p] = "idle" =>
              /\ po[p].state # "deleting"
              /\ po[p].state = "live" /\ ~po[p].paused => \A n \in NS : AsSpecified(p, n)

SettlingInv == \A p \in PO : Settling(p)

-----------------------------------------------------------------------------
(***************************************************************************)
(* What a step does to the wake-ups of PO q: none is lost, and a change of *)
(* a namespace that is labelled as q's, or comes to be, gives one.         *)
(***************************************************************************)
Heard(q) ==
    /\ q \in queue \cup delayed => q \in queue' \cup delayed'
    /\ \A n \in NS : q \in owed[n] => q \in owed'[n] \cup queue'
    /\ \A n \in NS : SameFor(q, ns[n], ns'[n]) \/ q \in owed'[n] \cup queue'

\* A write that takes the labels off a namespace only with the namespace itself.
Writes(n) ==
    \E rec \in Namespace :
        /\ InOneHand(rec)
        /\ rec.label = None => rec.phase = "absent" \/ ns[n].label = None
        /\ WriteNamespace(n, rec)

OwnPass(q) ==
    /\ pc'[q] = pc[q] /\ snap'[q] = snap[q] /\ todo'[q] = todo[q]
    /\ at'[q] = at[q] /\ seen'[q] = seen[q] /\ failed'[q] = failed[q]

\* A write of a namespace is heard by every PO its labels name or named, and no
\* PO is left with a cached copy of its own that is out of date.
LEMMA WritesHeard ==
    ASSUME TypeOK, HandsInv, ToldInv, NEW n \in NS, Writes(n), delayed \subseteq delayed'
    PROVE  /\ \A q \in PO : Heard(q)
           /\ ToldInv'
           /\ RecordsInHand'
  <1>1. PICK rec \in Namespace :
          /\ InOneHand(rec)
          /\ rec.label = None => rec.phase = "absent" \/ ns[n].label = None
          /\ WriteNamespace(n, rec)
    BY DEF Writes
  <1>2. ns'[n] = rec /\ \A m \in NS \ {n} : ns'[m] = ns[m]
    BY <1>1 DEF WriteNamespace, TypeOK, ServerOK
  <1>3. ASSUME NEW q \in PO, ~SameFor(q, ns[n], rec) PROVE q \in Watchers(ns[n], rec)
    BY <1>1, <1>3, ConstantsAssumption DEF SameFor, Watchers, InOneHand
  <1>4. CASE CacheLags
    <2>1. /\ owed' = [owed EXCEPT ![n] = @ \cup Watchers(ns[n], rec)]
          /\ UNCHANGED <<nsCache, queue>>
      BY <1>1, <1>4 DEF WriteNamespace
    <2>2. /\ owed'[n] = owed[n] \cup Watchers(ns[n], rec)
          /\ \A m \in NS \ {n} : owed'[m] = owed[m]
      BY <2>1 DEF TypeOK, CachesOK
    <2>3. \A q \in PO : Heard(q)
      BY <1>2, <1>3, <2>1, <2>2 DEF Heard, SameFor
    <2>4. ASSUME NEW q \in PO, NEW m \in NS PROVE Told(m, q)'
      <3>1. Told(m, q)
        BY DEF ToldInv
      <3>2. CASE m # n
        BY <1>2, <2>1, <2>2, <3>1, <3>2 DEF Told, SameFor
      <3>3. CASE m = n
        BY <1>2, <1>3, <2>1, <2>2, <3>1, <3>3 DEF Told, SameFor
      <3>4. QED BY <3>2, <3>3
    <2>5. QED BY <1>1, <1>2, <2>1, <2>3, <2>4 DEF HandsInv, RecordsInHand, ToldInv
  <1>5. CASE ~CacheLags
    <2>1. /\ nsCache' = [nsCache EXCEPT ![n] = rec]
          /\ queue' = queue \cup Watchers(ns[n], rec)
          /\ UNCHANGED owed
      BY <1>1, <1>5 DEF WriteNamespace
    <2>2. nsCache'[n] = rec /\ \A m \in NS \ {n} : nsCache'[m] = nsCache[m]
      BY <2>1 DEF TypeOK, CachesOK
    <2>3. \A q \in PO : Heard(q)
      BY <1>2, <1>3, <2>1 DEF Heard, SameFor
    <2>4. \A q \in PO, m \in NS : Told(m, q)'
      BY <1>2, <2>1, <2>2 DEF ToldInv, Told, SameFor
    <2>5. QED BY <1>1, <1>2, <2>2, <2>3, <2>4 DEF HandsInv, RecordsInHand, ToldInv
  <1>6. QED BY <1>4, <1>5

\* Nothing is heard, and nothing missed, of namespaces that stay as they are.
LEMMA SilenceHeard ==
    ASSUME NamespaceUntouched, delayed \subseteq delayed'
    PROVE  /\ \A q \in PO : Heard(q)
           /\ ToldInv => ToldInv'
           /\ RecordsInHand => RecordsInHand'
  BY DEF NamespaceUntouched, Heard, SameFor, ToldInv, Told, RecordsInHand

\* A delete call is such a write, or none.
LEMMA DeleteWrites ==
    ASSUME TypeOK, HandsInv, NEW n \in NS, DeleteNamespaceCall(n)
    PROVE  Writes(n) \/ NamespaceUntouched
  <1>1. CASE ns[n].phase = "active"
    <2> DEFINE rec == [ns[n] EXCEPT !.phase = "terminating"]
    <2>1. rec \in Namespace /\ rec.label = ns[n].label /\ rec.owner = ns[n].owner
          /\ rec.phase = "terminating"
      BY DEF TypeOK, ServerOK, Namespace
    <2>2. InOneHand(ns[n])
      BY DEF HandsInv, RecordsInHand
    <2>3. WriteNamespace(n, rec)
      BY <1>1 DEF DeleteNamespaceCall
    <2> HIDE DEF rec
    <2>4. InOneHand(rec)
      BY <2>1, <2>2 DEF InOneHand
    <2>5. QED BY <2>1, <2>3, <2>4 DEF Writes
  <1>2. CASE ns[n].phase # "active"
    BY <1>2 DEF DeleteNamespaceCall
  <1>3. QED BY <1>1, <1>2

\* So is what a pass writes: both labels and the controller, or none of them.
LEMMA TenantWrites ==
    ASSUME TypeOK, HandsInv, NEW p \in PO, NEW n \in NS, WriteTenant(p, n)
    PROVE  /\ Writes(n)
           /\ snap[p].spec[n] = "active"
           /\ SameFor(p, seen[p], ns[n]) => ns'[n].label = p /\ ns'[n].owner = p
  <1>1. snap[p].spec[n] = "active"
    BY DEF WriteTenant, HandsInv, PassInHand, PlainSpec
  <1>2. DesiredLabel(p, n) = p
    BY <1>1 DEF DesiredLabel
  <1>3. ns[n] \in Namespace /\ InOneHand(ns[n]) /\ InOneHand(seen[p])
    BY DEF TypeOK, ServerOK, HandsInv, RecordsInHand, PassInHand
  <1>4. CASE ns[n].phase = "absent"
    <2> DEFINE rec == [phase |-> "active", label |-> p, owner |-> p]
    <2>1. rec \in Namespace /\ rec.label = p /\ rec.owner = p /\ rec.phase = "active"
      BY DEF Namespace
    <2>2. WriteNamespace(n, rec)
      BY <1>2, <1>4 DEF WriteTenant
    <2>3. ns'[n] = rec
      BY <2>2 DEF WriteNamespace, TypeOK, ServerOK
    <2> HIDE DEF rec
    <2>4. InOneHand(rec)
      BY <2>1 DEF InOneHand
    <2>5. QED BY <1>1, <2>1, <2>2, <2>3, <2>4, ConstantsAssumption DEF Writes
  <1>5. CASE ns[n].phase # "absent"
    <2> DEFINE rec == Patched(p, n)
    <2>1. /\ rec \in Namespace /\ rec.phase = ns[n].phase
          /\ rec.label = IF seen[p].label = p THEN ns[n].label ELSE p
          /\ rec.owner = IF seen[p].owner = p THEN ns[n].owner ELSE p
      BY <1>2, <1>3 DEF Patched, Namespace
    <2>2. WriteNamespace(n, rec)
      BY <1>5 DEF WriteTenant
    <2>3. ns'[n] = rec
      BY <2>2 DEF WriteNamespace, TypeOK, ServerOK
    <2> HIDE DEF rec
    <2>4. InOneHand(rec)
      BY <1>3, <1>5, <2>1 DEF InOneHand
    <2>5. rec.label = None => ns[n].label = None
      BY <2>1, ConstantsAssumption
    <2>6. SameFor(p, seen[p], ns[n]) => rec.label = p /\ rec.owner = p
      BY <1>3, <2>1 DEF SameFor, InOneHand
    <2>7. QED BY <1>1, <2>1, <2>2, <2>3, <2>4, <2>5, <2>6 DEF Writes
  <1>6. QED BY <1>4, <1>5

\* A pass ends or goes on without the entry in work, or reads one.
LEMMA PassesHeld ==
    ASSUME TypeOK, HandsInv, NEW p \in PO, NEW n \in NS,
           \/ Finish(p) /\ delayed \subseteq delayed'
           \/ EntryDone(p, n) \/ EntryFails(p, n) \/ Reads(p, n)
    PROVE  /\ \A q \in PO : PassInHand(q)'
           /\ \A q \in PO \ {p} : OwnPass(q)
           /\ delayed \subseteq delayed'
  <1>1. InOneHand(NoNamespace) /\ PlainSpec(NoObject.spec)
    BY DEF InOneHand, NoNamespace, PlainSpec, NoObject
  <1>2. InOneHand(nsCache[n]) /\ \A q \in PO : PassInHand(q)
    BY DEF HandsInv, RecordsInHand
  <1>3. CASE Finish(p) /\ delayed \subseteq delayed'
    BY <1>1, <1>2, <1>3 DEF Finish, TypeOK, LocalsOK, PassInHand, OwnPass
  <1>4. CASE EntryDone(p, n)
    BY <1>1, <1>2, <1>4 DEF EntryDone, Leaves, TypeOK, LocalsOK, PassInHand, OwnPass
  <1>5. CASE Reads(p, n)
    BY <1>2, <1>5 DEF Reads, TypeOK, LocalsOK, PassInHand, OwnPass
  <1>6. CASE EntryFails(p, n)
    <2>1. CASE pc[p] = "entries"
      BY <1>1, <1>2, <1>6, <2>1 DEF EntryFails, Leaves, TypeOK, LocalsOK, PassInHand, OwnPass
    <2>2. CASE pc[p] # "entries"
      BY <1>3, <1>6, <2>2 DEF EntryFails, Retry
    <2>3. QED BY <2>1, <2>2
  <1>7. QED BY <1>3, <1>4, <1>5, <1>6

\* What is true of a PO stays true while its pass does not move and it hears of
\* every change.
LEMMA Bystander ==
    ASSUME TypeOK, NEW q \in PO, Settling(q), po'[q] = po[q], poFresh'[q] => poFresh[q],
           OwnPass(q), Heard(q)
    PROVE  Settling(q)'
  <1> SUFFICES ASSUME Undisturbed(q)'
               PROVE  /\ pc'[q] # "idle" => snap'[q] = po'[q]
                      /\ pc'[q] = "entries" => \A n \in NS : n \notin todo'[q] => AsSpecified(q, n)'
                      /\ pc'[q] = "entries" /\ at'[q] # None => SameFor(q, seen'[q], ns'[at'[q]])
                      /\ pc'[q] = "idle" =>
                            /\ po'[q].state # "deleting"
                            /\ po'[q].state = "live" /\ ~po'[q].paused =>
                                  \A n \in NS : AsSpecified(q, n)'
    BY DEF Settling, SameFor
  <1>1. Undisturbed(q) /\ \A n \in NS : SameFor(q, ns[n], ns'[n])
    BY DEF Undisturbed, Heard, OwnPass
  <1>2. \A n \in NS : AsSpecified(q, n) => AsSpecified(q, n)'
    BY <1>1 DEF AsSpecified, SameFor
  <1>3. at[q] \in NS \cup {None}
    BY DEF TypeOK, LocalsOK
  <1>4. ASSUME pc[q] = "entries", at[q] # None PROVE SameFor(q, seen[q], ns'[at[q]])
    BY <1>1, <1>3, <1>4 DEF Settling, SameFor
  <1>5. QED
    BY <1>1, <1>2, <1>4 DEF Settling, OwnPass

WakeInv == HandsInv /\ ToldInv /\ SettlingInv

-----------------------------------------------------------------------------
(***************************************************************************)
(* Every action keeps WakeInv.                                             *)
(***************************************************************************)

\* Nothing exists at first, and nothing is asked for.
LEMMA WakeInit == Init => WakeInv
  <1> SUFFICES ASSUME Init PROVE WakeInv
    OBVIOUS
  <1>1. HandsInv
    BY ConstantsAssumption DEF Init, HandsInv, SpecsPlain, PlainSpec, RecordsInHand, InOneHand, PassInHand,
       NoObject, NoNamespace
  <1>2. ToldInv
    BY DEF Init, ToldInv, Told, SameFor
  <1>3. SettlingInv
    BY DEF Init, NoObject, SettlingInv, Settling
  <1>4. QED BY <1>1, <1>2, <1>3 DEF WakeInv

\* A user's write of a PO makes the cached copy stale: the PO will be woken.
LEMMA WakeUserWrite ==
    ASSUME TypeOK, WakeInv, NEW p \in PO, NEW rec, PlainSpec(rec.spec), WriteObject(p, rec),
           UNCHANGED <<ns, poCache, nsCache, owed, wakeups, pc, snap, todo, at, seen, failed>>
    PROVE  WakeInv'
  <1>1. /\ po'[p] = rec /\ ~poFresh'[p]
        /\ \A q \in PO \ {p} : po'[q] = po[q] /\ poFresh'[q] = poFresh[q]
    BY DEF WriteObject, TypeOK, ServerOK, CachesOK
  <1>2. HandsInv'
    BY <1>1 DEF WakeInv, HandsInv, SpecsPlain, RecordsInHand, PassInHand
  <1>3. ToldInv' /\ \A q \in PO : Heard(q)
    BY SilenceHeard DEF WakeInv, NamespaceUntouched, wakeups
  <1>4. Settling(p)'
    BY <1>1 DEF Settling, Undisturbed
  <1>5. \A q \in PO \ {p} : Settling(q)'
    BY <1>1, <1>3, Bystander DEF WakeInv, SettlingInv, OwnPass
  <1>6. QED BY <1>2, <1>3, <1>4, <1>5 DEF WakeInv, SettlingInv

\* Others write and delete namespaces beside the passes.
LEMMA WakeOutside ==
    ASSUME TypeOK, WakeInv, NEW n \in NS, Writes(n) \/ NamespaceUntouched,
           UNCHANGED <<po, poCache, poFresh, delayed, pass>>
    PROVE  WakeInv'
  <1>1. ToldInv' /\ RecordsInHand' /\ \A q \in PO : Heard(q)
    BY WritesHeard, SilenceHeard DEF WakeInv, HandsInv
  <1>2. HandsInv'
    BY <1>1 DEF WakeInv, HandsInv, SpecsPlain, PassInHand, pass
  <1>3. \A q \in PO : Settling(q)'
    BY <1>1, Bystander DEF WakeInv, SettlingInv, OwnPass, pass
  <1>4. QED BY <1>1, <1>2, <1>3 DEF WakeInv, SettlingInv

\* Users' edits.
LEMMA WakeUsers == ASSUME TypeOK, WakeInv, PlainLabels, Users PROVE WakeInv'
  <1>1. ASSUME NEW p \in PO, CreateObject(p) PROVE WakeInv'
    <2>1. PICK spec \in [NS -> Kinds] :
             WriteObject(p, [NoObject EXCEPT !.state = "live", !.spec = spec])
      BY <1>1 DEF CreateObject
    <2>2. PlainSpec([NoObject EXCEPT !.state = "live", !.spec = spec].spec)
      BY DEF NoObject, PlainSpec, PlainLabels
    <2>3. QED BY <1>1, <2>1, <2>2, WakeUserWrite DEF CreateObject
  <1>2. ASSUME NEW p \in PO, EditSpec(p) PROVE WakeInv'
    <2>1. PICK n \in Claims[p], k \in Kinds : WriteObject(p, [po[p] EXCEPT !.spec[n] = k])
      BY <1>2 DEF EditSpec
    <2>2. PlainSpec([po[p] EXCEPT !.spec[n] = k].spec)
      BY DEF PlainSpec, PlainLabels, WakeInv, HandsInv, SpecsPlain, TypeOK, ServerOK, Object
    <2>3. QED BY <1>2, <2>1, <2>2, WakeUserWrite DEF EditSpec
  <1>3. ASSUME NEW p \in PO, TogglePause(p) PROVE WakeInv'
    <2>1. PlainSpec([po[p] EXCEPT !.paused = ~po[p].paused].spec)
      BY DEF PlainSpec, WakeInv, HandsInv, SpecsPlain, TypeOK, ServerOK, Object
    <2>2. QED BY <1>3, <2>1, WakeUserWrite DEF TogglePause
  <1>4. ASSUME NEW p \in PO, DeleteObject(p) PROVE WakeInv'
    <2>1. PlainSpec([po[p] EXCEPT !.state = IF po[p].fin THEN "deleting" ELSE "gone"].spec)
      BY DEF PlainSpec, WakeInv, HandsInv, SpecsPlain, TypeOK, ServerOK, Object
    <2>2. QED BY <1>4, <2>1, WakeUserWrite DEF DeleteObject
  <1>5. ASSUME NEW n \in NS, UserCreatesNamespace(n) PROVE WakeInv'
    <2> DEFINE rec == [NoNamespace EXCEPT !.phase = "active"]
    <2>1. /\ rec \in Namespace /\ rec.phase = "active"
          /\ rec.label = None /\ rec.owner = None
      BY DEF NoNamespace, Namespace
    <2>2. WriteNamespace(n, rec)
      BY <1>5 DEF UserCreatesNamespace
    <2> HIDE DEF rec
    <2>3. ns[n].label = None
      BY <1>5 DEF UserCreatesNamespace, WakeInv, HandsInv, RecordsInHand, InOneHand
    <2>4. Writes(n)
      BY <2>1, <2>2, <2>3 DEF Writes, InOneHand
    <2>5. QED BY <1>5, <2>4, WakeOutside DEF UserCreatesNamespace
  <1>6. ASSUME NEW n \in NS, UserDeletesNamespace(n) PROVE WakeInv'
    <2>1. Writes(n) \/ NamespaceUntouched
      BY <1>6, DeleteWrites DEF UserDeletesNamespace, WakeInv
    <2>2. QED BY <1>6, <2>1, WakeOutside DEF UserDeletesNamespace
  <1>7. QED BY <1>1, <1>2, <1>3, <1>4, <1>5, <1>6 DEF Users

\* An event that arrives puts its PO in the queue, and the cache up to date.
LEMMA WakeCluster == ASSUME TypeOK, WakeInv, Cluster PROVE WakeInv'
  <1> USE DEF pass, server, caches
  <1>1. ASSUME NEW p \in PO, SyncObject(p) PROVE WakeInv'
    <2>1. /\ poCache'[p] = po[p] /\ queue' = queue \cup {p}
          /\ \A q \in PO \ {p} : poCache'[q] = poCache[q] /\ poFresh'[q] = poFresh[q]
          /\ UNCHANGED <<po, ns, nsCache, owed, delayed, pass>>
      BY <1>1 DEF SyncObject, TypeOK, CachesOK
    <2>2. HandsInv' /\ ToldInv'
      BY <2>1 DEF WakeInv, HandsInv, SpecsPlain, RecordsInHand, PassInHand, ToldInv, Told
    <2>3. Settling(p)'
      BY <2>1 DEF Settling, Undisturbed
    <2>4. \A q \in PO : Heard(q)
      BY <2>1 DEF Heard, SameFor
    <2>5. \A q \in PO \ {p} : Settling(q)'
      BY <2>1, <2>4, Bystander DEF WakeInv, SettlingInv, OwnPass
    <2>6. QED BY <2>2, <2>3, <2>5 DEF WakeInv, SettlingInv
  <1>2. ASSUME NEW p \in PO, TimerFires(p) \/ Resync(p) PROVE WakeInv'
    <2>1. /\ queue' = queue \cup {p} /\ delayed \subseteq delayed' \cup {p}
          /\ UNCHANGED <<po, poCache, poFresh, ns, nsCache, owed, pass>>
      BY <1>2 DEF TimerFires, Resync
    <2>2. HandsInv' /\ ToldInv'
      BY <2>1 DEF WakeInv, HandsInv, SpecsPlain, RecordsInHand, PassInHand, ToldInv, Told
    <2>3. \A q \in PO : Heard(q)
      BY <2>1 DEF Heard, SameFor
    <2>4. \A q \in PO : Settling(q)'
      BY <2>1, <2>3, Bystander DEF WakeInv, SettlingInv, OwnPass
    <2>5. QED BY <2>2, <2>4 DEF WakeInv, SettlingInv
  <1>3. ASSUME NEW n \in NS, SyncNamespace(n) PROVE WakeInv'
    <2>1. /\ nsCache'[n] = ns[n] /\ queue' = queue \cup owed[n]
          /\ \A m \in NS \ {n} : nsCache'[m] = nsCache[m] /\ owed'[m] = owed[m]
          /\ UNCHANGED <<po, poCache, poFresh, ns, delayed, pass>>
      BY <1>3 DEF SyncNamespace, TypeOK, CachesOK
    <2>2. HandsInv'
      BY <2>1 DEF WakeInv, HandsInv, SpecsPlain, RecordsInHand, PassInHand
    <2>3. ToldInv'
      BY <2>1 DEF WakeInv, ToldInv, Told, SameFor
    <2>4. \A q \in PO : Heard(q)
      BY <2>1 DEF Heard, SameFor
    <2>5. \A q \in PO : Settling(q)'
      BY <2>1, <2>4, Bystander DEF WakeInv, SettlingInv, OwnPass
    <2>6. QED BY <2>2, <2>3, <2>5 DEF WakeInv, SettlingInv
  <1>4. ASSUME NEW n \in NS, NamespaceTerminated(n) PROVE WakeInv'
    <2>1. Writes(n)
      BY <1>4 DEF NamespaceTerminated, Writes, NoNamespace, Namespace, InOneHand
    <2>2. QED BY <1>4, <2>1, WakeOutside DEF NamespaceTerminated
  <1>5. ASSUME NEW n \in NS, GarbageCollect(n) PROVE WakeInv'
    <2>1. Writes(n) \/ NamespaceUntouched
      BY <1>5, DeleteWrites DEF GarbageCollect, WakeInv
    <2>2. QED BY <1>5, <2>1, WakeOutside DEF GarbageCollect
  <1>6. QED BY <1>1, <1>2, <1>3, <1>4, <1>5 DEF Cluster

\* A pass that starts works on the version that is stored, unless a newer one
\* is on its way to the cache.
LEMMA WakeStart ==
    ASSUME TypeOK, FinalizerNotForgotten, WakeInv, NEW p \in PO, Start(p)
    PROVE  WakeInv'
  <1>1. /\ queue' = queue \ {p} /\ pc[p] = "idle"
        /\ UNCHANGED <<po, ns, poCache, poFresh, nsCache, owed, delayed, at, seen, failed>>
    BY DEF Start, server, caches
  <1>2. \A q \in PO \ {p} : Heard(q)
    BY <1>1 DEF Heard, SameFor
  <1>3. \/ poCache[p].state \in {"absent", "gone"} /\ UNCHANGED <<pc, snap, todo>>
        \/ /\ poCache[p].state \in {"live", "deleting"}
           /\ pc'[p] \in {"ensure", "finalize"}
           /\ snap'[p] = poCache[p]
           /\ \A q \in PO \ {p} : pc'[q] = pc[q] /\ snap'[q] = snap[q] /\ todo'[q] = todo[q]
    BY DEF Start, Goto, TypeOK, LocalsOK
  <1>4. HandsInv' /\ ToldInv'
    <2>1. \A q \in PO : PassInHand(q)'
      BY <1>1, <1>3 DEF WakeInv, HandsInv, SpecsPlain, PassInHand
    <2>2. QED
      BY <1>1, <2>1 DEF WakeInv, HandsInv, SpecsPlain, RecordsInHand, ToldInv, Told
  <1>5. Settling(p)'
    <2>1. poFresh[p] => poCache[p] = po[p]
      BY DEF FinalizerNotForgotten, FinalizerKnown
    <2>2. QED BY <1>1, <1>3, <2>1 DEF Settling, Undisturbed
  <1>6. \A q \in PO \ {p} : Settling(q)'
    BY <1>1, <1>2, <1>3, Bystander DEF WakeInv, SettlingInv, OwnPass
  <1>7. QED BY <1>4, <1>5, <1>6 DEF WakeInv, SettlingInv

\* A step of the pass of p does not disturb the others' passes; what is left to
\* show is that it settles p's own.
LEMMA WakePass ==
    ASSUME TypeOK, WakeInv, NEW p \in PO,
           \A q \in PO : PassInHand(q)',
           \A q \in PO \ {p} : OwnPass(q) /\ po'[q] = po[q],
           \A q \in PO : po'[q].spec = po[q].spec /\ (poFresh'[q] => poFresh[q]),
           UNCHANGED poCache, delayed \subseteq delayed',
           NamespaceUntouched \/ \E n \in NS : Writes(n),
           (\A q \in PO : Heard(q)) => Settling(p)'
    PROVE  WakeInv'
  <1>1. ToldInv' /\ RecordsInHand' /\ \A q \in PO : Heard(q)
    BY WritesHeard, SilenceHeard DEF WakeInv, HandsInv
  <1>2. HandsInv'
    BY <1>1 DEF WakeInv, HandsInv, SpecsPlain
  <1>3. \A q \in PO \ {p} : Settling(q)'
    BY <1>1, Bystander DEF WakeInv, SettlingInv
  <1>4. QED BY <1>1, <1>2, <1>3 DEF WakeInv, SettlingInv

\* A pass that comes back is not left alone.
LEMMA RetrySettles ==
    ASSUME TypeOK, NEW p \in PO, Retry(p)
    PROVE  Settling(p)'
  BY DEF Retry, Settling, Undisturbed

\* Nor is one with an entry that failed.
LEMMA EntryFailsSettles ==
    ASSUME TypeOK, NEW p \in PO, NEW n \in NS, EntryFails(p, n)
    PROVE  Settling(p)'
  BY RetrySettles DEF EntryFails, TypeOK, LocalsOK, Settling, Undisturbed

\* An entry that is done is as specified, as far as anybody knows.
LEMMA EntryDoneSettles ==
    ASSUME TypeOK, NEW p \in PO, NEW n \in NS, Settling(p), EntryDone(p, n), Heard(p),
           UNCHANGED po, poFresh'[p] => poFresh[p],
           Undisturbed(p)' /\ pc[p] = "entries" => AsSpecified(p, n)', pc[p] # "idle"
    PROVE  Settling(p)'
  <1> SUFFICES ASSUME Undisturbed(p)'
               PROVE  /\ snap'[p] = po'[p] /\ pc'[p] # "idle" /\ at'[p] = None
                      /\ pc'[p] = "entries" => \A m \in NS : m \notin todo'[p] => AsSpecified(p, m)'
    BY DEF Settling
  <1>1. Undisturbed(p) /\ \A m \in NS : SameFor(p, ns[m], ns'[m])
    BY DEF Undisturbed, Heard, EntryDone
  <1>2. \A m \in NS : AsSpecified(p, m) => AsSpecified(p, m)'
    BY <1>1 DEF AsSpecified, SameFor
  <1>3. /\ UNCHANGED <<pc, snap>> /\ at'[p] = None
        /\ todo'[p] = todo[p] \ {n}
    BY DEF EntryDone, Leaves, TypeOK, LocalsOK
  <1>4. QED BY <1>1, <1>2, <1>3 DEF Settling

\* A read that the PO is owed no event of returns what is stored.
LEMMA ReadsSettles ==
    ASSUME TypeOK, ToldInv, NEW p \in PO, NEW n \in NS, Settling(p), Reads(p, n),
           UNCHANGED <<po, poFresh, ns, owed, queue>>, pc[p] # "idle"
    PROVE  Settling(p)'
  <1> SUFFICES ASSUME Undisturbed(p)'
               PROVE  /\ snap'[p] = po'[p] /\ pc'[p] # "idle"
                      /\ SameFor(p, seen'[p], ns'[at'[p]])
                      /\ pc'[p] = "entries" => \A m \in NS : m \notin todo'[p] => AsSpecified(p, m)'
    BY DEF Settling, SameFor
  <1>1. Undisturbed(p)
    BY DEF Undisturbed, Reads
  <1>2. SameFor(p, nsCache[n], ns[n])
    BY <1>1 DEF ToldInv, Told, Undisturbed
  <1>3. UNCHANGED <<pc, snap, todo>> /\ at'[p] = n /\ seen'[p] = nsCache[n]
    BY DEF Reads, TypeOK, LocalsOK
  <1>4. QED BY <1>1, <1>2, <1>3 DEF Settling, AsSpecified, SameFor

\* A stage change outside the loop over the entries, which is where an entry fails.
LEMMA WakeGoto ==
    ASSUME TypeOK, WakeInv, NEW p \in PO, NEW stage \in Stages, Goto(p, stage),
           pc[p] # "entries", UNCHANGED <<po, poCache, poFresh, ns, nsCache, owed, queue, delayed>>,
           UNCHANGED <<snap, at, seen, failed>>,
           \A q \in PO \ {p} : todo'[q] = todo[q], Settling(p)'
    PROVE  WakeInv'
  <1>1. pc'[p] = stage /\ \A q \in PO \ {p} : pc'[q] = pc[q]
    BY DEF Goto, TypeOK, LocalsOK
  <1>2. \A q \in PO : PassInHand(q)'
    BY <1>1 DEF WakeInv, HandsInv, PassInHand
  <1>3. QED
    BY <1>1, <1>2, WakePass DEF OwnPass, NamespaceUntouched

\* The steps that end a pass or change its stage.
LEMMA WakeStages ==
    ASSUME TypeOK, FinalizerNotForgotten, WakeInv, NEW p \in PO,
           \/ FinalizerPresent(p) \/ AddFinalizer(p) \/ UpdateConflict(p)
           \/ ListOffboarded(p) \/ BeginEntries(p) \/ UpdateStatus(p)
           \/ ListOrphans(p) \/ ReportBlocked(p) \/ RemoveFinalizer(p)
    PROVE  WakeInv'
  <1> USE DEF server, caches, wakeups
  <1>0. Settling(p) /\ PassInHand(p) /\ PassOK(p)
    BY DEF WakeInv, SettlingInv, HandsInv, TypeOK
  <1>1. ASSUME Done(p) \/ Retry(p), \A q \in PO \ {p} : po'[q] = po[q],
               \A q \in PO : po'[q].spec = po[q].spec /\ (poFresh'[q] => poFresh[q]),
               UNCHANGED <<poCache, ns, nsCache, owed, queue>>,
               (\A q \in PO : Heard(q)) => Settling(p)'
        PROVE  WakeInv'
    <2>1. Finish(p) /\ delayed \subseteq delayed'
      BY <1>1 DEF Done, Retry
    <2>2. (\A q \in PO : PassInHand(q)') /\ \A q \in PO \ {p} : OwnPass(q)
      <3>1. InOneHand(NoNamespace) /\ PlainSpec(NoObject.spec)
        BY DEF InOneHand, NoNamespace, PlainSpec, NoObject
      <3>2. QED
        BY <2>1, <3>1 DEF Finish, TypeOK, LocalsOK, WakeInv, HandsInv, PassInHand, OwnPass
    <2>3. QED BY <1>1, <2>1, <2>2, WakePass DEF NamespaceUntouched
  <1>2. CASE FinalizerPresent(p)
    <2>1. CASE snap[p].paused
      <3>1. Done(p) /\ UNCHANGED <<po, poCache, poFresh, ns, nsCache, owed, queue>>
        BY <1>2, <2>1 DEF FinalizerPresent, AfterEnsure
      <3>2. Settling(p)'
        <4>1. pc[p] = "ensure" /\ ~failed[p] /\ snap[p].state = "live"
          BY <1>0, <1>2 DEF FinalizerPresent, PassInHand, PassOK
        <4>2. pc'[p] = "idle"
          BY <3>1 DEF Done, Finish, TypeOK, LocalsOK
        <4>3. Undisturbed(p)' => snap[p] = po[p]
          BY <1>0, <3>1, <4>1 DEF Settling, Undisturbed, Done
        <4>4. QED BY <2>1, <3>1, <4>1, <4>2, <4>3 DEF Settling
      <3>3. QED BY <1>1, <3>1, <3>2
    <2>2. CASE ~snap[p].paused
      <3>1. Goto(p, "list") /\ pc[p] = "ensure" /\ UNCHANGED <<snap, at, seen, failed, todo>>
            /\ UNCHANGED <<po, poCache, poFresh, ns, nsCache, owed, queue, delayed>>
        BY <1>2, <2>2 DEF FinalizerPresent, AfterEnsure
      <3>2. Settling(p)'
        BY <1>0, <3>1 DEF Settling, Undisturbed, Goto, TypeOK, LocalsOK
      <3>3. QED BY <3>1, <3>2, WakeGoto DEF Stages
    <2>3. QED BY <2>1, <2>2
  <1>3. CASE AddFinalizer(p)
    <2>1. /\ po' = [po EXCEPT ![p].fin = TRUE]
          /\ UNCHANGED <<poCache, ns, nsCache, owed, queue>>
          /\ pc[p] = "ensure"
      BY <1>3 DEF AddFinalizer
    <2>2. /\ \A q \in PO \ {p} : po'[q] = po[q]
          /\ \A q \in PO : po'[q].spec = po[q].spec
      BY <2>1 DEF TypeOK, ServerOK, Object
    <2>3. ~poFresh'[p] /\ \A q \in PO : poFresh'[q] => poFresh[q]
      BY <1>3 DEF AddFinalizer, TypeOK, CachesOK
    <2>4. Settling(p)'
      BY <2>3 DEF Settling, Undisturbed
    <2>5. CASE Done(p) \/ Retry(p)
      BY <1>1, <2>1, <2>2, <2>3, <2>4, <2>5
    <2>6. CASE /\ Goto(p, "list")
               /\ snap' = [snap EXCEPT ![p].fin = TRUE]
               /\ UNCHANGED <<delayed, current, todo, at, seen, pending, failed>>
      <3>1. /\ \A q \in PO \ {p} : snap'[q] = snap[q] /\ pc'[q] = pc[q]
            /\ \A q \in PO : snap'[q].spec = snap[q].spec
            /\ pc'[p] = "list"
        BY <2>6 DEF Goto, TypeOK, LocalsOK, Object
      <3>2. (\A q \in PO : PassInHand(q)') /\ \A q \in PO \ {p} : OwnPass(q)
        BY <2>1, <2>6, <3>1 DEF WakeInv, HandsInv, PassInHand, OwnPass
      <3>3. QED BY <2>1, <2>2, <2>3, <2>4, <2>6, <3>2, WakePass DEF NamespaceUntouched
    <2>7. QED BY <1>3, <2>5, <2>6 DEF AddFinalizer
  <1>4. CASE UpdateConflict(p)
    BY <1>1, <1>4, RetrySettles DEF UpdateConflict
  <1>5. CASE ListOffboarded(p)
    <2>1. Settling(p)'
      BY <1>0, <1>5 DEF ListOffboarded, Settling, Undisturbed, Goto, TypeOK, LocalsOK
    <2>2. \A q \in PO \ {p} : todo'[q] = todo[q]
      BY <1>5 DEF ListOffboarded, TypeOK, LocalsOK
    <2>3. QED BY <1>5, <2>1, <2>2, WakeGoto DEF ListOffboarded, Stages
  <1>6. CASE BeginEntries(p)
    <2>1. /\ pc[p] = "prune" /\ pc'[p] = "entries" /\ at[p] = None
          /\ UNCHANGED <<po, poFresh, owed, queue, delayed, ns, snap, at, seen, failed>>
          /\ todo'[p] = {n \in NS : snap[p].spec[n] \notin {"none", "frozen"}}
          /\ \A q \in PO \ {p} : todo'[q] = todo[q]
      BY <1>0, <1>6 DEF BeginEntries, Goto, TypeOK, LocalsOK, PassOK
    <2>2. Undisturbed(p)' => snap[p] = po[p]
      BY <1>0, <2>1 DEF Undisturbed, Settling
    <2>3. Settling(p)'
      BY <2>1, <2>2 DEF Settling, AsSpecified
    <2>4. QED BY <1>6, <2>1, <2>3, WakeGoto DEF BeginEntries, Stages
  <1>7. CASE UpdateStatus(p)
    <2>1. /\ pc[p] = "entries" /\ todo[p] = {}
          /\ UNCHANGED <<po, poCache, ns, nsCache, owed, queue>>
          /\ Retry(p) \/ (Done(p) /\ ~failed[p])
          /\ \A q \in PO : poFresh'[q] => poFresh[q]
      BY <1>7 DEF UpdateStatus, WriteStatus, TypeOK, CachesOK
    <2>2. CASE Retry(p)
      BY <1>1, <2>1, <2>2, RetrySettles
    <2>3. CASE Done(p) /\ ~failed[p]
      <3>1. Undisturbed(p)' => snap[p] = po[p] /\ \A n \in NS : AsSpecified(p, n)
        BY <1>0, <2>1, <2>3 DEF Settling, Undisturbed, Done
      <3>2. pc'[p] = "idle" /\ snap[p].state = "live"
        BY <1>0, <2>1, <2>3 DEF Done, Finish, TypeOK, LocalsOK, PassOK, Provisioning
      <3>3. Settling(p)'
        BY <2>1, <3>1, <3>2 DEF Settling, AsSpecified
      <3>4. QED BY <1>1, <2>1, <2>3, <3>3
    <2>4. QED BY <2>1, <2>2, <2>3
  <1>8. CASE ListOrphans(p)
    <2>1. Settling(p)'
      BY <1>0, <1>8 DEF ListOrphans, Settling, Undisturbed, Goto, TypeOK, LocalsOK
    <2>2. QED BY <1>8, <2>1, WakeGoto DEF ListOrphans, Stages
  <1>9. CASE ReportBlocked(p)
    <2>1. /\ Retry(p) /\ UNCHANGED <<po, poCache, ns, nsCache, owed, queue>>
          /\ \A q \in PO : poFresh'[q] => poFresh[q]
      BY <1>9 DEF ReportBlocked, WriteStatus, TypeOK, CachesOK
    <2>2. QED BY <1>1, <2>1, RetrySettles
  <1>10. CASE RemoveFinalizer(p)
    <2>1. /\ po' = [po EXCEPT ![p].fin = FALSE, ![p].state = "gone"]
          /\ UNCHANGED <<poCache, ns, nsCache, owed, queue>>
          /\ Done(p) \/ Retry(p)
      BY <1>10 DEF RemoveFinalizer
    <2>2. /\ \A q \in PO \ {p} : po'[q] = po[q]
          /\ \A q \in PO : po'[q].spec = po[q].spec
      BY <2>1 DEF TypeOK, ServerOK, Object
    <2>3. ~poFresh'[p] /\ \A q \in PO : poFresh'[q] => poFresh[q]
      BY <1>10 DEF RemoveFinalizer, TypeOK, CachesOK
    <2>4. QED BY <1>1, <2>1, <2>2, <2>3 DEF Settling, Undisturbed
  <1>11. QED BY <1>2, <1>3, <1>4, <1>5, <1>6, <1>7, <1>8, <1>9, <1>10

\* The steps that visit an entry.
LEMMA WakeEntries ==
    ASSUME TypeOK, WakeInv, NEW p \in PO, NEW n \in NS,
           \/ ReadOffboarded(p, n) \/ DeleteOffboarded(p, n) \/ ReadTenant(p, n)
           \/ WriteTenant(p, n) \/ WriteTenantRefused(p, n) \/ JudgeEntry(p, n)
    PROVE  WakeInv'
  <1> USE DEF server, caches
  <1>0. Settling(p) /\ PassInHand(p) /\ PassOK(p)
    BY DEF WakeInv, SettlingInv, HandsInv, TypeOK
  <1>1. ASSUME EntryDone(p, n) \/ EntryFails(p, n) \/ Reads(p, n),
               UNCHANGED <<po, poCache, poFresh>>,
               NamespaceUntouched \/ Writes(n),
               Heard(p) => Settling(p)'
        PROVE  WakeInv'
    <2>1. /\ \A q \in PO : PassInHand(q)'
          /\ \A q \in PO \ {p} : OwnPass(q)
          /\ delayed \subseteq delayed'
      BY <1>1, PassesHeld DEF WakeInv
    <2>2. QED BY <1>1, <2>1, WakePass
  <1>2. CASE ReadOffboarded(p, n)
    <2>1. /\ pc[p] \in Loops /\ snap[p].spec[n] = "offboard"
          /\ UNCHANGED <<po, poCache, poFresh, ns, nsCache, owed, queue>>
          /\ IF ManagedBy(p, n) THEN Reads(p, n) ELSE EntryDone(p, n)
      BY <1>2 DEF ReadOffboarded, Loops
    <2>2. CASE ManagedBy(p, n)
      BY <1>0, <1>1, <2>1, <2>2, ReadsSettles DEF NamespaceUntouched, WakeInv, Loops
    <2>3. CASE ~ManagedBy(p, n)
      <3>1. ASSUME Undisturbed(p)', pc[p] = "entries" PROVE AsSpecified(p, n)'
        <4>1. Undisturbed(p)
          BY <2>1, <2>3, <3>1 DEF Undisturbed, EntryDone
        <4>2. SameFor(p, nsCache[n], ns[n])
          BY <4>1 DEF Undisturbed, WakeInv, ToldInv, Told
        <4>3. ns[n].label # p
          BY <2>3, <4>2 DEF SameFor, ManagedBy
        <4>4. po[p].spec[n] = "offboard"
          BY <1>0, <2>1, <3>1, <4>1 DEF Settling
        <4>5. QED BY <2>1, <4>3, <4>4 DEF AsSpecified
      <3>2. QED
        BY <1>0, <1>1, <2>1, <2>3, <3>1, EntryDoneSettles DEF NamespaceUntouched, Loops
    <2>4. QED BY <2>2, <2>3
  <1>3. CASE DeleteOffboarded(p, n)
    <2>1. /\ at[p] = n /\ snap[p].spec[n] = "offboard" /\ UNCHANGED <<po, poCache, poFresh>>
          /\ EntryDone(p, n) \/ EntryFails(p, n)
          /\ DeleteNamespaceCall(n)
      BY <1>3 DEF DeleteOffboarded
    <2>2. NamespaceUntouched \/ Writes(n)
      BY <2>1, DeleteWrites DEF WakeInv
    <2>3. ns'[n].phase # "active"
      BY <2>1 DEF DeleteNamespaceCall, WriteNamespace, NamespaceUntouched, TypeOK, ServerOK, Namespace
    <2>4. pc[p] # "idle"
      BY <1>0, <2>1, ConstantsAssumption DEF PassOK, Loops
    <2>5. ASSUME EntryDone(p, n), Undisturbed(p)', pc[p] = "entries", Heard(p)
          PROVE  AsSpecified(p, n)'
      <3>1. Undisturbed(p)
        BY <2>1, <2>5 DEF Undisturbed, EntryDone, Heard
      <3>2. po[p].spec[n] = "offboard"
        BY <1>0, <2>1, <2>5, <3>1 DEF Settling
      <3>3. QED BY <2>1, <2>3, <3>2 DEF AsSpecified
    <2>6. Heard(p) => Settling(p)'
      BY <1>0, <2>1, <2>4, <2>5, EntryDoneSettles, EntryFailsSettles
    <2>7. QED BY <1>1, <2>1, <2>2, <2>6
  <1>4. CASE ReadTenant(p, n)
    <2>1. /\ EntryFails(p, n) \/ (Reads(p, n) /\ pc[p] = "entries")
          /\ UNCHANGED <<po, poCache, poFresh, ns, nsCache, owed, queue>>
      BY <1>4 DEF ReadTenant
    <2>2. Settling(p)'
      BY <1>0, <2>1, ReadsSettles, EntryFailsSettles DEF WakeInv
    <2>3. QED BY <1>1, <2>1, <2>2 DEF NamespaceUntouched
  <1>5. CASE WriteTenant(p, n)
    <2>1. /\ at[p] = n /\ UNCHANGED <<po, poCache, poFresh>>
          /\ EntryDone(p, n) \/ EntryFails(p, n)
      BY <1>5 DEF WriteTenant
    <2>2. /\ Writes(n) /\ snap[p].spec[n] = "active"
          /\ SameFor(p, seen[p], ns[n]) => ns'[n].label = p /\ ns'[n].owner = p
      BY <1>5, TenantWrites DEF WakeInv
    <2>3. pc[p] = "entries"
      BY <1>0, <2>1, <2>2, ConstantsAssumption DEF PassOK
    <2>4. ASSUME EntryDone(p, n), Undisturbed(p)', Heard(p)
          PROVE  AsSpecified(p, n)'
      <3>1. Undisturbed(p)
        BY <2>1, <2>4 DEF Undisturbed, EntryDone, Heard
      <3>2. po[p].spec[n] = "active" /\ SameFor(p, seen[p], ns[n])
        BY <1>0, <2>1, <2>2, <2>3, <3>1, ConstantsAssumption DEF Settling
      <3>3. QED BY <2>1, <2>2, <3>2 DEF AsSpecified
    <2>5. Heard(p) => Settling(p)'
      BY <1>0, <2>1, <2>3, <2>4, EntryDoneSettles, EntryFailsSettles
    <2>6. QED BY <1>1, <2>1, <2>2, <2>5
  <1>6. CASE WriteTenantRefused(p, n)
    BY <1>1, <1>6, EntryFailsSettles DEF WriteTenantRefused, NamespaceUntouched
  <1>7. CASE JudgeEntry(p, n)
    <2>1. /\ pc[p] = "finalize" /\ UNCHANGED <<po, poCache, poFresh, ns, nsCache, owed, queue, delayed>>
          /\ Leaves(p, n) /\ UNCHANGED <<pc, snap, failed>>
      BY <1>7 DEF JudgeEntry, wakeups
    <2>2. Settling(p)'
      BY <1>0, <2>1 DEF Settling, Undisturbed
    <2>3. (\A q \in PO : PassInHand(q)') /\ \A q \in PO \ {p} : OwnPass(q)
      <3>1. InOneHand(NoNamespace)
        BY DEF InOneHand, NoNamespace
      <3>2. QED
        BY <2>1, <3>1 DEF Leaves, TypeOK, LocalsOK, WakeInv, HandsInv, PassInHand, OwnPass
    <2>4. QED BY <2>1, <2>2, <2>3, WakePass DEF NamespaceUntouched
  <1>8. QED BY <1>2, <1>3, <1>4, <1>5, <1>6, <1>7

\* A failed call brings its pass back; a restart visits every PO there is.
LEMMA WakeFaults ==
    ASSUME TypeOK, WakeInv, Restart \/ \E p \in PO : CallFails(p)
    PROVE  WakeInv'
  <1>1. ASSUME NEW p \in PO, CallFails(p) PROVE WakeInv'
    <2>1. UNCHANGED <<po, poCache, poFresh>> /\ NamespaceUntouched
      BY <1>1 DEF CallFails, server, caches, NamespaceUntouched
    <2>2. (\E n \in NS : EntryFails(p, n)) \/ Retry(p)
      BY <1>1 DEF CallFails, TypeOK, LocalsOK
    <2>3. CASE Retry(p)
      <3>1. Finish(p) /\ delayed \subseteq delayed' /\ Settling(p)'
        BY <2>3, RetrySettles DEF Retry
      <3>2. (\A q \in PO : PassInHand(q)') /\ \A q \in PO \ {p} : OwnPass(q)
        <4>1. InOneHand(NoNamespace) /\ PlainSpec(NoObject.spec)
          BY DEF InOneHand, NoNamespace, PlainSpec, NoObject
        <4>2. QED
          BY <3>1, <4>1 DEF Finish, TypeOK, LocalsOK, WakeInv, HandsInv, PassInHand, OwnPass
      <3>3. QED BY <2>1, <3>1, <3>2, WakePass
    <2>4. ASSUME NEW n \in NS, EntryFails(p, n) PROVE WakeInv'
      <3>1. /\ \A q \in PO : PassInHand(q)'
            /\ \A q \in PO \ {p} : OwnPass(q)
            /\ delayed \subseteq delayed' /\ Settling(p)'
        BY <2>4, PassesHeld, EntryFailsSettles DEF WakeInv
      <3>2. QED BY <2>1, <3>1, WakePass
    <2>5. QED BY <2>2, <2>3, <2>4
  <1>2. CASE Restart
    <2>1. HandsInv'
      <3>1. InOneHand(NoNamespace) /\ PlainSpec(NoObject.spec)
        BY DEF InOneHand, NoNamespace, PlainSpec, NoObject
      <3>2. QED
        BY <1>2, <3>1 DEF Restart, server, WakeInv, HandsInv, SpecsPlain, RecordsInHand, PassInHand
    <2>2. ToldInv'
      BY <1>2 DEF Restart, server, ToldInv, Told, SameFor
    <2>3. ASSUME NEW p \in PO PROVE Settling(p)'
      BY <1>2 DEF Restart, server, Settling, Undisturbed
    <2>4. QED BY <2>1, <2>2, <2>3 DEF WakeInv, SettlingInv
  <1>3. QED BY <1>1, <1>2

\* The inductive step.
LEMMA WakeNext ==
    ASSUME PlainLabels, TypeOK, FinalizerNotForgotten, WakeInv, [Next]_vars
    PROVE  WakeInv'
  <1>1. CASE UNCHANGED vars
    BY <1>1 DEF vars, server, caches, wakeups, pass, WakeInv, HandsInv, SpecsPlain, RecordsInHand,
       PassInHand, ToldInv, Told, SettlingInv, Settling, Undisturbed, AsSpecified
  <1>2. ASSUME NEW p \in PO, Step(p) PROVE WakeInv'
    BY <1>2, WakeStages, WakeEntries DEF Step
  <1>3. QED
    BY <1>1, <1>2, WakeUsers, WakeCluster, WakeStart, WakeFaults DEF Next

\* So WakeInv is an invariant.
LEMMA WakeHolds == PlainLabels => (Spec => []WakeInv)
  <1>1. ASSUME PlainLabels PROVE Spec => []WakeInv
    <2>1. TypeOK /\ FinalizerNotForgotten /\ WakeInv /\ [Next]_vars => WakeInv'
      BY <1>1, WakeNext
    <2>2. QED
      BY <2>1, WakeInit, TypeCorrect, FinalizerRemembered, PTL DEF Spec
  <1>2. QED BY <1>1

\* With no pass, timer or event left for a PO, its namespaces are what its spec
\* asks for, and it does not wait to be deleted: for all POs, names and claims,
\* with informers that lag, faults and restarts, as long as no spec label
\* overwrites a managed one (with one that does, the mapper drops the event).
THEOREM NoWakeUpLost == PlainLabels => (Spec => []QuietMeansSettled)
  <1>1. WakeInv => QuietMeansSettled
    <2> SUFFICES ASSUME WakeInv, NEW p \in PO, Quiescent(p)
                 PROVE  /\ po[p].state # "deleting"
                        /\ po[p].state = "live" /\ ~po[p].paused => \A n \in NS : AsSpecified(p, n)
      BY DEF QuietMeansSettled
    <2>1. Undisturbed(p)
      BY DEF Undisturbed, Quiescent, WakeInv, HandsInv, PassInHand
    <2>2. QED BY <2>1 DEF WakeInv, SettlingInv, Settling, Quiescent
  <1>2. ASSUME PlainLabels PROVE Spec => []QuietMeansSettled
    BY <1>1, <1>2, WakeHolds, PTL
  <1>3. QED BY <1>2

=============================================================================
