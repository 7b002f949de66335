---------------------------- MODULE RefHeapProofs ---------------------------
(***************************************************************************)
(* Counting references is exact and frees no slot in use, for any number   *)
(* of slots and of local variables.                                        *)
(***************************************************************************)
EXTENDS RefHeap, FiniteSetTheorems, SequenceTheorems, TLAPS

Frames == [slot : Slots, at : {"car", "cdr", "free"}]

TypeOK ==
  /\ ref \in [Locations -> Slots \union {NULL}]
  /\ ref_count \in [Slots -> Nat]
  /\ live \subseteq Slots
  /\ destroying \in Seq(Frames)

\* What destructors in progress have done so far.
FieldsReleased ==
  \A i \in 1 .. Len(destroying) :
    /\ destroying[i].slot \in live
    /\ destroying[i].at # "car" => ref[<<destroying[i].slot, "car">>] = NULL
    /\ destroying[i].at = "free" => ref[<<destroying[i].slot, "cdr">>] = NULL

\* Slots in their pool are zeroed.
FreeZeroed ==
  \A s \in Slots \ live, field \in Fields : ref[<<s, field>>] = NULL

\* What is live and not about to be freed is referred to.
LiveCounted ==
  \A s \in live \ Dying : ref_count[s] > 0

\* The inductive invariant.
IInv ==
  /\ TypeOK
  /\ CountsExact
  /\ NoDangling
  /\ DestroyedOnce
  /\ FieldsReleased
  /\ FreeZeroed
  /\ LiveCounted

-----------------------------------------------------------------------------
(***************************************************************************)
(* Counting the locations that refer to a slot.                            *)
(***************************************************************************)
Count(f, s) == Cardinality({l \in Locations : f[l] = s})

\* There are finitely many locations.
LEMMA LocationsFinite == IsFiniteSet(Locations)
<1>1. IsFiniteSet({"car"}) /\ IsFiniteSet({"cdr"})
  BY FS_Singleton
<1>2. IsFiniteSet({"car"} \union {"cdr"})
  BY <1>1, FS_Union
<1>3. Fields = {"car"} \union {"cdr"}
  BY DEF Fields
<1>4. IsFiniteSet(Slots \X Fields)
  BY <1>2, <1>3, FiniteAssumption, FS_Product
<1> QED BY <1>4, FiniteAssumption, FS_Union DEF Locations

\* A count is a number, and 0 only if no location refers to the slot.
LEMMA CountType ==
  ASSUME NEW f, NEW s
  PROVE  /\ Count(f, s) \in Nat
         /\ Count(f, s) = 0 <=> \A l \in Locations : f[l] # s
<1> DEFINE at == {l \in Locations : f[l] = s}
<1>1. IsFiniteSet(at)
  BY LocationsFinite, FS_Subset
<1>2. Cardinality(at) \in Nat
  BY <1>1, FS_CardinalityType
<1>3. Cardinality(at) = 0 <=> at = {}
  BY <1>1, FS_EmptySet
<1> QED BY <1>2, <1>3 DEF Count

\* Functions that differ at one location only.
Differ(f, g, l) == \A k \in Locations \ {l} : f[k] = g[k]

\* Storing at one location takes a reference from what was there and gives one to what
\* is there now.
LEMMA CountUpdate ==
  ASSUME NEW f, NEW g, NEW l \in Locations, NEW s, Differ(f, g, l)
  PROVE  Count(g, s) =
           Count(f, s) - (IF f[l] = s THEN 1 ELSE 0) + (IF g[l] = s THEN 1 ELSE 0)
<1> DEFINE before == {k \in Locations : f[k] = s}
           after == {k \in Locations : g[k] = s}
           others == before \ {l}
<1>1. \A k \in Locations \ {l} : g[k] = f[k]
  BY DEF Differ
<1>2. IsFiniteSet(before)
  BY LocationsFinite, FS_Subset
<1>3. /\ IsFiniteSet(others)
      /\ Cardinality(others) = IF l \in before THEN Cardinality(before) - 1
                                               ELSE Cardinality(before)
  BY <1>2, FS_RemoveElement
<1>4. Cardinality(before) \in Nat /\ Cardinality(others) \in Nat
  BY <1>2, <1>3, FS_CardinalityType
<1>5. Cardinality(after) = Cardinality(others) + (IF g[l] = s THEN 1 ELSE 0)
  <2>1. CASE g[l] = s
    <3>1. after = others \union {l}
      BY <1>1, <2>1
    <3>2. Cardinality(others \union {l}) = Cardinality(others) + 1
      BY <1>3, FS_AddElement
    <3> QED BY <2>1, <3>1, <3>2
  <2>2. CASE g[l] # s
    <3>1. after = others
      BY <1>1, <2>2
    <3> QED BY <2>2, <3>1, <1>4
  <2> QED BY <2>1, <2>2
<1>6. l \in before <=> f[l] = s
  OBVIOUS
<1>7. Cardinality(after) = Cardinality(before) - (IF f[l] = s THEN 1 ELSE 0)
                                               + (IF g[l] = s THEN 1 ELSE 0)
  BY <1>3, <1>4, <1>5, <1>6
<1> QED BY <1>7 DEF Count

\* g is f after one store, and each operation on lists is a few stores in a row.
Stored(f, g, l, v) == g = [f EXCEPT ![l] = v]

\* What a store does to the references, and to the counts.
Recounted(f, g, l, v) ==
  /\ g[l] = v /\ \A k \in Locations \ {l} : g[k] = f[k]
  /\ \A s \in Slots :
       Count(g, s) =
         Count(f, s) - (IF f[l] = s THEN 1 ELSE 0) + (IF v = s THEN 1 ELSE 0)

\* A store takes one reference away and adds one.
LEMMA CountStore ==
  ASSUME NEW f \in [Locations -> Slots \union {NULL}], NEW l \in Locations,
         NEW v \in Slots \union {NULL}, NEW g, Stored(f, g, l, v)
  PROVE  g \in [Locations -> Slots \union {NULL}] /\ Recounted(f, g, l, v)
<1>1. /\ g \in [Locations -> Slots \union {NULL}]
      /\ g[l] = v /\ \A k \in Locations \ {l} : g[k] = f[k]
  BY DEF Stored
<1>2. Differ(f, g, l)
  BY <1>1 DEF Differ
<1>3. \A s \in Slots : Count(g, s) = Count(f, s) - (IF f[l] = s THEN 1 ELSE 0)
                                                 + (IF g[l] = s THEN 1 ELSE 0)
  BY ONLY l \in Locations, <1>2, CountUpdate
<1>4. Recounted(f, g, l, v)
  BY ONLY <1>1, <1>3 DEF Recounted
<1> QED BY <1>1, <1>4

\* The invariant on counts, in these terms.
LEMMA CountsAreCounts ==
  CountsExact <=> \A s \in Slots : ref_count[s] = Count(ref, s)
BY DEF CountsExact, References, Count

\* A slot that is free or about to be has count 0.
LEMMA UnusedCountZero ==
  ASSUME IInv, NEW s \in Slots, s \notin live \/ s \in Dying
  PROVE  ref_count[s] = 0
<1>1. \A l \in Locations : ref[l] # s
  BY NullAssumption DEF IInv, NoDangling
<1> QED BY <1>1, CountType, CountsAreCounts DEF IInv

\* Local variables and fields are different locations.
LEMMA LocationKinds ==
  /\ \A r \in Roots : r \in Locations
  /\ \A s \in Slots, field \in Fields : <<s, field>> \in Locations
  /\ \A r \in Roots, s \in Slots, field \in Fields : r # <<s, field>>
  /\ \A l \in Locations : l \in Roots \/ l \in Slots \X Fields
BY RootsAssumption DEF Locations, Fields

-----------------------------------------------------------------------------
(***************************************************************************)
(* retain and release, on the counts and on the stack of destructors.      *)
(***************************************************************************)
\* retain adds one to the count of the slot it is given.
LEMMA RetainedCounts ==
  ASSUME NEW counts \in [Slots -> Nat], NEW v \in Slots \union {NULL}
  PROVE  /\ Retained(counts, v) \in [Slots -> Nat]
         /\ \A s \in Slots :
              Retained(counts, v)[s] = counts[s] + (IF v = s THEN 1 ELSE 0)
BY NullAssumption DEF Retained

\* release takes one from the count of the slot it is given.
LEMMA ReleasedCounts ==
  ASSUME NEW counts \in [Slots -> Nat], NEW v \in Slots \union {NULL},
         v # NULL => counts[v] > 0
  PROVE  /\ Released(counts, v) \in [Slots -> Nat]
         /\ \A s \in Slots :
              Released(counts, v)[s] = counts[s] - (IF v = s THEN 1 ELSE 0)
BY NullAssumption DEF Released

\* release enters the destructor of a slot whose count it takes to 0, and no other.
LEMMA EnteredStack ==
  ASSUME NEW counts \in [Slots -> Nat], NEW v \in Slots \union {NULL},
         NEW stack \in Seq(Frames)
  PROVE  LET after == Entered(counts, v, stack)
         IN  /\ after \in Seq(Frames)
             /\ \A i \in 1 .. Len(stack) : i \in 1 .. Len(after) /\ after[i] = stack[i]
             /\ v # NULL /\ counts[v] = 1 =>
                  /\ Len(after) = Len(stack) + 1
                  /\ after[Len(after)] = [slot |-> v, at |-> "car"]
             /\ ~(v # NULL /\ counts[v] = 1) => after = stack
<1>1. CASE v # NULL /\ counts[v] = 1
  <2>1. Frame(v, "car") \in Frames
    BY <1>1 DEF Frame, Frames
  <2>2. Entered(counts, v, stack) = Append(stack, Frame(v, "car"))
    BY <1>1 DEF Entered
  <2> QED BY <1>1, <2>1, <2>2 DEF Frame
<1>2. CASE ~(v # NULL /\ counts[v] = 1)
  BY <1>2 DEF Entered
<1> QED BY <1>1, <1>2

\* The heart of release: a location gives up a reference, for none or for another
\* that is retained first, and what nothing refers to any more is destroyed.
LEMMA ReferenceDropped ==
  ASSUME IInv, NEW l \in Locations, NEW v \in (live \ Dying) \union {NULL},
         NEW stack \in Seq(Frames), Len(stack) = Len(destroying),
         \A i \in 1 .. Len(stack) : stack[i].slot = destroying[i].slot,
         ref' = [ref EXCEPT ![l] = v],
         ref_count' = Released(Retained(ref_count, v), ref[l]),
         destroying' = Entered(Retained(ref_count, v), ref[l], stack),
         UNCHANGED live
  PROVE  /\ TypeOK' /\ CountsExact' /\ NoDangling' /\ DestroyedOnce' /\ LiveCounted'
         /\ \A i \in 1 .. Len(destroying') :
              \/ i \in 1 .. Len(stack) /\ destroying'[i] = stack[i]
              \/ destroying'[i].slot \in live /\ destroying'[i].at = "car"
<1> DEFINE counts == Retained(ref_count, v)
           old == ref[l]
           Enters == old # NULL /\ counts[old] = 1
<1>1. /\ ref \in [Locations -> Slots \union {NULL}] /\ ref_count \in [Slots -> Nat]
      /\ live \subseteq Slots /\ destroying \in Seq(Frames)
      /\ v \in Slots \union {NULL} /\ old \in Slots \union {NULL}
  BY DEF IInv, TypeOK
<1>2. /\ counts \in [Slots -> Nat]
      /\ \A s \in Slots : counts[s] = ref_count[s] + (IF v = s THEN 1 ELSE 0)
  BY <1>1, RetainedCounts
<1>3. old # NULL => old \in live \ Dying /\ ref_count[old] > 0 /\ counts[old] > 0
  <2>1. old # NULL => old \in live \ Dying
    BY DEF IInv, NoDangling
  <2>2. old # NULL => ref_count[old] > 0
    BY <2>1 DEF IInv, LiveCounted
  <2> QED BY <1>1, <1>2, <2>1, <2>2
<1>4. /\ ref_count' \in [Slots -> Nat]
      /\ \A s \in Slots : ref_count'[s] = counts[s] - (IF old = s THEN 1 ELSE 0)
  BY <1>1, <1>2, <1>3, ReleasedCounts
<1>5. /\ destroying' \in Seq(Frames)
      /\ \A i \in 1 .. Len(stack) :
           i \in 1 .. Len(destroying') /\ destroying'[i] = stack[i]
      /\ Enters => /\ Len(destroying') = Len(stack) + 1
                   /\ destroying'[Len(destroying')] = [slot |-> old, at |-> "car"]
      /\ ~Enters => destroying' = stack
  BY <1>1, <1>2, EnteredStack
<1>6. TypeOK'
  <2>1. ref' \in [Locations -> Slots \union {NULL}]
    BY <1>1
  <2> QED BY <1>1, <1>4, <1>5, <2>1 DEF TypeOK
<1>7. CountsExact'
  <2>1. ASSUME NEW s \in Slots
        PROVE  ref_count'[s] = Count(ref', s)
    <3>1. Count(ref', s) = Count(ref, s) - (IF old = s THEN 1 ELSE 0)
                                         + (IF v = s THEN 1 ELSE 0)
      <4>1. Differ(ref, ref', l) /\ ref'[l] = v
        BY <1>1 DEF Differ
      <4>2. Count(ref', s) = Count(ref, s) - (IF ref[l] = s THEN 1 ELSE 0)
                                           + (IF ref'[l] = s THEN 1 ELSE 0)
        BY ONLY <4>1, l \in Locations, CountUpdate
      <4> QED BY <4>1, <4>2
    <3>2. ref_count[s] = Count(ref, s) /\ Count(ref, s) \in Nat
      BY CountsAreCounts, CountType DEF IInv
    <3> QED BY <1>2, <1>4, <3>1, <3>2
  <2> QED BY <2>1 DEF CountsExact, References, Count
<1>8. Dying' = Dying \union (IF Enters THEN {old} ELSE {})
  <2>1. Dying = {stack[i].slot : i \in 1 .. Len(stack)}
    BY DEF Dying
  <2>2. Dying' = {destroying'[i].slot : i \in 1 .. Len(destroying')}
    BY DEF Dying
  <2>3. CASE Enters
    <3>1. /\ Len(stack) \in Nat /\ Len(destroying') = Len(stack) + 1
          /\ destroying'[Len(stack) + 1].slot = old
          /\ \A i \in 1 .. Len(stack) : destroying'[i] = stack[i]
      BY <1>5, <2>3
    <3>2. 1 .. Len(destroying') = (1 .. Len(stack)) \union {Len(stack) + 1}
      BY <3>1
    <3>3. {destroying'[i].slot : i \in 1 .. Len(destroying')}
            = {stack[i].slot : i \in 1 .. Len(stack)} \union {old}
      BY <3>1, <3>2
    <3> QED BY <2>1, <2>2, <2>3, <3>3
  <2>4. CASE ~Enters
    BY <1>5, <2>1, <2>2, <2>4
  <2> QED BY <2>3, <2>4
<1>9. NoDangling'
  <2> SUFFICES ASSUME NEW k \in Locations, ref'[k] # NULL
               PROVE  ref'[k] \in live \ Dying'
    BY DEF NoDangling
  <2>1. ref'[k] \in live \ Dying
    BY <1>1 DEF IInv, NoDangling
  <2>2. ASSUME Enters, ref'[k] = old PROVE FALSE
    <3>1. ref_count'[old] = 0
      BY <1>1, <1>2, <1>4, <2>2
    <3>2. Count(ref', old) = 0
      BY <1>1, <1>7, <2>2, <3>1 DEF CountsExact, References, Count
    <3>3. \A j \in Locations : ref'[j] # old
      BY ONLY <3>2, CountType
    <3> QED BY <2>2, <3>3
  <2> QED BY <1>8, <2>1, <2>2
<1>10. DestroyedOnce'
  <2>1. \A i, j \in 1 .. Len(stack) : stack[i].slot = stack[j].slot => i = j
    BY DEF IInv, DestroyedOnce
  <2>2. CASE Enters
    <3>1. \A i \in 1 .. Len(stack) : stack[i].slot \in Dying
      BY DEF Dying
    <3>2. /\ Len(stack) \in Nat /\ Len(destroying') = Len(stack) + 1
          /\ destroying'[Len(stack) + 1].slot = old
          /\ \A i \in 1 .. Len(stack) : destroying'[i] = stack[i]
          /\ old \notin Dying
      BY <1>3, <1>5, <2>2
    <3>3. \A i \in 1 .. Len(destroying') : i \in 1 .. Len(stack) \/ i = Len(stack) + 1
      BY <3>2
    <3> QED BY <2>1, <3>1, <3>2, <3>3 DEF DestroyedOnce
  <2>3. CASE ~Enters
    BY <1>5, <2>1, <2>3 DEF DestroyedOnce
  <2> QED BY <2>2, <2>3
<1>11. LiveCounted'
  <2> SUFFICES ASSUME NEW s \in live \ Dying' PROVE ref_count'[s] > 0
    BY DEF LiveCounted
  <2>1. s \in Slots /\ s \in live \ Dying /\ ~(Enters /\ s = old)
    BY <1>1, <1>8
  <2>2. ref_count[s] > 0
    BY <2>1 DEF IInv, LiveCounted
  <2> QED BY <1>1, <1>2, <1>4, <2>1, <2>2, NullAssumption
<1>12. ASSUME NEW i \in 1 .. Len(destroying')
       PROVE  \/ i \in 1 .. Len(stack) /\ destroying'[i] = stack[i]
              \/ destroying'[i].slot \in live /\ destroying'[i].at = "car"
  <2>1. CASE Enters
    <3>1. Len(stack) \in Nat
      OBVIOUS
    <3>2. i \in 1 .. Len(stack) \/ i = Len(destroying')
      BY <1>5, <2>1, <3>1
    <3> QED BY <1>3, <1>5, <2>1, <3>2
  <2>2. CASE ~Enters
    BY <1>5, <2>2
  <2> QED BY <2>1, <2>2
<1> QED BY <1>6, <1>7, <1>9, <1>10, <1>11, <1>12

-----------------------------------------------------------------------------
(***************************************************************************)
(* Every step keeps the invariant.                                         *)
(***************************************************************************)
\* Nothing refers to anything at the start.
LEMMA InitIInv == Init => IInv
<1> SUFFICES ASSUME Init PROVE IInv
  OBVIOUS
<1>1. TypeOK /\ Dying = {}
  BY DEF Init, TypeOK, Dying
<1>2. CountsExact
  <2>1. \A s \in Slots, l \in Locations : ref[l] # s
    BY NullAssumption DEF Init
  <2>2. \A s \in Slots : ref_count[s] = 0
    BY DEF Init
  <2>3. \A s \in Slots : Count(ref, s) = 0
    BY ONLY <2>1, CountType
  <2> QED BY <2>2, <2>3, CountsAreCounts
<1>3. DestroyedOnce /\ FieldsReleased
  BY DEF Init, DestroyedOnce, FieldsReleased
<1>4. NoDangling /\ LiveCounted
  BY <1>1 DEF Init, NoDangling, LiveCounted
<1>5. FreeZeroed
  BY LocationKinds DEF Init, FreeZeroed
<1> QED BY <1>1, <1>2, <1>3, <1>4, <1>5 DEF IInv

\* A release empties a variable, and its destructors have done nothing yet.
LEMMA ReleaseRootIInv ==
  ASSUME IInv, NEW root \in Roots, release(root)
  PROVE  IInv'
<1>1. destroying \in Seq(Frames) /\ Len(destroying) = 0 /\ destroying = <<>>
  BY DEF IInv, TypeOK, release, Idle
<1>2. Retained(ref_count, NULL) = ref_count
  BY DEF Retained
<1>3. root \in Locations
  BY LocationKinds
<1>4. /\ TypeOK' /\ CountsExact' /\ NoDangling' /\ DestroyedOnce' /\ LiveCounted'
      /\ \A i \in 1 .. Len(destroying') :
           \/ i \in 1 .. Len(destroying) /\ destroying'[i] = destroying[i]
           \/ destroying'[i].slot \in live /\ destroying'[i].at = "car"
  BY <1>1, <1>2, <1>3, ReferenceDropped DEF release
<1>5. FieldsReleased'
  BY <1>1, <1>4 DEF FieldsReleased, release
<1>6. FreeZeroed'
  BY LocationKinds DEF IInv, TypeOK, FreeZeroed, release
<1> QED BY <1>4, <1>5, <1>6 DEF IInv

\* The innermost destructor is of a live slot.
LEMMA TopFrame ==
  ASSUME IInv, NEW label, AtTop(label)
  PROVE  /\ Len(destroying) \in 1 .. Len(destroying) /\ Len(destroying) \in Nat
         /\ Top \in Frames /\ Top = destroying[Len(destroying)] /\ Top.at = label
         /\ Top.slot \in live /\ Top.slot \in Dying /\ Top.slot \in Slots
         /\ label = "free" => \A field \in Fields : ref[<<Top.slot, field>>] = NULL
<1>1. destroying \in Seq(Frames) /\ destroying # <<>> /\ Top.at = label
  BY DEF IInv, TypeOK, AtTop, Idle
<1>2. Len(destroying) \in 1 .. Len(destroying) /\ Len(destroying) \in Nat
  BY <1>1
<1>3. Top \in Frames /\ Top = destroying[Len(destroying)]
  BY <1>1, <1>2 DEF Top
<1>4. Top.slot \in live /\ Top.slot \in Dying
  BY <1>2, <1>3 DEF IInv, FieldsReleased, Dying
<1>5. Top.slot \in Slots
  BY <1>3 DEF Frames
<1>6. label = "free" => \A field \in Fields : ref[<<Top.slot, field>>] = NULL
  BY <1>1, <1>2, <1>3 DEF IInv, FieldsReleased, Fields
<1> QED BY <1>1, <1>2, <1>3, <1>4, <1>5, <1>6

\* A destructor releases a field of a slot it owns, and may enter another.
LEMMA DestroyFieldIInv ==
  ASSUME IInv, NEW field \in Fields, destroy_field(field)
  PROVE  IInv'
<1> DEFINE next == IF field = "car" THEN "cdr" ELSE "free"
           n == Len(destroying)
           inner == [destroying EXCEPT ![n].at = next]
           at == <<Top.slot, field>>
<1>0. AtTop(field) /\ destroying \in Seq(Frames) /\ ref \in [Locations -> Slots \union {NULL}]
      /\ live' = live
  BY DEF destroy_field, IInv, TypeOK
<1>1. n \in 1 .. n /\ n \in Nat /\ Top = destroying[n] /\ Top \in Frames /\ Top.at = field
      /\ Top.slot \in live /\ Top.slot \in Slots
  BY <1>0, TopFrame
<1>2. at \in Locations
  BY <1>1, LocationKinds
<1>3. /\ inner \in Seq(Frames) /\ Len(inner) = n
      /\ \A i \in 1 .. n : inner[i].slot = destroying[i].slot
      /\ inner[n] = [slot |-> Top.slot, at |-> next]
      /\ \A i \in 1 .. n : i # n => inner[i] = destroying[i]
  <2>1. [destroying[n] EXCEPT !.at = next] = [slot |-> Top.slot, at |-> next]
    BY <1>1 DEF Frames
  <2>2. [slot |-> Top.slot, at |-> next] \in Frames
    BY <1>1 DEF Frames
  <2>3. inner = [destroying EXCEPT ![n] = [slot |-> Top.slot, at |-> next]]
    BY <2>1
  <2> QED BY <1>0, <1>1, <2>2, <2>3
<1>4. Retained(ref_count, NULL) = ref_count
  BY DEF Retained
<1>5. /\ ref' = [ref EXCEPT ![at] = NULL]
      /\ ref_count' = Released(ref_count, ref[at])
      /\ destroying' = Entered(ref_count, ref[at], inner)
  BY DEF destroy_field
<1>6. /\ TypeOK' /\ CountsExact' /\ NoDangling' /\ DestroyedOnce' /\ LiveCounted'
      /\ \A i \in 1 .. Len(destroying') :
           \/ i \in 1 .. Len(inner) /\ destroying'[i] = inner[i]
           \/ destroying'[i].slot \in live /\ destroying'[i].at = "car"
  <2> HIDE DEF inner, at
  <2>1. NULL \in (live \ Dying) \union {NULL} /\ UNCHANGED live
    BY <1>0
  <2> QED BY ONLY IInv, <1>2, <1>3, <1>4, <1>5, <2>1, ReferenceDropped
<1>7. FieldsReleased'
  <2>1. \A l \in Locations : ref[l] = NULL => ref'[l] = NULL
    BY <1>0, <1>2, <1>5
  <2>2. ref'[at] = NULL
    BY <1>0, <1>2, <1>5
  <2>3. \A i \in 1 .. Len(destroying) : destroying[i].slot \in Slots
    <3>1. \A i \in 1 .. Len(destroying) : destroying[i] \in Frames
      BY <1>0
    <3> QED BY <3>1 DEF Frames
  <2> SUFFICES ASSUME NEW i \in 1 .. Len(destroying')
               PROVE  /\ destroying'[i].slot \in live
                      /\ destroying'[i].at # "car" => ref'[<<destroying'[i].slot, "car">>] = NULL
                      /\ destroying'[i].at = "free" => ref'[<<destroying'[i].slot, "cdr">>] = NULL
    BY <1>0 DEF FieldsReleased
  <2>4. CASE destroying'[i].slot \in live /\ destroying'[i].at = "car"
    BY <2>4
  <2>5. CASE i \in 1 .. n /\ i # n /\ destroying'[i] = destroying[i]
    BY <2>1, <2>3, <2>5, LocationKinds DEF IInv, FieldsReleased, Fields
  <2>6. CASE i = n /\ destroying'[i] = [slot |-> Top.slot, at |-> next]
    <3>1. field = "cdr" => ref[<<Top.slot, "car">>] = NULL
      BY <1>1 DEF IInv, FieldsReleased
    <3>2. field = "car" \/ field = "cdr"
      BY DEF Fields
    <3> QED BY <1>1, <2>1, <2>2, <2>6, <3>1, <3>2, LocationKinds DEF Fields
  <2> QED BY <1>3, <1>6, <2>4, <2>5, <2>6
<1>8. FreeZeroed'
  BY <1>0, <1>2, <1>5, LocationKinds DEF IInv, FreeZeroed
<1> QED BY <1>6, <1>7, <1>8 DEF IInv

\* The destructor of a slot returned: nothing refers to the slot any more.
LEMMA FreeIInv ==
  ASSUME IInv, free_rc_slot
  PROVE  IInv'
<1> DEFINE n == Len(destroying)
           slot == Top.slot
<1>0. /\ AtTop("free") /\ ref' = ref /\ live' = live \ {slot}
      /\ ref_count' = [ref_count EXCEPT ![slot] = 0]
      /\ destroying' = SubSeq(destroying, 1, n - 1)
  BY DEF free_rc_slot
<1>1. /\ n \in 1 .. n /\ n \in Nat /\ Top = destroying[n]
      /\ slot \in live /\ slot \in Slots /\ slot \in Dying
      /\ \A field \in Fields : ref[<<slot, field>>] = NULL
  BY <1>0, TopFrame
<1>2. ref_count[slot] = 0
  BY <1>1, UnusedCountZero
<1>3. ref_count' = ref_count
  BY <1>0, <1>1, <1>2 DEF IInv, TypeOK
<1>4. destroying \in Seq(Frames)
  BY DEF IInv, TypeOK
<1>5. /\ destroying' \in Seq(Frames) /\ Len(destroying') = n - 1
      /\ \A i \in 1 .. n - 1 : destroying'[i] = destroying[i]
  <2>1. /\ n - 1 \in Nat /\ n - 1 \in Int /\ 1 \in Int
        /\ \A i \in 1 .. n - 1 : destroying[i] \in Frames
    BY <1>1, <1>4
  <2> DEFINE m == n - 1
             rest == SubSeq(destroying, 1, m)
  <2>3. m \in Nat /\ m \in Int /\ \A i \in 1 .. m : destroying[i] \in Frames
    BY <2>1
  <2> HIDE DEF m
  <2>4. /\ rest \in Seq(Frames)
        /\ Len(rest) = IF 1 <= m THEN m - 1 + 1 ELSE 0
        /\ \A i \in 1 .. m - 1 + 1 : rest[i] = destroying[1 + i - 1]
    BY ONLY <2>1, <2>3, SubSeqProperties
  <2>2. /\ rest \in Seq(Frames)
        /\ Len(rest) = m
        /\ \A i \in 1 .. m : rest[i] = destroying[i]
    BY <2>3, <2>4
  <2> QED BY <1>0, <2>2 DEF m
<1>6. \A i \in 1 .. n - 1 : i \in 1 .. n /\ destroying[i].slot # slot
  BY <1>1 DEF IInv, DestroyedOnce
<1>7. Dying' = Dying \ {slot}
  <2>1. Dying' = {destroying[i].slot : i \in 1 .. n - 1}
    BY <1>5 DEF Dying
  <2>2. 1 .. n = (1 .. n - 1) \union {n}
    BY <1>1
  <2>3. Dying = {destroying[i].slot : i \in 1 .. n - 1} \union {slot}
    BY <1>1, <2>2 DEF Dying
  <2> QED BY <1>6, <2>1, <2>3
<1>8. TypeOK'
  BY <1>0, <1>3, <1>5 DEF IInv, TypeOK
<1>9. CountsExact'
  <2>1. \A s \in Slots : References(s)' = References(s)
    BY <1>0 DEF References
  <2> QED BY <1>3, <2>1 DEF IInv, CountsExact
<1>10. live' \ Dying' = live \ Dying
  BY <1>0, <1>1, <1>7
<1>11. NoDangling' /\ LiveCounted'
  BY <1>0, <1>3, <1>10 DEF IInv, NoDangling, LiveCounted
<1>12. DestroyedOnce'
  BY <1>1, <1>5, <1>6 DEF IInv, DestroyedOnce
<1>13. FieldsReleased'
  <2> SUFFICES ASSUME NEW i \in 1 .. n - 1
               PROVE  /\ destroying[i].slot \in live'
                      /\ destroying[i].at # "car" => ref[<<destroying[i].slot, "car">>] = NULL
                      /\ destroying[i].at = "free" => ref[<<destroying[i].slot, "cdr">>] = NULL
    BY <1>0, <1>5 DEF FieldsReleased
  <2> QED BY <1>0, <1>6 DEF IInv, FieldsReleased
<1>14. FreeZeroed'
  BY <1>0, <1>1 DEF IInv, FreeZeroed
<1> QED BY <1>8, <1>9, <1>11, <1>12, <1>13, <1>14 DEF IInv

\* Between two operations nothing is being destroyed.
LEMMA IdleIInv ==
  ASSUME Idle
  PROVE  /\ Dying = {} /\ destroying = <<>>
         /\ DestroyedOnce /\ FieldsReleased
BY DEF Idle, Dying, DestroyedOnce, FieldsReleased

\* What an operation that destroys nothing has to keep.
LEMMA IdleStep ==
  ASSUME Idle, UNCHANGED destroying, TypeOK', CountsExact', FreeZeroed',
         \A l \in Locations : ref'[l] # NULL => ref'[l] \in live',
         \A s \in live' : ref_count'[s] > 0
  PROVE  IInv'
<1>1. Idle'
  BY DEF Idle
<1>2. Dying' = {} /\ DestroyedOnce' /\ FieldsReleased'
  BY <1>1 DEF Idle, Dying, DestroyedOnce, FieldsReleased
<1> QED BY <1>2 DEF IInv, NoDangling, LiveCounted

\* What a variable or a field refers to is live, when nothing is being destroyed.
LEMMA RefersToLive ==
  ASSUME IInv, Idle, NEW l \in Locations
  PROVE  ref[l] \in live \union {NULL} /\ ref[l] \in Slots \union {NULL}
BY IdleIInv DEF IInv, NoDangling, TypeOK

\* A local variable that held nothing gets a reference, which is counted.
LEMMA ReferenceShared ==
  ASSUME IInv, Idle, NEW root \in Roots, ref[root] = NULL, NEW v \in live \union {NULL},
         ref' = [ref EXCEPT ![root] = v], ref_count' = Retained(ref_count, v),
         UNCHANGED <<live, destroying>>
  PROVE  IInv'
<1>1. /\ root \in Locations /\ ref \in [Locations -> Slots \union {NULL}]
      /\ ref_count \in [Slots -> Nat] /\ v \in Slots \union {NULL}
      /\ live \subseteq Slots /\ live' = live /\ destroying' = destroying
  BY LocationKinds DEF IInv, TypeOK
<1>2. /\ ref_count' \in [Slots -> Nat]
      /\ \A s \in Slots : ref_count'[s] = ref_count[s] + (IF v = s THEN 1 ELSE 0)
  BY <1>1, RetainedCounts
<1>3. ref' \in [Locations -> Slots \union {NULL}] /\ ref'[root] = v
      /\ \A l \in Locations \ {root} : ref'[l] = ref[l]
  BY <1>1
<1>4. TypeOK'
  BY <1>1, <1>2, <1>3 DEF IInv, TypeOK
<1>5. CountsExact'
  <2>1. ASSUME NEW s \in Slots
        PROVE  ref_count'[s] = Count(ref', s)
    <3>1. Differ(ref, ref', root)
      BY <1>3 DEF Differ
    <3>2. Count(ref', s) = Count(ref, s) - (IF ref[root] = s THEN 1 ELSE 0)
                                         + (IF ref'[root] = s THEN 1 ELSE 0)
      BY ONLY <1>1, <3>1, CountUpdate
    <3>3. ref_count[s] = Count(ref, s) /\ ref_count[s] \in Nat
      BY <1>1, CountsAreCounts DEF IInv
    <3> QED BY <1>2, <1>3, <3>2, <3>3, NullAssumption
  <2> QED BY <2>1 DEF CountsExact, References, Count
<1>6. FreeZeroed'
  <2> SUFFICES ASSUME NEW s \in Slots \ live, NEW field \in Fields
               PROVE  ref'[<<s, field>>] = NULL
    BY <1>1 DEF FreeZeroed
  <2>1. <<s, field>> \in Locations \ {root} /\ ref[<<s, field>>] = NULL
    BY LocationKinds DEF IInv, FreeZeroed
  <2> QED BY <1>3, <2>1
<1>7. \A l \in Locations : ref'[l] # NULL => ref'[l] \in live'
  BY <1>1, <1>3, RefersToLive
<1>8. \A s \in live' : ref_count'[s] > 0
  <2>1. \A s \in live : ref_count[s] > 0 /\ ref_count[s] \in Nat
    BY <1>1, IdleIInv DEF IInv, LiveCounted
  <2> QED BY <1>1, <1>2, <2>1
<1> QED BY <1>1, <1>4, <1>5, <1>6, <1>7, <1>8, IdleStep

\* retain shares the reference of one variable with another.
LEMMA RetainIInv ==
  ASSUME IInv, NEW from \in Roots, NEW into \in Roots, retain(from, into)
  PROVE  IInv'
<1>1. Idle /\ ref[from] \in live \union {NULL}
  BY RefersToLive, LocationKinds DEF retain
<1> QED BY <1>1, ReferenceShared DEF retain

\* list_first and list_rest share the reference of a field with a variable.
LEMMA ListFieldIInv ==
  ASSUME IInv, NEW list \in Roots, NEW field \in Fields, NEW into \in Roots,
         list_field(list, field, into)
  PROVE  IInv'
<1>1. Idle /\ ref[list] \in Slots
  BY RefersToLive, LocationKinds DEF list_field
<1>2. ref[<<ref[list], field>>] \in live \union {NULL}
  BY <1>1, RefersToLive, LocationKinds
<1> QED BY <1>1, <1>2, ReferenceShared DEF list_field

\* A slot in its pool is referred to from nowhere, and refers to nothing.
LEMMA FreshSlot ==
  ASSUME IInv, Idle, NEW new \in Slots \ live
  PROVE  /\ ref_count[new] = 0
         /\ \A l \in Locations : ref[l] # new
         /\ \A field \in Fields : <<new, field>> \in Locations /\ ref[<<new, field>>] = NULL
         /\ <<new, "car">> \in Locations /\ ref[<<new, "car">>] = NULL
         /\ <<new, "cdr">> \in Locations /\ ref[<<new, "cdr">>] = NULL
         /\ <<new, "car">> # <<new, "cdr">> /\ new # NULL
         /\ \A r \in Roots : r # <<new, "car">> /\ r # <<new, "cdr">>
<1>1. ref_count[new] = 0
  BY UnusedCountZero
<1>2. \A l \in Locations : ref[l] # new
  BY NullAssumption DEF IInv, NoDangling
<1>3. \A field \in Fields : <<new, field>> \in Locations /\ ref[<<new, field>>] = NULL
  BY LocationKinds DEF IInv, FreeZeroed
<1>4. \A r \in Roots : r # <<new, "car">> /\ r # <<new, "cdr">>
  BY LocationKinds DEF Fields
<1> QED BY <1>1, <1>2, <1>3, <1>4, NullAssumption DEF Fields

\* list_cons shares two references with a new cell.
LEMMA ListConsIInv ==
  ASSUME IInv, NEW cons \in Roots, NEW list \in Roots, NEW into \in Roots,
         list_cons(cons, list, into)
  PROVE  IInv'
<1>1. Idle /\ ref[into] = NULL /\ destroying' = destroying
  BY DEF list_cons
<1>2. PICK new \in Slots \ live :
        /\ live' = live \union {new}
        /\ ref_count' =
             Retained(Retained([ref_count EXCEPT ![new] = 1], ref[cons]), ref[list])
        /\ ref' = [ref EXCEPT ![<<new, "car">>] = ref[cons], ![<<new, "cdr">>] = ref[list],
                              ![into] = new]
  BY DEF list_cons
<1> DEFINE car == <<new, "car">>
           cdr == <<new, "cdr">>
           f1 == [ref EXCEPT ![car] = ref[cons]]
           f2 == [f1 EXCEPT ![cdr] = ref[list]]
           c1 == [ref_count EXCEPT ![new] = 1]
           c2 == Retained(c1, ref[cons])
<1>3. /\ ref \in [Locations -> Slots \union {NULL}] /\ ref_count \in [Slots -> Nat]
      /\ live \subseteq Slots
      /\ into \in Locations /\ car \in Locations /\ cdr \in Locations
      /\ car # cdr /\ into # car /\ into # cdr
      /\ ref[cons] \in live \union {NULL} /\ ref[list] \in live \union {NULL}
      /\ ref[cons] \in Slots \union {NULL} /\ ref[list] \in Slots \union {NULL}
      /\ ref[car] = NULL /\ ref[cdr] = NULL /\ new \in Slots /\ new # NULL
      /\ ref_count[new] = 0 /\ ref[cons] # new /\ ref[list] # new
  BY <1>1, LocationKinds, FreshSlot, RefersToLive DEF IInv, TypeOK
<1>4. /\ Stored(ref, f1, car, ref[cons])
      /\ Stored(f1, f2, cdr, ref[list])
      /\ Stored(f2, ref', into, new)
  BY <1>2 DEF Stored
<1> HIDE DEF f1, f2, car, cdr
<1>5. f1 \in [Locations -> Slots \union {NULL}] /\ Recounted(ref, f1, car, ref[cons])
  BY ONLY <1>3, <1>4, CountStore
<1>6. f2 \in [Locations -> Slots \union {NULL}] /\ Recounted(f1, f2, cdr, ref[list])
  BY ONLY <1>3, <1>4, <1>5, CountStore
<1>7. ref' \in [Locations -> Slots \union {NULL}] /\ Recounted(f2, ref', into, new)
  BY ONLY <1>3, <1>4, <1>6, CountStore
<1>8. /\ ref_count' \in [Slots -> Nat]
      /\ \A s \in Slots : ref_count'[s] = ref_count[s] + (IF new = s THEN 1 ELSE 0)
                            + (IF ref[cons] = s THEN 1 ELSE 0)
                            + (IF ref[list] = s THEN 1 ELSE 0)
  <2>1. c1 \in [Slots -> Nat]
        /\ \A s \in Slots : c1[s] = ref_count[s] + (IF new = s THEN 1 ELSE 0)
    BY <1>3
  <2> HIDE DEF c1
  <2>2. c2 \in [Slots -> Nat]
        /\ \A s \in Slots : c2[s] = c1[s] + (IF ref[cons] = s THEN 1 ELSE 0)
    BY <1>3, <2>1, RetainedCounts
  <2>3. ref_count' = Retained(c2, ref[list])
    BY <1>2 DEF c1
  <2> HIDE DEF c2
  <2>4. ref_count' \in [Slots -> Nat]
        /\ \A s \in Slots : ref_count'[s] = c2[s] + (IF ref[list] = s THEN 1 ELSE 0)
    BY <1>3, <2>2, <2>3, RetainedCounts
  <2> QED BY <1>3, <2>1, <2>2, <2>4
<1>9. TypeOK'
  BY <1>1, <1>2, <1>7, <1>8 DEF IInv, TypeOK
<1>10. CountsExact'
  <2>1. ASSUME NEW s \in Slots
        PROVE  ref_count'[s] = Count(ref', s)
    <3>1. ref_count[s] = Count(ref, s) /\ ref_count[s] \in Nat
      BY <1>3, CountsAreCounts DEF IInv
    <3>2. f1[cdr] = NULL /\ f2[into] = NULL /\ NULL # s
      BY <1>1, <1>3, <1>5, <1>6, NullAssumption DEF Recounted
    <3> QED BY ONLY s \in Slots, <1>3, <1>5, <1>6, <1>7, <1>8, <3>1, <3>2 DEF Recounted
  <2> QED BY <2>1 DEF CountsExact, References, Count
<1>11. \A l \in Locations : ref'[l] # NULL => ref'[l] \in live'
  BY <1>1, <1>2, <1>3, <1>5, <1>6, <1>7, RefersToLive DEF Recounted
<1>12. FreeZeroed'
  <2> SUFFICES ASSUME NEW s \in Slots \ live', NEW field \in Fields
               PROVE  ref'[<<s, field>>] = NULL
    BY DEF FreeZeroed
  <2>1. /\ <<s, field>> \in Locations \ {into, car, cdr}
        /\ s \in Slots \ live /\ ref[<<s, field>>] = NULL
    BY <1>2, LocationKinds DEF IInv, FreeZeroed, car, cdr
  <2> QED BY <1>5, <1>6, <1>7, <2>1 DEF Recounted
<1>13. \A s \in live' : ref_count'[s] > 0
  <2>1. \A s \in live : ref_count[s] > 0 /\ ref_count[s] \in Nat
    BY <1>1, <1>3, IdleIInv DEF IInv, LiveCounted
  <2> SUFFICES ASSUME NEW s \in live' PROVE ref_count'[s] > 0
    OBVIOUS
  <2>2. s \in Slots /\ (s = new \/ s \in live)
    BY <1>2, <1>3
  <2> QED BY ONLY <1>3, <1>8, <2>1, <2>2
<1> QED BY <1>1, <1>9, <1>10, <1>11, <1>12, <1>13, IdleStep

\* prefix_list moves the references of two variables to a new cell.
LEMMA PrefixListIInv ==
  ASSUME IInv, NEW cons \in Roots, NEW list \in Roots, NEW into \in Roots,
         prefix_list(cons, list, into)
  PROVE  IInv'
<1>1. /\ Idle /\ destroying' = destroying /\ cons # list
      /\ ref[into] = NULL \/ into \in {cons, list}
  BY DEF prefix_list
<1>2. PICK new \in Slots \ live :
        /\ live' = live \union {new}
        /\ ref_count' = [ref_count EXCEPT ![new] = 1]
        /\ ref' = [[ref EXCEPT ![<<new, "car">>] = ref[cons], ![<<new, "cdr">>] = ref[list],
                               ![cons] = NULL, ![list] = NULL]
                    EXCEPT ![into] = new]
  BY DEF prefix_list
<1> DEFINE car == <<new, "car">>
           cdr == <<new, "cdr">>
           f1 == [ref EXCEPT ![car] = ref[cons]]
           f2 == [f1 EXCEPT ![cdr] = ref[list]]
           f3 == [f2 EXCEPT ![cons] = NULL]
           f4 == [f3 EXCEPT ![list] = NULL]
<1>3. /\ ref \in [Locations -> Slots \union {NULL}] /\ ref_count \in [Slots -> Nat]
      /\ live \subseteq Slots /\ car \in Locations /\ cdr \in Locations /\ car # cdr
      /\ cons \in Locations /\ list \in Locations /\ into \in Locations
      /\ \A r \in {cons, list, into} : r # car /\ r # cdr
      /\ ref[cons] \in live \union {NULL} /\ ref[list] \in live \union {NULL}
      /\ ref[cons] \in Slots \union {NULL} /\ ref[list] \in Slots \union {NULL}
      /\ ref[car] = NULL /\ ref[cdr] = NULL /\ new \in Slots /\ new # NULL
      /\ ref_count[new] = 0 /\ ref[cons] # new /\ ref[list] # new /\ NULL \notin Slots
      /\ NULL \in Slots \union {NULL}
  BY <1>1, LocationKinds, FreshSlot, RefersToLive, NullAssumption DEF IInv, TypeOK
<1>4. /\ Stored(ref, f1, car, ref[cons])
      /\ Stored(f1, f2, cdr, ref[list])
      /\ Stored(f2, f3, cons, NULL)
      /\ Stored(f3, f4, list, NULL)
      /\ Stored(f4, ref', into, new)
  BY <1>2 DEF Stored
<1> HIDE DEF f1, f2, f3, f4, car, cdr
<1>5. f1 \in [Locations -> Slots \union {NULL}] /\ Recounted(ref, f1, car, ref[cons])
  BY ONLY <1>3, <1>4, CountStore
<1>6. f2 \in [Locations -> Slots \union {NULL}] /\ Recounted(f1, f2, cdr, ref[list])
  BY ONLY <1>3, <1>4, <1>5, CountStore
<1>7. f3 \in [Locations -> Slots \union {NULL}] /\ Recounted(f2, f3, cons, NULL)
  BY ONLY <1>3, <1>4, <1>6, CountStore
<1>8. f4 \in [Locations -> Slots \union {NULL}] /\ Recounted(f3, f4, list, NULL)
  BY ONLY <1>3, <1>4, <1>7, CountStore
<1>9. ref' \in [Locations -> Slots \union {NULL}] /\ Recounted(f4, ref', into, new)
  BY ONLY <1>3, <1>4, <1>8, CountStore
<1>10. /\ ref_count' \in [Slots -> Nat]
       /\ \A s \in Slots : ref_count'[s] = IF s = new THEN 1 ELSE ref_count[s]
  BY <1>2, <1>3
<1>11. /\ f1[cdr] = NULL /\ f2[cons] = ref[cons] /\ f3[list] = ref[list]
       /\ f4[into] = NULL
  BY ONLY <1>1, <1>3, <1>5, <1>6, <1>7, <1>8 DEF Recounted
<1>12. TypeOK'
  BY <1>1, <1>2, <1>9, <1>10 DEF IInv, TypeOK
<1>13. CountsExact'
  <2>1. ASSUME NEW s \in Slots
        PROVE  ref_count'[s] = Count(ref', s)
    <3>1. ref_count[s] = Count(ref, s) /\ ref_count[s] \in Nat
      BY <1>3, CountsAreCounts DEF IInv
    <3>2. Count(f2, s) = Count(ref, s) + (IF ref[cons] = s THEN 1 ELSE 0)
                                       + (IF ref[list] = s THEN 1 ELSE 0)
      BY ONLY s \in Slots, <1>3, <1>5, <1>6, <1>11, <3>1 DEF Recounted
    <3>3. Count(f4, s) = Count(ref, s)
      BY ONLY s \in Slots, <1>3, <1>7, <1>8, <1>11, <3>1, <3>2 DEF Recounted
    <3>4. Count(ref', s) = Count(ref, s) + (IF new = s THEN 1 ELSE 0)
      BY ONLY s \in Slots, <1>3, <1>9, <1>11, <3>1, <3>3 DEF Recounted
    <3> QED BY <1>3, <1>10, <3>1, <3>4
  <2> QED BY <2>1 DEF CountsExact, References, Count
<1>14. \A l \in Locations : ref'[l] # NULL => ref'[l] \in live'
  BY <1>1, <1>2, <1>3, <1>5, <1>6, <1>7, <1>8, <1>9, RefersToLive DEF Recounted
<1>15. FreeZeroed'
  <2> SUFFICES ASSUME NEW s \in Slots \ live', NEW field \in Fields
               PROVE  ref'[<<s, field>>] = NULL
    BY DEF FreeZeroed
  <2>1. /\ <<s, field>> \in Locations \ {cons, list, into, car, cdr}
        /\ s \in Slots \ live /\ ref[<<s, field>>] = NULL
    BY <1>2, LocationKinds DEF IInv, FreeZeroed, car, cdr
  <2> QED BY <1>5, <1>6, <1>7, <1>8, <1>9, <2>1 DEF Recounted
<1>16. \A s \in live' : ref_count'[s] > 0
  BY <1>1, <1>2, <1>3, <1>10, IdleIInv DEF IInv, LiveCounted
<1> QED BY <1>1, <1>12, <1>13, <1>14, <1>15, <1>16, IdleStep

\* alist_put of a new key: a pair shares the key and the value, and a new first cell
\* takes over the list from the variable.
LEMMA AlistPutNewIInv ==
  ASSUME IInv, NEW alist \in Roots, NEW key \in Roots, NEW value \in Roots,
         alist_put_new(alist, key, value)
  PROVE  IInv'
<1>1. Idle /\ destroying' = destroying
  BY DEF alist_put_new
<1>2. PICK head \in Slots \ live, pair \in Slots \ live :
        /\ head # pair
        /\ live' = live \union {head, pair}
        /\ ref_count' =
             Retained(Retained([ref_count EXCEPT ![head] = 1, ![pair] = 1], ref[key]),
                      ref[value])
        /\ ref' = [ref EXCEPT ![<<head, "car">>] = pair, ![<<head, "cdr">>] = ref[alist],
                              ![<<pair, "car">>] = ref[key],
                              ![<<pair, "cdr">>] = ref[value], ![alist] = head]
  BY DEF alist_put_new
<1> DEFINE hcar == <<head, "car">>
           hcdr == <<head, "cdr">>
           pcar == <<pair, "car">>
           pcdr == <<pair, "cdr">>
           f1 == [ref EXCEPT ![hcar] = pair]
           f2 == [f1 EXCEPT ![hcdr] = ref[alist]]
           f3 == [f2 EXCEPT ![pcar] = ref[key]]
           f4 == [f3 EXCEPT ![pcdr] = ref[value]]
           c1 == [ref_count EXCEPT ![head] = 1, ![pair] = 1]
           c2 == Retained(c1, ref[key])
<1>3. /\ ref \in [Locations -> Slots \union {NULL}] /\ ref_count \in [Slots -> Nat]
      /\ live \subseteq Slots /\ alist \in Locations
      /\ {hcar, hcdr, pcar, pcdr} \subseteq Locations
      /\ alist \notin {hcar, hcdr, pcar, pcdr}
      /\ hcar # hcdr /\ hcar # pcar /\ hcar # pcdr /\ hcdr # pcar /\ hcdr # pcdr
      /\ pcar # pcdr
      /\ ref[hcar] = NULL /\ ref[hcdr] = NULL /\ ref[pcar] = NULL /\ ref[pcdr] = NULL
      /\ head \in Slots /\ pair \in Slots /\ head # NULL /\ pair # NULL /\ head # pair
      /\ ref_count[head] = 0 /\ ref_count[pair] = 0 /\ NULL \notin Slots
  <2>1. /\ ref \in [Locations -> Slots \union {NULL}] /\ ref_count \in [Slots -> Nat]
        /\ live \subseteq Slots /\ alist \in Locations /\ NULL \notin Slots
    BY LocationKinds, NullAssumption DEF IInv, TypeOK
  <2>2. /\ hcar \in Locations /\ hcdr \in Locations /\ hcar # hcdr
        /\ alist # hcar /\ alist # hcdr /\ head # NULL
        /\ ref[hcar] = NULL /\ ref[hcdr] = NULL /\ ref_count[head] = 0
    BY <1>1, FreshSlot
  <2>3. /\ pcar \in Locations /\ pcdr \in Locations /\ pcar # pcdr
        /\ alist # pcar /\ alist # pcdr /\ pair # NULL
        /\ ref[pcar] = NULL /\ ref[pcdr] = NULL /\ ref_count[pair] = 0
    BY <1>1, FreshSlot
  <2>4. hcar # pcar /\ hcar # pcdr /\ hcdr # pcar /\ hcdr # pcdr
    BY <1>2
  <2> HIDE DEF hcar, hcdr, pcar, pcdr
  <2> QED BY <1>2, <2>1, <2>2, <2>3, <2>4
<1>4. \A r \in {alist, key, value} :
        /\ ref[r] \in live \union {NULL} /\ ref[r] \in Slots \union {NULL}
        /\ ref[r] # head /\ ref[r] # pair
  BY <1>1, LocationKinds, FreshSlot, RefersToLive
<1>5. /\ Stored(ref, f1, hcar, pair)
      /\ Stored(f1, f2, hcdr, ref[alist])
      /\ Stored(f2, f3, pcar, ref[key])
      /\ Stored(f3, f4, pcdr, ref[value])
      /\ Stored(f4, ref', alist, head)
  BY <1>2 DEF Stored
<1> HIDE DEF f1, f2, f3, f4, hcar, hcdr, pcar, pcdr
<1>6. f1 \in [Locations -> Slots \union {NULL}] /\ Recounted(ref, f1, hcar, pair)
  BY ONLY <1>3, <1>5, CountStore
<1>7. f2 \in [Locations -> Slots \union {NULL}] /\ Recounted(f1, f2, hcdr, ref[alist])
  BY ONLY <1>3, <1>4, <1>5, <1>6, CountStore
<1>8. f3 \in [Locations -> Slots \union {NULL}] /\ Recounted(f2, f3, pcar, ref[key])
  BY ONLY <1>3, <1>4, <1>5, <1>7, CountStore
<1>9. f4 \in [Locations -> Slots \union {NULL}] /\ Recounted(f3, f4, pcdr, ref[value])
  BY ONLY <1>3, <1>4, <1>5, <1>8, CountStore
<1>10. ref' \in [Locations -> Slots \union {NULL}] /\ Recounted(f4, ref', alist, head)
  BY ONLY <1>3, <1>5, <1>9, CountStore
<1>11. /\ ref_count' \in [Slots -> Nat]
       /\ \A s \in Slots : ref_count'[s] = ref_count[s] + (IF s \in {head, pair} THEN 1 ELSE 0)
                            + (IF ref[key] = s THEN 1 ELSE 0)
                            + (IF ref[value] = s THEN 1 ELSE 0)
  <2>1. c1 \in [Slots -> Nat]
        /\ \A s \in Slots : c1[s] = ref_count[s] + (IF s \in {head, pair} THEN 1 ELSE 0)
    BY <1>3
  <2>3. ref_count' = Retained(c2, ref[value])
    BY <1>2
  <2> HIDE DEF c1
  <2>2. c2 \in [Slots -> Nat]
        /\ \A s \in Slots : c2[s] = c1[s] + (IF ref[key] = s THEN 1 ELSE 0)
    BY <1>4, <2>1, RetainedCounts
  <2> HIDE DEF c2
  <2>4. ref_count' \in [Slots -> Nat]
        /\ \A s \in Slots : ref_count'[s] = c2[s] + (IF ref[value] = s THEN 1 ELSE 0)
    BY <1>4, <2>2, <2>3, RetainedCounts
  <2> QED BY <1>3, <2>1, <2>2, <2>4
<1>12. /\ f1[hcdr] = NULL /\ f2[pcar] = NULL /\ f3[pcdr] = NULL
       /\ f4[alist] = ref[alist]
  BY ONLY <1>3, <1>6, <1>7, <1>8, <1>9 DEF Recounted
<1>13. TypeOK'
  BY <1>1, <1>2, <1>10, <1>11 DEF IInv, TypeOK
<1>14. CountsExact'
  <2>1. ASSUME NEW s \in Slots
        PROVE  ref_count'[s] = Count(ref', s)
    <3>1. ref_count[s] = Count(ref, s) /\ ref_count[s] \in Nat
      BY <1>3, CountsAreCounts DEF IInv
    <3>2. Count(f2, s) = Count(ref, s) + (IF pair = s THEN 1 ELSE 0)
                                       + (IF ref[alist] = s THEN 1 ELSE 0)
      BY ONLY s \in Slots, <1>3, <1>6, <1>7, <1>12, <3>1 DEF Recounted
    <3>3. Count(f4, s) = Count(f2, s) + (IF ref[key] = s THEN 1 ELSE 0)
                                      + (IF ref[value] = s THEN 1 ELSE 0)
      BY ONLY s \in Slots, <1>3, <1>8, <1>9, <1>12, <3>1, <3>2 DEF Recounted
    <3>4. Count(ref', s) = Count(f4, s) - (IF ref[alist] = s THEN 1 ELSE 0)
                                        + (IF head = s THEN 1 ELSE 0)
      BY ONLY s \in Slots, <1>10, <1>12 DEF Recounted
    <3> QED BY ONLY s \in Slots, <1>3, <1>11, <3>1, <3>2, <3>3, <3>4
  <2> QED BY <2>1 DEF CountsExact, References, Count
<1>15. \A l \in Locations : ref'[l] # NULL => ref'[l] \in live'
  BY <1>1, <1>2, <1>3, <1>4, <1>6, <1>7, <1>8, <1>9, <1>10, RefersToLive DEF Recounted
<1>16. FreeZeroed'
  <2> SUFFICES ASSUME NEW s \in Slots \ live', NEW field \in Fields
               PROVE  ref'[<<s, field>>] = NULL
    BY DEF FreeZeroed
  <2>1. /\ <<s, field>> \in Locations \ {alist, hcar, hcdr, pcar, pcdr}
        /\ s \in Slots \ live /\ ref[<<s, field>>] = NULL
    BY <1>2, LocationKinds DEF IInv, FreeZeroed, hcar, hcdr, pcar, pcdr
  <2> QED BY <1>6, <1>7, <1>8, <1>9, <1>10, <2>1 DEF Recounted
<1>17. \A s \in live' : ref_count'[s] > 0
  <2>1. \A s \in live : ref_count[s] > 0 /\ ref_count[s] \in Nat
    BY <1>1, <1>3, IdleIInv DEF IInv, LiveCounted
  <2> SUFFICES ASSUME NEW s \in live' PROVE ref_count'[s] > 0
    OBVIOUS
  <2>2. s \in Slots /\ (s \in {head, pair} \/ s \in live)
    BY <1>2, <1>3
  <2> QED BY ONLY <1>3, <1>11, <2>1, <2>2
<1> QED BY <1>1, <1>13, <1>14, <1>15, <1>16, <1>17, IdleStep

\* alist_put of a key that is there: the pair drops its old value for the new one.
LEMMA AlistPutFoundIInv ==
  ASSUME IInv, NEW alist \in Roots, NEW key \in Roots, NEW value \in Roots,
         alist_put_found(alist, key, value)
  PROVE  IInv'
<1>1. Idle /\ live' = live /\ Dying = {}
  BY IdleIInv DEF alist_put_found
<1>2. PICK pair \in live :
        /\ ref' = [ref EXCEPT ![<<pair, "cdr">>] = ref[value]]
        /\ ref_count' = Released(Retained(ref_count, ref[value]), ref[<<pair, "cdr">>])
        /\ destroying' = Entered(Retained(ref_count, ref[value]), ref[<<pair, "cdr">>],
                                 destroying)
  BY DEF alist_put_found
<1> DEFINE cdr == <<pair, "cdr">>
<1>3. destroying \in Seq(Frames) /\ Len(destroying) = 0 /\ live \subseteq Slots
      /\ ref \in [Locations -> Slots \union {NULL}]
  BY <1>1, IdleIInv DEF IInv, TypeOK
<1>4. cdr \in Locations /\ ref[value] \in (live \ Dying) \union {NULL}
  BY <1>1, <1>3, LocationKinds, RefersToLive DEF Fields
<1> HIDE DEF cdr
<1>5. /\ TypeOK' /\ CountsExact' /\ NoDangling' /\ DestroyedOnce' /\ LiveCounted'
      /\ \A i \in 1 .. Len(destroying') :
           \/ i \in 1 .. Len(destroying) /\ destroying'[i] = destroying[i]
           \/ destroying'[i].slot \in live /\ destroying'[i].at = "car"
  <2>1. /\ ref' = [ref EXCEPT ![cdr] = ref[value]]
        /\ ref_count' = Released(Retained(ref_count, ref[value]), ref[cdr])
        /\ destroying' = Entered(Retained(ref_count, ref[value]), ref[cdr], destroying)
    BY <1>2 DEF cdr
  <2> QED BY ONLY IInv, <1>1, <1>3, <1>4, <2>1, ReferenceDropped
<1>6. FieldsReleased'
  BY <1>1, <1>3, <1>5 DEF FieldsReleased
<1>7. FreeZeroed'
  <2> SUFFICES ASSUME NEW s \in Slots \ live, NEW field \in Fields
               PROVE  ref'[<<s, field>>] = NULL
    BY <1>1 DEF FreeZeroed
  <2>1. <<s, field>> \in Locations \ {cdr} /\ ref[<<s, field>>] = NULL
    BY <1>3, LocationKinds DEF IInv, FreeZeroed, cdr
  <2> QED BY <1>2, <1>3, <2>1 DEF cdr
<1> QED BY <1>5, <1>6, <1>7 DEF IInv

\* Every step keeps the invariant.
LEMMA NextIInv == IInv /\ [Next]_vars => IInv'
<1> SUFFICES ASSUME IInv, [Next]_vars PROVE IInv'
  OBVIOUS
<1>1. ASSUME NEW field \in Fields, destroy_field(field) PROVE IInv'
  BY <1>1, DestroyFieldIInv
<1>2. CASE free_rc_slot
  BY <1>2, FreeIInv
<1>3. ASSUME NEW from \in Roots, NEW into \in Roots, retain(from, into) PROVE IInv'
  BY <1>3, RetainIInv
<1>4. ASSUME NEW root \in Roots, release(root) PROVE IInv'
  BY <1>4, ReleaseRootIInv
<1>5. ASSUME NEW cons \in Roots, NEW list \in Roots, NEW into \in Roots,
             prefix_list(cons, list, into) \/ list_cons(cons, list, into)
      PROVE  IInv'
  BY <1>5, PrefixListIInv, ListConsIInv
<1>6. ASSUME NEW list \in Roots, NEW into \in Roots,
             list_first(list, into) \/ list_rest(list, into)
      PROVE  IInv'
  BY <1>6, ListFieldIInv DEF list_first, list_rest, Fields
<1>7. ASSUME NEW alist \in Roots, NEW key \in Roots, NEW value \in Roots,
             alist_put_found(alist, key, value) \/ alist_put_new(alist, key, value)
      PROVE  IInv'
  BY <1>7, AlistPutFoundIInv, AlistPutNewIInv
<1>8. CASE UNCHANGED vars
  <2>1. /\ ref' = ref /\ ref_count' = ref_count /\ live' = live /\ destroying' = destroying
    BY <1>8 DEF vars
  <2> QED BY <2>1 DEF IInv, TypeOK, CountsExact, References, NoDangling, Dying,
                      DestroyedOnce, FieldsReleased, FreeZeroed, LiveCounted
<1> QED BY <1>1, <1>2, <1>3, <1>4, <1>5, <1>6, <1>7, <1>8 DEF Next, Release, Program

-----------------------------------------------------------------------------
(***************************************************************************)
(* What reference counting guarantees.                                     *)
(***************************************************************************)
\* The invariant holds always.
THEOREM Invariant == Spec => []IInv
<1>1. Init => IInv
  BY InitIInv
<1>2. IInv /\ [Next]_vars => IInv'
  BY NextIInv
<1> QED BY <1>1, <1>2, PTL DEF Spec

\* After any sequence of retain, release and list operations, and inside a release, the
\* count of a slot is the number of counted references to it.
THEOREM CountsExactAlways == Spec => []CountsExact
<1>1. IInv => CountsExact
  BY DEF IInv
<1> QED BY <1>1, Invariant, PTL

\* No variable and no field of a live slot refers to a slot that was freed or whose
\* destructor runs: a release frees nothing that is still used.
THEOREM NoDanglingAlways == Spec => []NoDangling
<1>1. IInv => NoDangling
  BY DEF IInv
<1> QED BY <1>1, Invariant, PTL

\* The recursion of release never meets a slot it is destroying already, not even on
\* cyclic lists: it is never deeper than there are slots.
THEOREM DestroyedOnceAlways == Spec => []DestroyedOnce
<1>1. IInv => DestroyedOnce
  BY DEF IInv
<1> QED BY <1>1, Invariant, PTL

-----------------------------------------------------------------------------
(***************************************************************************)
(* A release ends: each of its steps does a piece of work that is never to *)
(* be done again.                                                          *)
(***************************************************************************)
\* The work is of the slots that are not being destroyed, and of the destructors.
LEMMA WorkMembers ==
  ASSUME NEW p
  PROVE  p \in Work <=>
           \/ p \in (live \ Dying) \X (1 .. 3)
           \/ \E i \in 1 .. Len(destroying) :
                p \in {destroying[i].slot} \X Remaining(destroying[i].at)
BY DEF Work

\* Releasing a field does the work of that field, and leaves the work of the slot it
\* referred to as it was, even when that slot is destroyed next.
LEMMA DestroyFieldWorks ==
  ASSUME IInv, NEW field \in Fields, destroy_field(field)
  PROVE  Work' \subseteq Work /\ Work' # Work
<1> DEFINE next == IF field = "car" THEN "cdr" ELSE "free"
           n == Len(destroying)
           inner == [destroying EXCEPT ![n].at = next]
           child == ref[<<Top.slot, field>>]
           done == <<Top.slot, IF field = "car" THEN 3 ELSE 2>>
<1>0. /\ AtTop(field) /\ destroying \in Seq(Frames) /\ ref_count \in [Slots -> Nat]
      /\ live' = live /\ destroying' = Entered(ref_count, child, inner)
  BY DEF destroy_field, IInv, TypeOK
<1>1. /\ n \in 1 .. n /\ n \in Nat /\ Top = destroying[n] /\ Top \in Frames
      /\ Top.at = field /\ Top.slot \in live /\ Top.slot \in Dying /\ Top.slot \in Slots
  BY <1>0, TopFrame
<1>2. /\ inner \in Seq(Frames) /\ Len(inner) = n
      /\ inner[n] = [slot |-> Top.slot, at |-> next]
      /\ \A i \in 1 .. n : i # n => inner[i] = destroying[i]
  <2>1. [destroying[n] EXCEPT !.at = next] = [slot |-> Top.slot, at |-> next]
    BY <1>1 DEF Frames
  <2>2. [slot |-> Top.slot, at |-> next] \in Frames
    BY <1>1 DEF Frames
  <2>3. inner = [destroying EXCEPT ![n] = [slot |-> Top.slot, at |-> next]]
    BY <2>1
  <2> QED BY <1>0, <1>1, <2>2, <2>3
<1>3. child \in (live \ Dying) \union {NULL} /\ child \in Slots \union {NULL}
  BY <1>1, LocationKinds DEF IInv, NoDangling, TypeOK
<1> HIDE DEF inner, child
<1>4. /\ destroying' \in Seq(Frames)
      /\ \A i \in 1 .. n : i \in 1 .. Len(destroying') /\ destroying'[i] = inner[i]
      /\ \A i \in 1 .. Len(destroying') :
           \/ i \in 1 .. n
           \/ child \in live \ Dying /\ destroying'[i] = [slot |-> child, at |-> "car"]
  <2>1. /\ destroying' \in Seq(Frames)
        /\ \A i \in 1 .. n : i \in 1 .. Len(destroying') /\ destroying'[i] = inner[i]
        /\ child # NULL /\ ref_count[child] = 1 =>
             /\ Len(destroying') = n + 1
             /\ destroying'[Len(destroying')] = [slot |-> child, at |-> "car"]
        /\ ~(child # NULL /\ ref_count[child] = 1) => destroying' = inner
    BY ONLY <1>0, <1>2, <1>3, EnteredStack
  <2> QED BY <1>1, <1>2, <1>3, <2>1
<1>5. Dying \subseteq Dying'
  <2>1. \A i \in 1 .. n : i \in 1 .. Len(destroying')
                          /\ destroying'[i].slot = destroying[i].slot
    BY <1>1, <1>2, <1>4
  <2> QED BY <2>1 DEF Dying
<1>6. done \in Work
  <2>1. done \in {destroying[n].slot} \X Remaining(destroying[n].at)
    BY <1>1 DEF Remaining, Fields
  <2> QED BY <1>1, <2>1, WorkMembers
<1>7. ASSUME NEW p \in Work' PROVE p \in Work /\ p # done
  <2>1. \/ p \in (live' \ Dying') \X (1 .. 3)
        \/ \E i \in 1 .. Len(destroying') :
             p \in {destroying'[i].slot} \X Remaining(destroying'[i].at)
    BY <1>7 DEF Work
  <2>2. CASE p \in (live' \ Dying') \X (1 .. 3)
    <3>1. p \in (live \ Dying) \X (1 .. 3)
      BY <1>0, <1>5, <2>2
    <3> QED BY <1>1, <3>1, WorkMembers
  <2>3. ASSUME NEW i \in 1 .. Len(destroying'),
               p \in {destroying'[i].slot} \X Remaining(destroying'[i].at)
        PROVE  p \in Work /\ p # done
    <3>1. CASE i \in 1 .. n /\ i # n
      <4>1. p \in {destroying[i].slot} \X Remaining(destroying[i].at)
        BY <1>2, <1>4, <2>3, <3>1
      <4>2. destroying[i].slot # Top.slot
        BY <1>1, <3>1 DEF IInv, DestroyedOnce
      <4> QED BY <3>1, <4>1, <4>2, WorkMembers
    <3>2. CASE i = n
      <4>1. p \in {Top.slot} \X Remaining(next)
        BY <1>1, <1>2, <1>4, <2>3, <3>2
      <4>2. p \in {Top.slot} \X Remaining(field) /\ p # done
        BY <4>1 DEF Remaining, Fields
      <4> QED BY <1>1, <4>2, WorkMembers
    <3>3. CASE child \in live \ Dying /\ destroying'[i] = [slot |-> child, at |-> "car"]
      <4>1. p \in (live \ Dying) \X (1 .. 3)
        BY <2>3, <3>3 DEF Remaining
      <4> QED BY <1>1, <4>1, WorkMembers
    <3> QED BY <1>4, <3>1, <3>2, <3>3
  <2> QED BY <2>1, <2>2, <2>3
<1> QED BY <1>6, <1>7

\* Freeing a slot is the last of its work.
LEMMA FreeWorks ==
  ASSUME IInv, free_rc_slot
  PROVE  Work' \subseteq Work /\ Work' # Work
<1> DEFINE n == Len(destroying)
           slot == Top.slot
           done == <<Top.slot, 1>>
<1>0. /\ AtTop("free") /\ live' = live \ {slot} /\ destroying \in Seq(Frames)
      /\ destroying' = SubSeq(destroying, 1, n - 1)
  BY DEF free_rc_slot, IInv, TypeOK
<1>1. /\ n \in 1 .. n /\ n \in Nat /\ Top = destroying[n] /\ Top.at = "free"
      /\ slot \in live /\ slot \in Dying
  BY <1>0, TopFrame
<1>2. \A i \in 1 .. n - 1 : destroying[i] \in Frames
  BY <1>0, <1>1
<1>3. Len(destroying') = n - 1 /\ \A i \in 1 .. n - 1 : destroying'[i] = destroying[i]
  <2>1. n - 1 \in Int /\ n - 1 \in Nat /\ 1 \in Int
    BY <1>1
  <2> DEFINE m == n - 1
             rest == SubSeq(destroying, 1, m)
  <2>2. m \in Int /\ m \in Nat /\ \A i \in 1 .. m : destroying[i] \in Frames
    BY <1>2, <2>1
  <2> HIDE DEF m
  <2>3. /\ Len(rest) = IF 1 <= m THEN m - 1 + 1 ELSE 0
        /\ \A i \in 1 .. m - 1 + 1 : rest[i] = destroying[1 + i - 1]
    BY ONLY <2>1, <2>2, SubSeqProperties
  <2>4. Len(rest) = m /\ \A i \in 1 .. m : rest[i] = destroying[i]
    BY <2>2, <2>3
  <2> QED BY <1>0, <2>4 DEF m
<1>4. \A i \in 1 .. n - 1 : i \in 1 .. n /\ destroying[i].slot # slot
  BY <1>1 DEF IInv, DestroyedOnce
<1>5. live' \ Dying' \subseteq live \ Dying
  <2>1. \A i \in 1 .. n : i \in 1 .. n - 1 \/ i = n
    BY <1>1
  <2>2. Dying \subseteq Dying' \union {slot}
    BY <1>1, <1>3, <2>1 DEF Dying
  <2> QED BY <1>0, <2>2
<1>6. done \in Work
  <2>1. done \in {destroying[n].slot} \X Remaining(destroying[n].at)
    BY <1>1 DEF Remaining
  <2> QED BY <1>1, <2>1, WorkMembers
<1>7. ASSUME NEW p \in Work' PROVE p \in Work /\ p # done
  <2>1. \/ p \in (live' \ Dying') \X (1 .. 3)
        \/ \E i \in 1 .. Len(destroying') :
             p \in {destroying'[i].slot} \X Remaining(destroying'[i].at)
    BY <1>7 DEF Work
  <2>2. CASE p \in (live' \ Dying') \X (1 .. 3)
    BY <1>1, <1>5, <2>2, WorkMembers
  <2>3. CASE \E i \in 1 .. Len(destroying') :
               p \in {destroying'[i].slot} \X Remaining(destroying'[i].at)
    BY <1>3, <1>4, <2>3, WorkMembers
  <2> QED BY <2>1, <2>2, <2>3
<1> QED BY <1>6, <1>7

\* Every step of a release gets something done for good, so a release ends, whatever
\* the shape of what it frees, after at most three steps for each live slot.
THEOREM ReleaseAlwaysProgresses == Spec => ReleaseProgresses
<1>1. IInv /\ [Next]_vars => [Release => Work' \subseteq Work /\ Work' # Work]_vars
  BY DestroyFieldWorks, FreeWorks DEF Release
<1> QED BY <1>1, Invariant, PTL DEF Spec, ReleaseProgresses

-----------------------------------------------------------------------------
(***************************************************************************)
(* What one gets to by following fields.                                   *)
(***************************************************************************)
\* A closed set of live slots that has the first ones has all one gets to.
LEMMA ReachableWithin ==
  ASSUME NEW start, NEW set \in SUBSET live, start \subseteq set, Closed(set)
  PROVE  ReachableFrom(start) \subseteq set
BY DEF ReachableFrom

\* What one gets to is live, has the first slots, and has what its fields refer to.
LEMMA ReachableClosed ==
  ASSUME IInv, NEW start
  PROVE  /\ ReachableFrom(start) \in SUBSET live
         /\ start \intersect live \subseteq ReachableFrom(start)
         /\ \A s \in ReachableFrom(start), f \in Fields :
              ref[<<s, f>>] \in ReachableFrom(start) \union {NULL}
         /\ Closed(ReachableFrom(start))
<1>1. ReachableFrom(start) \in SUBSET live
  BY DEF ReachableFrom
<1>2. start \intersect live \subseteq ReachableFrom(start)
  BY DEF ReachableFrom
<1>3. ASSUME NEW s \in ReachableFrom(start), NEW f \in Fields, ref[<<s, f>>] # NULL
      PROVE  ref[<<s, f>>] \in ReachableFrom(start)
  <2>1. s \in live /\ <<s, f>> \in Locations
    BY <1>1, LocationKinds DEF IInv, TypeOK
  <2>2. ref[<<s, f>>] \in live
    BY <1>3, <2>1 DEF IInv, NoDangling
  <2>3. ASSUME NEW set \in SUBSET live, start \subseteq set, Closed(set)
        PROVE  ref[<<s, f>>] \in set
    <3>1. s \in set
      BY <2>3, ReachableWithin
    <3> QED BY <1>3, <2>3, <3>1 DEF Closed
  <2> QED BY <2>2, <2>3 DEF ReachableFrom
<1> QED BY <1>1, <1>2, <1>3 DEF Closed

\* What one gets to from a slot one gets to.
LEMMA ReachableOnwards ==
  ASSUME IInv, NEW start, NEW onwards, onwards \subseteq ReachableFrom(start)
  PROVE  ReachableFrom(onwards) \subseteq ReachableFrom(start)
BY ReachableClosed, ReachableWithin

\* The program gets to what its variables refer to and to what the fields of that refer
\* to, and to no slot that is being destroyed.
LEMMA ProgramReaches ==
  ASSUME IInv
  PROVE  /\ Reachable \subseteq live \ Dying
         /\ \A r \in Roots : ref[r] \in Reachable \union {NULL}
         /\ \A s \in Reachable, f \in Fields : ref[<<s, f>>] \in Reachable \union {NULL}
<1> DEFINE start == {ref[r] : r \in Roots} \ {NULL}
<1>1. start \subseteq live \ Dying
  BY LocationKinds DEF IInv, NoDangling
<1>2. Closed(live \ Dying)
  <2>1. \A s \in live, f \in Fields : <<s, f>> \in Locations
    BY LocationKinds DEF IInv, TypeOK
  <2> QED BY <2>1 DEF Closed, IInv, NoDangling
<1>3. Reachable \subseteq live \ Dying
  <2>1. live \ Dying \in SUBSET live
    OBVIOUS
  <2> QED BY <1>1, <1>2, <2>1, ReachableWithin DEF Reachable
<1>4. start \subseteq Reachable
  BY <1>1, ReachableClosed DEF Reachable
<1>5. \A s \in Reachable, f \in Fields : ref[<<s, f>>] \in Reachable \union {NULL}
  BY ReachableClosed DEF Reachable
<1> QED BY <1>3, <1>4, <1>5

-----------------------------------------------------------------------------
(***************************************************************************)
(* Only cycles leak.                                                       *)
(***************************************************************************)
\* Among subsets of a finite set there is one that has no other of them in it.
LEMMA SmallestSubset ==
  ASSUME NEW S, IsFiniteSet(S), NEW A, A \subseteq SUBSET S, A # {}
  PROVE  \E x \in A : \A y \in A : y \subseteq x => y = x
<1>1. FiniteSubsetsOf(S) = SUBSET S
  BY FS_FiniteSubsetsOfFinite
<1>2. IsWellFoundedOn(StrictSubsetOrdering(S), SUBSET S)
  BY <1>1, FS_StrictSubsetOrderingWellFounded
<1>3. PICK x \in A : \A y \in A : ~(<<y, x>> \in StrictSubsetOrdering(S))
  BY <1>2, WFMin
<1>4. ASSUME NEW y \in A, y \subseteq x PROVE y = x
  <2>1. <<y, x>> \in (SUBSET S) \X (SUBSET S) /\ <<y, x>>[1] = y /\ <<y, x>>[2] = x
    OBVIOUS
  <2>2. <<y, x>> \notin StrictSubsetOrdering(S)
    BY <1>3
  <2> QED BY <1>4, <2>1, <2>2 DEF StrictSubsetOrdering
<1> QED BY <1>4

\* Garbage is kept by garbage: a live slot is referred to, and if the program cannot get
\* to it, by a field of a slot it cannot get to either.
LEMMA GarbageIsReferredTo ==
  ASSUME IInv, Idle, NEW g \in live \ Reachable
  PROVE  \E q \in live \ Reachable, f \in Fields : ref[<<q, f>>] = g
<1>1. g \in Slots /\ ref_count[g] \in Nat /\ ref_count[g] > 0
  BY IdleIInv DEF IInv, TypeOK, LiveCounted
<1>2. PICK l \in Locations : ref[l] = g
  <2>1. Count(ref, g) # 0
    BY <1>1, CountsAreCounts DEF IInv
  <2> QED BY ONLY <2>1, CountType
<1>3. l \notin Roots
  BY <1>1, <1>2, ProgramReaches, NullAssumption
<1>4. PICK q \in Slots, f \in Fields : l = <<q, f>>
  BY <1>3, LocationKinds
<1>5. q \in live
  BY <1>1, <1>2, <1>4, NullAssumption DEF IInv, FreeZeroed
<1>6. q \notin Reachable
  BY <1>1, <1>2, <1>4, ProgramReaches, NullAssumption
<1> QED BY <1>2, <1>4, <1>5, <1>6

\* From a slot one gets to itself and to what one gets to from its fields.
LEMMA ReachableInOneStep ==
  ASSUME IInv, NEW p \in live
  PROVE  ReachableFrom({p}) \subseteq
           {p} \union ReachableFrom({ref[<<p, f>>] : f \in Fields} \ {NULL})
<1> DEFINE next == {ref[<<p, f>>] : f \in Fields} \ {NULL}
           set == {p} \union ReachableFrom(next)
<1>1. \A f \in Fields : <<p, f>> \in Locations
  BY LocationKinds DEF IInv, TypeOK
<1>2. next \subseteq live
  BY <1>1 DEF IInv, NoDangling
<1>3. next \subseteq ReachableFrom(next) /\ ReachableFrom(next) \in SUBSET live
  BY <1>2, ReachableClosed
<1>4. \A f \in Fields : ref[<<p, f>>] \in next \union {NULL}
  OBVIOUS
<1>5. \A s \in ReachableFrom(next), f \in Fields :
        ref[<<s, f>>] \in ReachableFrom(next) \union {NULL}
  BY ReachableClosed
<1> HIDE DEF next
<1>6. Closed(set) /\ set \in SUBSET live /\ {p} \subseteq set
  BY <1>3, <1>4, <1>5 DEF Closed
<1> QED BY <1>6, ReachableWithin DEF next

\* The invariant has what it takes: nothing but a cycle keeps garbage.
LEMMA GarbageOfCycles == IInv => LeaksAreCycles
<1> SUFFICES ASSUME IInv, Idle
             PROVE  live \ Reachable \subseteq
                      ReachableFrom({c \in live \ Reachable : OnCycle(c)})
  BY DEF LeaksAreCycles
<1> DEFINE garbage == live \ Reachable
           cycles == {c \in garbage : OnCycle(c)}
           kept == ReachableFrom(cycles)
           bad == garbage \ kept
           before(p) == {q \in live : p \in ReachableFrom({q})}
<1>1. SUFFICES ASSUME bad # {} PROVE FALSE
  OBVIOUS
<1>2. PICK p \in bad : \A q \in bad : before(q) \subseteq before(p) => before(q) = before(p)
  <2>1. IsFiniteSet(live)
    BY FiniteAssumption, FS_Subset DEF IInv, TypeOK
  <2> DEFINE A == {before(q) : q \in bad}
  <2>2. \A q \in bad : before(q) \in SUBSET live
    OBVIOUS
  <2> HIDE DEF before, bad
  <2>3. A \subseteq SUBSET live
    BY <2>2
  <2>4. A # {}
    <3>1. PICK q : q \in bad
      BY <1>1
    <3>2. before(q) \in A
      BY <3>1
    <3> QED BY <3>2
  <2>5. PICK x \in A : \A y \in A : y \subseteq x => y = x
    <3> HIDE DEF A
    <3> QED BY ONLY <2>1, <2>3, <2>4, SmallestSubset
  <2>6. PICK p \in bad : x = before(p)
    OBVIOUS
  <2>7. \A q \in bad : before(q) \in A
    OBVIOUS
  <2> QED BY <2>5, <2>6, <2>7
<1>3. PICK q \in garbage, f \in Fields : ref[<<q, f>>] = p
  BY GarbageIsReferredTo
<1>4. p # NULL /\ p \in live /\ q \in live
  BY NullAssumption DEF IInv, TypeOK
<1>5. q \in bad
  <2>1. ASSUME q \in kept PROVE FALSE
    <3>1. p \in kept
      BY <1>3, <1>4, <2>1, ReachableClosed
    <3> QED BY <3>1
  <2> QED BY <2>1
<1>6. before(q) \subseteq before(p)
  <2> SUFFICES ASSUME NEW x \in live, q \in ReachableFrom({x})
               PROVE  p \in ReachableFrom({x})
    OBVIOUS
  <2> QED BY <1>3, <1>4, ReachableClosed
<1>7. p \in before(p)
  BY <1>4, ReachableClosed
<1>8. q \in ReachableFrom({p})
  <2>1. p \in before(q)
    BY <1>2, <1>5, <1>6, <1>7
  <2> QED BY <2>1
<1>9. OnCycle(p)
  <2> DEFINE next == {ref[<<p, g>>] : g \in Fields} \ {NULL}
  <2>1. q = p \/ q \in ReachableFrom(next)
    BY <1>4, <1>8, ReachableInOneStep
  <2>2. CASE q \in ReachableFrom(next)
    <3>1. p \in ReachableFrom(next)
      <4> HIDE DEF next
      <4> QED BY <1>3, <1>4, <2>2, ReachableClosed
    <3> QED BY <3>1 DEF OnCycle
  <2>3. CASE q = p
    <3>1. p \in next
      BY <1>3, <1>4, <2>3
    <3>2. p \in ReachableFrom(next)
      <4> HIDE DEF next
      <4> QED BY <1>4, <3>1, ReachableClosed
    <3> QED BY <3>2 DEF OnCycle
  <2> QED BY <2>1, <2>2, <2>3
<1>10. p \in kept
  <2>1. p \in cycles
    BY <1>9
  <2> HIDE DEF cycles
  <2> QED BY <1>4, <2>1, ReachableClosed
<1> QED BY <1>10

\* Between two operations every slot left over is one that a cycle of garbage leads to:
\* whatever has no cycle in it is freed as soon as the program lets go of it.
THEOREM OnlyCyclesLeak == Spec => []LeaksAreCycles
BY GarbageOfCycles, Invariant, PTL

-----------------------------------------------------------------------------
(***************************************************************************)
(* RefHeap implements GcHeap: every operation of the program computes on   *)
(* what the program can get to, and every step of a release collects what  *)
(* it cannot get to.                                                       *)
(***************************************************************************)
\* Both specifications mean the same slots.
LEMMA SameReachable ==
  /\ Heap!Reachable = Reachable
  /\ Heap!Fields = Fields
<1>1. \A set : Heap!Closed(set) <=> Closed(set)
  BY DEF Heap!Closed, Closed, Heap!Fields, Fields
<1>2. \A start : Heap!ReachableFrom(start) = ReachableFrom(start)
  BY <1>1 DEF Heap!ReachableFrom, ReachableFrom
<1> QED BY <1>2 DEF Heap!Reachable, Reachable, Heap!Fields, Fields

\* An operation that touches only what the program can get to, and new slots.
LEMMA ComputeStep ==
  ASSUME IInv, NEW new, live' = live \union new, new \intersect live = {},
         \A r \in Roots : ref'[r] \in Reachable \union new \union {NULL},
         \A s \in Reachable \union new, f \in Fields :
           ref'[<<s, f>>] \in Reachable \union new \union {NULL},
         \A s \in Slots \ (Reachable \union new), f \in Fields :
           ref'[<<s, f>>] = ref[<<s, f>>]
  PROVE  Heap!Compute
<1>1. live' \ live = new
  OBVIOUS
<1> QED BY <1>1, SameReachable DEF Heap!Compute

\* An operation that allocates nothing.
LEMMA ComputeInPlace ==
  ASSUME IInv, live' = live,
         \A r \in Roots : ref'[r] \in Reachable \union {NULL},
         \A s \in Reachable, f \in Fields : ref'[<<s, f>>] \in Reachable \union {NULL},
         \A s \in Slots \ Reachable, f \in Fields : ref'[<<s, f>>] = ref[<<s, f>>]
  PROVE  Heap!Compute
<1>1. live' \ live = {}
  OBVIOUS
<1> QED BY <1>1, SameReachable DEF Heap!Compute

\* retain, release, list_first and list_rest change one variable, to something the
\* program could get to.
LEMMA VariableComputes ==
  ASSUME IInv, NEW root \in Roots, NEW v \in Reachable \union {NULL},
         ref' = [ref EXCEPT ![root] = v], UNCHANGED live
  PROVE  Heap!Compute
<1>1. /\ ref \in [Locations -> Slots \union {NULL}] /\ root \in Locations
      /\ \A s \in Slots, f \in Fields : <<s, f>> \in Locations \ {root}
      /\ Reachable \subseteq Slots
  BY LocationKinds, ProgramReaches DEF IInv, TypeOK
<1>2. ref'[root] = v /\ \A l \in Locations \ {root} : ref'[l] = ref[l]
  BY <1>1
<1>3. \A r \in Roots : ref'[r] \in Reachable \union {NULL}
  BY <1>2, ProgramReaches, LocationKinds
<1>4. \A s \in Slots, f \in Fields : ref'[<<s, f>>] = ref[<<s, f>>]
  BY <1>1, <1>2
<1>5. \A s \in Reachable, f \in Fields : ref'[<<s, f>>] \in Reachable \union {NULL}
  BY <1>1, <1>4, ProgramReaches
<1> QED BY <1>3, <1>4, <1>5, ComputeInPlace

\* prefix_list, list_cons and alist_put of a new key fill new slots with what the
\* program could get to, and store a new slot in a variable.
LEMMA AllocationComputes ==
  ASSUME IInv, NEW new \in SUBSET (Slots \ live), live' = live \union new,
         \A r \in Roots : ref'[r] \in {ref[r], NULL} \union new,
         \A s \in new, f \in Fields : ref'[<<s, f>>] \in Reachable \union new \union {NULL},
         \A s \in Slots \ new, f \in Fields : ref'[<<s, f>>] = ref[<<s, f>>]
  PROVE  Heap!Compute
<1>1. Reachable \subseteq live /\ live \subseteq Slots
  BY ProgramReaches DEF IInv, TypeOK
<1>2. \A r \in Roots : ref'[r] \in Reachable \union new \union {NULL}
  BY ProgramReaches
<1>3. \A s \in Reachable \union new, f \in Fields :
        ref'[<<s, f>>] \in Reachable \union new \union {NULL}
  BY <1>1, ProgramReaches
<1> QED BY <1>2, <1>3, ComputeStep

\* prefix_list.
LEMMA PrefixListComputes ==
  ASSUME IInv, NEW cons \in Roots, NEW list \in Roots, NEW into \in Roots,
         prefix_list(cons, list, into)
  PROVE  Heap!Compute
<1>1. PICK new \in Slots \ live :
        /\ live' = live \union {new}
        /\ ref' = [[ref EXCEPT ![<<new, "car">>] = ref[cons], ![<<new, "cdr">>] = ref[list],
                               ![cons] = NULL, ![list] = NULL]
                    EXCEPT ![into] = new]
  BY DEF prefix_list
<1> DEFINE car == <<new, "car">>
           cdr == <<new, "cdr">>
<1>2. /\ ref \in [Locations -> Slots \union {NULL}] /\ car # cdr
      /\ car \in Locations /\ cdr \in Locations /\ Roots \subseteq Locations
      /\ car \notin Roots /\ cdr \notin Roots
      /\ \A s \in Slots \ {new}, f \in Fields :
           <<s, f>> \in Locations \ (Roots \union {car, cdr})
      /\ \A f \in Fields : <<new, f>> \in {car, cdr}
  BY LocationKinds DEF IInv, TypeOK, Fields
<1>3. ref' = [[ref EXCEPT ![car] = ref[cons], ![cdr] = ref[list],
                          ![cons] = NULL, ![list] = NULL] EXCEPT ![into] = new]
  BY <1>1
<1> HIDE DEF car, cdr
<1>4. /\ ref'[car] = ref[cons] /\ ref'[cdr] = ref[list]
      /\ \A r \in Roots : ref'[r] \in {ref[r], NULL, new}
      /\ \A l \in Locations \ (Roots \union {car, cdr}) : ref'[l] = ref[l]
  BY ONLY <1>2, <1>3
<1>5. \A f \in Fields : ref'[<<new, f>>] \in Reachable \union {NULL}
  BY <1>2, <1>4, ProgramReaches
<1>6. \A s \in Slots \ {new}, f \in Fields : ref'[<<s, f>>] = ref[<<s, f>>]
  BY <1>2, <1>4
<1>7. /\ {new} \in SUBSET (Slots \ live)
      /\ \A r \in Roots : ref'[r] \in {ref[r], NULL} \union {new}
      /\ \A s \in {new}, f \in Fields : ref'[<<s, f>>] \in Reachable \union {new} \union {NULL}
  BY <1>1, <1>4, <1>5
<1> QED BY ONLY IInv, <1>1, <1>6, <1>7, AllocationComputes

\* list_cons.
LEMMA ListConsComputes ==
  ASSUME IInv, NEW cons \in Roots, NEW list \in Roots, NEW into \in Roots,
         list_cons(cons, list, into)
  PROVE  Heap!Compute
<1>1. PICK new \in Slots \ live :
        /\ live' = live \union {new}
        /\ ref' = [ref EXCEPT ![<<new, "car">>] = ref[cons], ![<<new, "cdr">>] = ref[list],
                              ![into] = new]
  BY DEF list_cons
<1> DEFINE car == <<new, "car">>
           cdr == <<new, "cdr">>
<1>2. /\ ref \in [Locations -> Slots \union {NULL}] /\ car # cdr
      /\ car \in Locations /\ cdr \in Locations /\ Roots \subseteq Locations
      /\ car \notin Roots /\ cdr \notin Roots
      /\ \A s \in Slots \ {new}, f \in Fields :
           <<s, f>> \in Locations \ (Roots \union {car, cdr})
      /\ \A f \in Fields : <<new, f>> \in {car, cdr}
  BY LocationKinds DEF IInv, TypeOK, Fields
<1>3. ref' = [ref EXCEPT ![car] = ref[cons], ![cdr] = ref[list], ![into] = new]
  BY <1>1
<1> HIDE DEF car, cdr
<1>4. /\ ref'[car] = ref[cons] /\ ref'[cdr] = ref[list]
      /\ \A r \in Roots : ref'[r] \in {ref[r], new}
      /\ \A l \in Locations \ (Roots \union {car, cdr}) : ref'[l] = ref[l]
  BY ONLY <1>2, <1>3
<1>5. \A f \in Fields : ref'[<<new, f>>] \in Reachable \union {NULL}
  BY <1>2, <1>4, ProgramReaches
<1>6. \A s \in Slots \ {new}, f \in Fields : ref'[<<s, f>>] = ref[<<s, f>>]
  BY <1>2, <1>4
<1>7. /\ {new} \in SUBSET (Slots \ live)
      /\ \A r \in Roots : ref'[r] \in {ref[r], NULL} \union {new}
      /\ \A s \in {new}, f \in Fields : ref'[<<s, f>>] \in Reachable \union {new} \union {NULL}
  BY <1>1, <1>4, <1>5
<1> QED BY ONLY IInv, <1>1, <1>6, <1>7, AllocationComputes

\* alist_put of a new key.
LEMMA AlistPutNewComputes ==
  ASSUME IInv, NEW alist \in Roots, NEW key \in Roots, NEW value \in Roots,
         alist_put_new(alist, key, value)
  PROVE  Heap!Compute
<1>1. PICK head \in Slots \ live, pair \in Slots \ live :
        /\ head # pair
        /\ live' = live \union {head, pair}
        /\ ref' = [ref EXCEPT ![<<head, "car">>] = pair, ![<<head, "cdr">>] = ref[alist],
                              ![<<pair, "car">>] = ref[key],
                              ![<<pair, "cdr">>] = ref[value], ![alist] = head]
  BY DEF alist_put_new
<1> DEFINE hcar == <<head, "car">>
           hcdr == <<head, "cdr">>
           pcar == <<pair, "car">>
           pcdr == <<pair, "cdr">>
           fields == {hcar, hcdr, pcar, pcdr}
<1>2. /\ ref \in [Locations -> Slots \union {NULL}]
      /\ fields \subseteq Locations /\ Roots \subseteq Locations /\ alist \notin fields
      /\ hcar # hcdr /\ hcar # pcar /\ hcar # pcdr /\ hcdr # pcar /\ hcdr # pcdr
      /\ pcar # pcdr
  BY <1>1, LocationKinds DEF IInv, TypeOK, Fields
<1>3. /\ \A s \in Slots \ {head, pair}, f \in Fields :
           <<s, f>> \in Locations \ (Roots \union fields)
      /\ \A s \in {head, pair}, f \in Fields : <<s, f>> \in fields
      /\ Roots \intersect fields = {}
  BY LocationKinds DEF Fields
<1>4. ref' = [ref EXCEPT ![hcar] = pair, ![hcdr] = ref[alist],
                         ![pcar] = ref[key], ![pcdr] = ref[value], ![alist] = head]
  BY <1>1
<1> HIDE DEF hcar, hcdr, pcar, pcdr
<1>5. /\ ref'[hcar] = pair /\ ref'[hcdr] = ref[alist]
      /\ ref'[pcar] = ref[key] /\ ref'[pcdr] = ref[value] /\ ref'[alist] = head
      /\ \A l \in Locations \ (fields \union {alist}) : ref'[l] = ref[l]
  BY ONLY <1>2, <1>4
<1>6. \A r \in Roots : ref'[r] \in {ref[r], head}
  BY <1>2, <1>3, <1>5
<1>7. \A s \in {head, pair}, f \in Fields :
        ref'[<<s, f>>] \in Reachable \union {head, pair} \union {NULL}
  <2>1. /\ ref'[hcar] = pair /\ ref'[hcdr] \in Reachable \union {NULL}
        /\ ref'[pcar] \in Reachable \union {NULL} /\ ref'[pcdr] \in Reachable \union {NULL}
    BY <1>5, ProgramReaches
  <2>2. \A l \in fields : ref'[l] \in Reachable \union {head, pair} \union {NULL}
    BY <2>1
  <2> HIDE DEF fields
  <2> QED BY ONLY <1>3, <2>2
<1>8. \A s \in Slots \ {head, pair}, f \in Fields : ref'[<<s, f>>] = ref[<<s, f>>]
  <2>1. \A s \in Slots \ {head, pair}, f \in Fields :
          <<s, f>> \in Locations \ (fields \union {alist})
    BY <1>3
  <2> HIDE DEF fields
  <2> QED BY ONLY <1>5, <2>1
<1>9. /\ {head, pair} \in SUBSET (Slots \ live)
      /\ \A r \in Roots : ref'[r] \in {ref[r], NULL} \union {head, pair}
  BY <1>1, <1>6
<1> QED BY ONLY IInv, <1>1, <1>7, <1>8, <1>9, AllocationComputes

\* alist_put of a key that is there changes a pair the program can get to, since it can
\* get to the list.
LEMMA AlistPutFoundComputes ==
  ASSUME IInv, NEW alist \in Roots, NEW key \in Roots, NEW value \in Roots,
         alist_put_found(alist, key, value)
  PROVE  Heap!Compute
<1>1. PICK node \in ReachableFrom({ref[alist]} \ {NULL}), pair \in live :
        /\ pair = ref[<<node, "car">>]
        /\ ref' = [ref EXCEPT ![<<pair, "cdr">>] = ref[value]]
  BY DEF alist_put_found
<1>2. live' = live
  BY DEF alist_put_found
<1>3. node \in Reachable
  <2>1. {ref[alist]} \ {NULL} \subseteq Reachable
    BY ProgramReaches
  <2> QED BY <1>1, <2>1, ReachableOnwards DEF Reachable
<1>4. pair \in Reachable /\ pair \in Slots
  BY <1>1, <1>3, ProgramReaches, NullAssumption DEF IInv, TypeOK, Fields
<1> DEFINE cdr == <<pair, "cdr">>
<1>5. /\ ref \in [Locations -> Slots \union {NULL}] /\ cdr \in Locations
      /\ \A r \in Roots : r \in Locations \ {cdr}
      /\ \A s \in Slots, f \in Fields : <<s, f>> \in Locations
      /\ \A s \in Slots \ {pair}, f \in Fields : <<s, f>> # cdr
      /\ Reachable \subseteq Slots
  BY <1>4, LocationKinds, ProgramReaches DEF IInv, TypeOK, Fields
<1>6. ref' = [ref EXCEPT ![cdr] = ref[value]]
  BY <1>1
<1> HIDE DEF cdr
<1>7. ref'[cdr] = ref[value] /\ \A l \in Locations \ {cdr} : ref'[l] = ref[l]
  BY ONLY <1>5, <1>6
<1>8. \A r \in Roots : ref'[r] \in Reachable \union {NULL}
  BY <1>5, <1>7, ProgramReaches
<1>9. \A s \in Reachable, f \in Fields : ref'[<<s, f>>] \in Reachable \union {NULL}
  BY <1>5, <1>7, ProgramReaches
<1>10. \A s \in Slots \ Reachable, f \in Fields : ref'[<<s, f>>] = ref[<<s, f>>]
  BY <1>4, <1>5, <1>7
<1> QED BY <1>2, <1>8, <1>9, <1>10, ComputeInPlace

\* A destructor works on slots the program cannot get to.
LEMMA ReleaseCollects ==
  ASSUME IInv, Release
  PROVE  Heap!Collect
<1>1. Reachable \subseteq live \ Dying /\ live \subseteq Slots
      /\ ref \in [Locations -> Slots \union {NULL}]
  BY ProgramReaches DEF IInv, TypeOK
<1>2. ASSUME NEW field \in Fields, destroy_field(field) PROVE Heap!Collect
  <2>1. /\ AtTop(field) /\ live' = live
        /\ ref' = [ref EXCEPT ![<<Top.slot, field>>] = NULL]
    BY <1>2 DEF destroy_field
  <2>2. Top.slot \in Dying /\ Top.slot \in Slots
    BY <2>1, TopFrame
  <2>3. /\ \A r \in Roots : r \in Locations /\ r # <<Top.slot, field>>
        /\ \A s \in Reachable, f \in Fields :
             <<s, f>> \in Locations /\ <<s, f>> # <<Top.slot, field>>
    BY <1>1, <2>2, LocationKinds
  <2>4. /\ \A r \in Roots : ref'[r] = ref[r]
        /\ \A s \in Reachable, f \in Fields : ref'[<<s, f>>] = ref[<<s, f>>]
    BY <1>1, <2>1, <2>3
  <2> QED BY <1>1, <2>1, <2>4, SameReachable DEF Heap!Collect
<1>3. CASE free_rc_slot
  <2>1. AtTop("free") /\ live' = live \ {Top.slot} /\ ref' = ref
    BY <1>3 DEF free_rc_slot
  <2>2. Top.slot \in Dying
    BY <2>1, TopFrame
  <2> QED BY <1>1, <2>1, <2>2, SameReachable DEF Heap!Collect
<1> QED BY <1>2, <1>3 DEF Release

\* The program computes as if nothing were ever freed, for any number of slots and of
\* variables.
THEOREM Refinement == Spec => ImplementsGcHeap
<1>1. Init => Heap!Init
  BY LocationKinds DEF Init, Heap!Init
<1>2. ASSUME IInv, Next PROVE Heap!Next
  <2>1. CASE Release
    BY <1>2, <2>1, ReleaseCollects DEF Heap!Next
  <2>2. ASSUME NEW from \in Roots, NEW into \in Roots, retain(from, into)
        PROVE  Heap!Compute
    BY <1>2, <2>2, ProgramReaches, VariableComputes DEF retain
  <2>3. ASSUME NEW root \in Roots, release(root) PROVE Heap!Compute
    BY <1>2, <2>3, VariableComputes DEF release
  <2>4. ASSUME NEW list \in Roots, NEW field \in Fields, NEW into \in Roots,
               list_field(list, field, into)
        PROVE  Heap!Compute
    <3>1. ref[list] \in Reachable
      BY <1>2, <2>4, ProgramReaches DEF list_field
    <3>2. ref[<<ref[list], field>>] \in Reachable \union {NULL}
      BY <1>2, <3>1, ProgramReaches
    <3> QED BY <1>2, <2>4, <3>2, VariableComputes DEF list_field
  <2>5. ASSUME NEW cons \in Roots, NEW list \in Roots, NEW into \in Roots,
               prefix_list(cons, list, into) \/ list_cons(cons, list, into)
        PROVE  Heap!Compute
    BY <1>2, <2>5, PrefixListComputes, ListConsComputes
  <2>6. ASSUME NEW alist \in Roots, NEW key \in Roots, NEW value \in Roots,
               alist_put_found(alist, key, value) \/ alist_put_new(alist, key, value)
        PROVE  Heap!Compute
    BY <1>2, <2>6, AlistPutFoundComputes, AlistPutNewComputes
  <2> QED BY <1>2, <2>1, <2>2, <2>3, <2>4, <2>5, <2>6
          DEF Next, Program, list_first, list_rest, Fields, Heap!Next
<1>3. UNCHANGED vars => UNCHANGED Heap!vars
  BY DEF vars, Heap!vars
<1>4. IInv /\ [Next]_vars => [Heap!Next]_(Heap!vars)
  BY <1>2, <1>3
<1> QED BY <1>1, <1>4, Invariant, PTL DEF Spec, ImplementsGcHeap, Heap!Spec
=============================================================================
