------------------------------ MODULE RefHeap -------------------------------
(***************************************************************************)
(* The reference-counted heap of refcount.c, seen through its users: the   *)
(* cells of cell.c and the lists and association lists of list.c.  Lambdas *)
(* (params, body), environments (kv, parent_env) and cells all have two    *)
(* counted fields that their destructor releases in order, so a cell       *)
(* stands for any of them.                                                 *)
(*                                                                         *)
(* A counted reference is somewhere: in a local variable of the program (a *)
(* root), or in a field of an allocated slot.  The program has one thread, *)
(* so an operation of the program is one step, with one exception: release *)
(* destroys what it frees by releasing its fields, and the variable        *)
(* destroying is the C stack of those nested calls.                        *)
(***************************************************************************)
EXTENDS Integers, Sequences, FiniteSets

CONSTANTS
  Slots,   \* the slots of the pools
  Roots,   \* the local variables of the program that hold counted references
  NULL

ASSUME FiniteAssumption == IsFiniteSet(Slots) /\ IsFiniteSet(Roots)
ASSUME NullAssumption == NULL \notin Slots
ASSUME RootsAssumption == Roots \intersect (Slots \X {"car", "cdr"}) = {}

Fields == {"car", "cdr"}
Locations == Roots \union (Slots \X Fields)

VARIABLES
  ref,         \* the counted reference at each location, or NULL
  ref_count,   \* Slot.ref_count
  live,        \* the slots allocated: the others are zeroed, in their pool
  destroying   \* the destructors in progress, innermost last

vars == <<ref, ref_count, live, destroying>>

Frame(slot, at) == [slot |-> slot, at |-> at]
Idle == destroying = <<>>
Top == destroying[Len(destroying)]
AtTop(label) == ~Idle /\ Top.at = label

Init ==
  /\ ref = [l \in Locations |-> NULL]
  /\ ref_count = [s \in Slots |-> 0]
  /\ live = {}
  /\ destroying = <<>>

----------------------------------------------------------------------------
(***************************************************************************)
(* retain and release, on the counts and on the stack.  release of a slot  *)
(* whose count becomes 0 enters its destructor.                            *)
(***************************************************************************)
Retained(counts, s) == IF s = NULL THEN counts ELSE [counts EXCEPT ![s] = @ + 1]
Released(counts, s) == IF s = NULL THEN counts ELSE [counts EXCEPT ![s] = @ - 1]

\* Mutant of Entered: what is released is destroyed whoever else refers to it.
EnteredAlways(counts, s, stack) ==
  IF s # NULL THEN Append(stack, Frame(s, "car")) ELSE stack

Entered(counts, s, stack) ==
  IF s # NULL /\ counts[s] = 1 THEN Append(stack, Frame(s, "car")) ELSE stack

\* x = retain(y), for two local variables.
retain(from, into) ==
  /\ Idle
  /\ ref[into] = NULL
  /\ ref' = [ref EXCEPT ![into] = ref[from]]
  /\ ref_count' = Retained(ref_count, ref[from])
  /\ UNCHANGED <<live, destroying>>

\* release(x), and the clean_up of a scoped variable: x is not used again.
release(root) ==
  /\ Idle
  /\ ref[root] # NULL
  /\ ref' = [ref EXCEPT ![root] = NULL]
  /\ ref_count' = Released(ref_count, ref[root])
  /\ destroying' = Entered(ref_count, ref[root], destroying)
  /\ UNCHANGED live

\* Mutant of destroy_field: the destructor forgets cdr.
destroy_field_car_only(field) ==
  /\ AtTop(field)
  /\ LET inner == [destroying EXCEPT ![Len(destroying)].at = "free"]
         child == ref[<<Top.slot, field>>]
     IN  /\ ref_count' = Released(ref_count, child)
         /\ destroying' = Entered(ref_count, child, inner)
         /\ ref' = [ref EXCEPT ![<<Top.slot, field>>] = NULL]
  /\ UNCHANGED live

\* destroy_cell releases car, then cdr.  The field is left as it is, but the
\* reference in it is no longer a counted one, and nobody reads it before the slot
\* is zeroed.
destroy_field(field) ==
  /\ AtTop(field)
  /\ LET next == IF field = "car" THEN "cdr" ELSE "free"
         inner == [destroying EXCEPT ![Len(destroying)].at = next]
         child == ref[<<Top.slot, field>>]
     IN  /\ ref_count' = Released(ref_count, child)
         /\ destroying' = Entered(ref_count, child, inner)
         /\ ref' = [ref EXCEPT ![<<Top.slot, field>>] = NULL]
  /\ UNCHANGED live

\* The destructor returned: the slot is zeroed and back in its pool.
free_rc_slot ==
  /\ AtTop("free")
  /\ live' = live \ {Top.slot}
  /\ ref_count' = [ref_count EXCEPT ![Top.slot] = 0]
  /\ destroying' = SubSeq(destroying, 1, Len(destroying) - 1)
  /\ UNCHANGED ref

----------------------------------------------------------------------------
(***************************************************************************)
(* list.c.  A local variable that receives a result holds nothing before.  *)
(***************************************************************************)
\* prefix_list(cons, list): the new cell takes over the references of the caller.
\* With both NULL it is make_cell.
prefix_list(cons, list, into) ==
  /\ Idle
  /\ cons # list
  /\ ref[into] = NULL \/ into \in {cons, list}
  /\ \E new \in Slots \ live :
       /\ live' = live \union {new}
       /\ ref_count' = [ref_count EXCEPT ![new] = 1]
       /\ ref' = [[ref EXCEPT ![<<new, "car">>] = ref[cons], ![<<new, "cdr">>] = ref[list],
                              ![cons] = NULL, ![list] = NULL]
                   EXCEPT ![into] = new]
  /\ UNCHANGED destroying

\* Mutant of list_cons: the list is not retained.
list_cons_unretained(cons, list, into) ==
  /\ Idle
  /\ ref[into] = NULL
  /\ \E new \in Slots \ live :
       /\ live' = live \union {new}
       /\ ref_count' = Retained([ref_count EXCEPT ![new] = 1], ref[cons])
       /\ ref' = [ref EXCEPT ![<<new, "car">>] = ref[cons], ![<<new, "cdr">>] = ref[list],
                             ![into] = new]
  /\ UNCHANGED destroying

\* list_cons(cons, list): the new cell shares them with the caller.
list_cons(cons, list, into) ==
  /\ Idle
  /\ ref[into] = NULL
  /\ \E new \in Slots \ live :
       /\ live' = live \union {new}
       /\ ref_count' =
            Retained(Retained([ref_count EXCEPT ![new] = 1], ref[cons]), ref[list])
       /\ ref' = [ref EXCEPT ![<<new, "car">>] = ref[cons], ![<<new, "cdr">>] = ref[list],
                             ![into] = new]
  /\ UNCHANGED destroying

\* list_first and list_rest: what a field refers to, retained.
list_field(list, field, into) ==
  /\ Idle
  /\ ref[list] # NULL
  /\ ref[into] = NULL
  /\ LET value == ref[<<ref[list], field>>]
     IN  /\ ref' = [ref EXCEPT ![into] = value]
         /\ ref_count' = Retained(ref_count, value)
  /\ UNCHANGED <<live, destroying>>

list_first(list, into) == list_field(list, "car", into)
list_rest(list, into) == list_field(list, "cdr", into)

\* The slots one gets to from some slots by following fields.
Closed(set) ==
  \A s \in set, f \in Fields : ref[<<s, f>>] \in set \union {NULL}
ReachableFrom(start) ==
  {s \in live : \A set \in SUBSET live : start \subseteq set /\ Closed(set) => s \in set}

\* The cells of a list in order, then NULL.
Cells(head) ==
  LET cell[n \in Nat] ==
        IF n = 0 THEN head
        ELSE IF cell[n - 1] = NULL THEN NULL
        ELSE ref[<<cell[n - 1], "cdr">>]
  IN  [n \in 0 .. Cardinality(Slots) |-> cell[n]]

\* An association list ends, and each of its cells holds a pair.
IsAlist(head) ==
  LET cells == Cells(head)
  IN  /\ cells[Cardinality(Slots)] = NULL
      /\ \A n \in DOMAIN cells : cells[n] # NULL => ref[<<cells[n], "car">>] # NULL

\* alist_find: the first cell whose pair has the key, or NULL.
alist_find(head, key) ==
  LET cells == Cells(head)
      HasKey(n) == cells[n] # NULL /\ ref[<<ref[<<cells[n], "car">>], "car">>] = key
      found == {n \in DOMAIN cells : HasKey(n)}
  IN  IF found = {} THEN NULL
      ELSE cells[CHOOSE n \in found : \A m \in found : n <= m]

\* alist_put, the key is there: its pair is updated in place, and the old value is
\* released after the new one is retained (they may be the same).
alist_put_found(alist, key, value) ==
  /\ Idle
  /\ ref[key] # NULL
  /\ IsAlist(ref[alist])
  /\ \E node \in ReachableFrom({ref[alist]} \ {NULL})
                  \intersect {alist_find(ref[alist], ref[key])} :
     \E pair \in live \intersect {ref[<<node, "car">>]} :
       LET old == ref[<<pair, "cdr">>]
           counts == Retained(ref_count, ref[value])
       IN  /\ ref' = [ref EXCEPT ![<<pair, "cdr">>] = ref[value]]
           /\ ref_count' = Released(counts, old)
           /\ destroying' = Entered(counts, old, destroying)
  /\ UNCHANGED live

\* alist_put, the key is not there: alist_prepend with key and value retained.  The
\* caller stores the new head where it had the old one.
alist_put_new(alist, key, value) ==
  /\ Idle
  /\ ref[key] # NULL
  /\ IsAlist(ref[alist])
  /\ alist_find(ref[alist], ref[key]) = NULL
  /\ \E head, pair \in Slots \ live :
       /\ head # pair
       /\ live' = live \union {head, pair}
       /\ ref_count' =
            Retained(Retained([ref_count EXCEPT ![head] = 1, ![pair] = 1], ref[key]),
                     ref[value])
       /\ ref' = [ref EXCEPT ![<<head, "car">>] = pair, ![<<head, "cdr">>] = ref[alist],
                             ![<<pair, "car">>] = ref[key],
                             ![<<pair, "cdr">>] = ref[value], ![alist] = head]
  /\ UNCHANGED destroying

----------------------------------------------------------------------------
Release ==
  \/ \E field \in Fields : destroy_field(field)
  \/ free_rc_slot

Program ==
  \/ \E from, into \in Roots : retain(from, into)
  \/ \E root \in Roots : release(root)
  \/ \E cons, list, into \in Roots : prefix_list(cons, list, into)
  \/ \E cons, list, into \in Roots : list_cons(cons, list, into)
  \/ \E list, into \in Roots : list_first(list, into)
  \/ \E list, into \in Roots : list_rest(list, into)
  \/ \E alist, key, value \in Roots : alist_put_found(alist, key, value)
  \/ \E alist, key, value \in Roots : alist_put_new(alist, key, value)

Next == Release \/ Program

\* A release that started goes on; nothing makes the program do anything.
Spec == Init /\ [][Next]_vars /\ WF_vars(Release)

----------------------------------------------------------------------------
(***************************************************************************)
(* Properties.                                                             *)
(***************************************************************************)
References(s) == {l \in Locations : ref[l] = s}

\* The count of every slot is the number of references to it, whatever the program
\* did before: one too many leaks the slot, one too few frees it while it is used.
CountsExact ==
  \A s \in Slots : ref_count[s] = Cardinality(References(s))

\* No reference leads to a slot that is free or about to be.
Dying == {destroying[i].slot : i \in 1 .. Len(destroying)}
NoDangling ==
  \A l \in Locations : ref[l] # NULL => ref[l] \in live \ Dying

\* A slot is destroyed once: the recursion of release never meets a slot that is
\* being destroyed already, so it is never deeper than there are slots.
DestroyedOnce ==
  \A i, j \in 1 .. Len(destroying) : destroying[i].slot = destroying[j].slot => i = j

\* The program computes as if nothing were ever freed: a slot it can still get to is
\* neither freed nor changed by a release, and no reference it gets to leads elsewhere.
Heap == INSTANCE GcHeap
ImplementsGcHeap == Heap!Spec

Reachable == ReachableFrom({ref[r] : r \in Roots} \ {NULL})

\* What the program can no longer reach is freed, unless a cycle keeps it: between
\* two operations, every slot left over is one that a cycle of garbage leads to.
OnCycle(s) ==
  s \in ReachableFrom({ref[<<s, f>>] : f \in Fields} \ {NULL})
LeaksAreCycles ==
  LET garbage == live \ Reachable
      cycles == {c \in garbage : OnCycle(c)}
  IN  Idle => garbage \subseteq ReachableFrom(cycles)

\* What there is left to do if every live slot is destroyed: of each slot, the two
\* fields to release and the slot itself to free.
Remaining(at) == IF at = "car" THEN 1 .. 3 ELSE IF at = "cdr" THEN 1 .. 2 ELSE {1}
Work ==
  ((live \ Dying) \X (1 .. 3))
    \union UNION {{f.slot} \X Remaining(f.at) :
                    f \in {destroying[i] : i \in 1 .. Len(destroying)}}

\* Every call inside a release gets something done for good, so a release ends,
\* cycles or not, after at most three calls for each live slot.
ReleaseProgresses ==
  [][Release => Work' \subseteq Work /\ Work' # Work]_vars
=============================================================================
