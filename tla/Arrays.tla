------------------------------- MODULE Arrays -------------------------------
(***************************************************************************)
(* The arrays of Melang scripts, and the functions of src/lib_src/sys that *)
(* make one array of others.  An array is a function from the indexes in   *)
(* use to elements; an element may have a key besides its index.  There    *)
(* are two trees: elems_index holds every element, elems_key those with a  *)
(* key.  Values and keys are pairs of a type and its data.                 *)
(***************************************************************************)
EXTENDS Integers, Sequences, SequencesExt, FiniteSetsExt

CONSTANT NoKey   \* the key of an element that has none

EmptyArray == <<>>

Elem(k, v) == [key |-> k, value |-> v]

(* Elements with a key, and their keys: elems_key                          *)
Keyed(a) == {i \in DOMAIN a : a[i].key # NoKey}
KeysOf(a) == {a[i].key : i \in Keyed(a)}

(* Indexes in the order of mln_rbtree_iterate over elems_index: before the *)
(* n-th of them are n - 1 others.                                          *)
InOrder(S) ==
  [n \in 1 .. Cardinality(S) |->
     CHOOSE x \in S : Cardinality({y \in S : y < x}) = n - 1]

(* mln_lang_array_get and mln_lang_var_value_set: the element with this    *)
(* key, or a new one behind the last, gets the value.                      *)
NextIndex(a) == IF DOMAIN a = {} THEN 0 ELSE Max(DOMAIN a) + 1

Place(a, k) ==
  IF k \in KeysOf(a) THEN CHOOSE i \in Keyed(a) : a[i].key = k
                     ELSE NextIndex(a)

Put(a, k, v) ==
  [i \in DOMAIN a \cup {Place(a, k)} |->
     IF i = Place(a, k) THEN Elem(k, v) ELSE a[i]]

-----------------------------------------------------------------------------
(* mln_lang_sys_keys_iterate_handler, in some order of the keys            *)
Keys(a) ==
  FoldLeft(LAMBDA arr, k : Put(arr, NoKey, k), EmptyArray,
           SetToSeq(KeysOf(a)))

(* A defective merge, which gives every element a place of its own.        *)
AddElem(to, e) == [i \in DOMAIN to \cup {NextIndex(to)} |->
                     IF i \in DOMAIN to THEN to[i] ELSE e]

(* mln_lang_sys_merge_iterate_handler                                      *)
MergeElem(to, e) == Put(to, e.key, e.value)

(* The iteration over the elements of a with the indexes in S              *)
MergeEach(to, a, S) ==
  FoldLeft(LAMBDA arr, i : MergeElem(arr, a[i]), to, InOrder(S))

MergeInto(to, a) == MergeEach(to, a, DOMAIN a)

Merge(a, b) == MergeInto(MergeInto(EmptyArray, a), b)

(* mln_lang_sys_diff_iterate_handler: with key, the elements of elems_key  *)
(* whose key the other array has not; else those whose value it has not.   *)
(* (The order of elems_key only shows in the indexes of the answer.)       *)
NotIn(a, i, b, key) ==
  IF key THEN a[i].key \notin KeysOf(b)
         ELSE \A j \in DOMAIN b : b[j].value # a[i].value

Visited(a, key) == IF key THEN Keyed(a) ELSE DOMAIN a

DiffOf(a, b, key) ==
  MergeEach(EmptyArray, a, {i \in Visited(a, key) : NotIn(a, i, b, key)})

Diff(a, b) == DiffOf(a, b, FALSE)
KeyDiff(a, b) == DiffOf(a, b, TRUE)

-----------------------------------------------------------------------------
(* What a script sees of an array: the value under each key, and the       *)
(* values without a key in the order of their indexes.                     *)
Entries(a) == {<<a[i].key, a[i].value>> : i \in Keyed(a)}

Plain(a) ==
  LET rest == InOrder(DOMAIN a \ Keyed(a))
  IN [n \in DOMAIN rest |-> a[rest[n]].value]

(* A merge has every key of either array once, under which the second has  *)
(* its say, and loses no other value; the difference of keys is what the   *)
(* merge needs besides the second array, and no value of the second array  *)
(* is in the difference of values, whose entries are entries of the first. *)
MergeAndDiffAgree(a, b, merged) ==
  /\ LET own == {e \in Entries(a) : e[1] \notin KeysOf(b)}
     IN /\ Entries(merged) = own \cup Entries(b)
        /\ Plain(merged) = Plain(a) \o Plain(b)
        /\ Entries(KeyDiff(a, b)) = own
        /\ Entries(Merge(KeyDiff(a, b), b)) = Entries(merged)
  /\ LET d == Diff(a, b)
     IN /\ Entries(d) \subseteq Entries(a)
        /\ Diff(d, b) = d
        /\ \A i \in DOMAIN a :
             \/ \E j \in DOMAIN b : b[j].value = a[i].value
             \/ \E j \in DOMAIN d : d[j].value = a[i].value
  /\ {Keys(a)[i].value : i \in DOMAIN Keys(a)} = KeysOf(a)
  /\ Cardinality(DOMAIN Keys(a)) = Cardinality(Keyed(a))

=============================================================================
