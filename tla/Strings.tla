------------------------------- MODULE Strings ------------------------------
(***************************************************************************)
(* replace of src/lib_src/string: every occurrence of the keys of a        *)
(* dictionary in a string is replaced by the key's value.  The occurrences *)
(* of all the keys are collected in one list; a first pass over it counts  *)
(* the bytes of the answer, a second one writes them to a buffer of this   *)
(* size.  A string is a sequence of characters, the dictionary a sequence  *)
(* of keys and values in the order of its tree; no key is empty.           *)
(***************************************************************************)
EXTENDS Integers, Sequences, SequencesExt

Occurs(k, s, p) == p + Len(k) <= Len(s) /\ SubSeq(s, p + 1, p + Len(k)) = k

(* The loop over mln_string_strstr, which goes on behind what it found     *)
Found(s, e) ==
  LET step(acc, p) ==
        IF p >= acc.end /\ Occurs(e.key, s, p)
        THEN [end |-> p + Len(e.key),
              list |-> Append(acc.list, [off |-> p, elem |-> e])]
        ELSE acc
  IN FoldLeft(step, [end |-> 0, list |-> <<>>],
              [n \in 1 .. Len(s) |-> n - 1]).list

(* Defective: the new position goes to the end of the list.                *)
AtTheEnd(list, pos) == Append(list, pos)

(* The new position goes before the first that is not before it.           *)
Inserted(list, pos) ==
  LET n == Cardinality({i \in DOMAIN list : list[i].off < pos.off})
  IN InsertAt(list, n + 1, pos)

(* mln_replace_do_iterate_handler for each element of the dictionary       *)
Positions(s, dict) ==
  FoldLeft(LAMBDA list, e : FoldLeft(Inserted, list, Found(s, e)),
           <<>>, dict)

(* Behind the occurrence                                                   *)
Behind(pos) == pos.off + Len(pos.elem.key)

Gap(off, end) == IF off < end THEN end - off ELSE 0

(* The first loop of mln_replace_do                                        *)
Size(s, list) ==
  LET step(acc, pos) ==
        [size |-> acc.size + Gap(acc.off, pos.off) + Len(pos.elem.value),
         off  |-> Behind(pos)]
      last == FoldLeft(step, [size |-> 0, off |-> 0], list)
  IN last.size + Gap(last.off, Len(s))

(* Its second loop                                                         *)
Text(s, list) ==
  LET copied(off, end) == SubSeq(s, off + 1, end)
      step(acc, pos) ==
        [text |-> acc.text \o copied(acc.off, pos.off) \o pos.elem.value,
         off  |-> Behind(pos)]
      last == FoldLeft(step, [text |-> <<>>, off |-> 0], list)
  IN last.text \o copied(last.off, Len(s))

Replace(s, dict) == Text(s, Positions(s, dict))

-----------------------------------------------------------------------------
(* No two occurrences overlap.                                             *)
Disjoint(list) ==
  \A i, j \in DOMAIN list : i < j => Behind(list[i]) <= list[j].off

(* The string read from left to right, each key replaced where it begins   *)
Replaced(s, dict) ==
  LET from[p \in 0 .. Len(s)] ==
        IF p = Len(s) THEN <<>>
        ELSE IF \E n \in DOMAIN dict : Occurs(dict[n].key, s, p)
        THEN LET e == dict[CHOOSE n \in DOMAIN dict :
                             Occurs(dict[n].key, s, p)]
             IN e.value \o from[p + Len(e.key)]
        ELSE <<s[p + 1]>> \o from[p + 1]
  IN from[0]

(* The second pass writes exactly the bytes that the first has counted,    *)
(* even when occurrences overlap, and the answer is the string read from   *)
(* left to right with each key replaced when they do not.                  *)
FitsAndReplaces(s, dict, text) ==
  LET list == Positions(s, dict)
  IN /\ Len(text) = Size(s, list)
     /\ \A i, j \in DOMAIN list : i < j => list[i].off <= list[j].off
     /\ Disjoint(list) => text = Replaced(s, dict)

=============================================================================
