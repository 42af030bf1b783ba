----------------------------- MODULE Libraries ------------------------------
(***************************************************************************)
(* The libraries that compute with the data of a script: each call goes    *)
(* from its arguments to its answer at once.  Arrays, Json, Strings and    *)
(* Matrix define the answers, this module makes the calls.                 *)
(***************************************************************************)
EXTENDS Json, Strings, Matrix

CONSTANTS
  Chars,      \* characters of strings
  Names,      \* strings that are keys of arrays and names of objects
  ValueLevels,     \* values by how deep arrays nest in them: the last set
                   \* has the values of the elements of arrays to encode
  DocumentLevels,  \* documents by how deep they nest: the last set has the
                   \* documents given to json.decode
  Small,      \* values of the elements of arrays to merge
  KeyValues,  \* keys of the elements of arrays
  MaxElems,   \* bound on the elements of an array
  Texts,      \* strings given to str.replace
  Dicts       \* dictionaries given to it

(* Strings are made of these characters; no key of a dictionary is empty,  *)
(* and an array to merge has a bounded number of elements.                 *)
ASSUME LibrariesAssumption ==
  /\ Texts \subseteq Seq(Chars)
  /\ Dicts \subseteq Seq([key : Seq(Chars) \ {<<>>}, value : Seq(Chars)])
  /\ MaxElems \in Nat
  /\ NoKey \notin KeyValues

Values == ValueLevels[Len(ValueLevels)]
Documents == DocumentLevels[Len(DocumentLevels)]

VARIABLES
  call,    \* the function called
  args,    \* its arguments
  answer   \* its answer, <<>> before it is made

vars == <<call, args, answer>>

(* Arrays as a script can build them: no two elements have the same key    *)
Elems(V) == {Elem(k, v) : k \in KeyValues \cup {NoKey}, v \in V}
ScriptArrays(V, n) ==
  UNION {{a \in [D -> Elems(V)] :
            \A i, j \in Keyed(a) : i # j => a[i].key # a[j].key} :
         D \in SUBSET (0 .. n - 1)}

(* Keys are strings or something else, but never NoKey.                    *)
ASSUME KeysAssumption ==
  /\ NoKey \notin {"str"} \X Names
  /\ \A k \in KeyValues : k[1] = "str" => k \in {"str"} \X Names

(* A level has scalars, and arrays or documents made of the level below.   *)
ASSUME NestingAssumption ==
  /\ ValueLevels # <<>> /\ ValueLevels \in Seq(Range(ValueLevels))
  /\ DocumentLevels # <<>> /\ DocumentLevels \in Seq(Range(DocumentLevels))
  /\ \A n \in DOMAIN ValueLevels : \A v \in ValueLevels[n] :
       \/ ScalarValue(v)
       \/ /\ n > 1
          /\ v \in {"array"} \X ScriptArrays(ValueLevels[n - 1], MaxElems)
  /\ \A n \in DOMAIN DocumentLevels : \A d \in DocumentLevels[n] :
       \/ ScalarDocument(d)
       \/ n > 1 /\ MadeOf(d, Names, DocumentLevels[n - 1])

InnerArrays ==
  {v[2] : v \in {w \in UNION {ValueLevels[n] : n \in DOMAIN ValueLevels} :
                  w[1] = "array"}}
InnerDocuments == UNION {DocumentLevels[n] : n \in DOMAIN DocumentLevels}

(* The operators of Json and what stands for them inside agree on          *)
(* everything inside.                                                      *)
ASSUME InsideAssumption ==
  /\ \A a \in InnerArrays :
       /\ EncodeInside(a) = Encode(a)
       /\ SayableInside(a) <=> SayableArray(a)
       /\ LET d == Encode(a)
          IN d # Fail =>
               /\ DecodeInside(d) = Decode(d)
               /\ SameInside(Decode(d), a) <=> SameArray(Decode(d), a)
  /\ \A d \in InnerDocuments :
       /\ DecodeInside(d) = Decode(d)
       /\ EncodeInside(Decode(d)) = Encode(Decode(d))
       /\ SettledInside(d) = Settled(d)

Asks(f, A) == call = f /\ args \in A

Init ==
  /\ answer = <<>>
  /\ \/ Asks("encode", {<<a>> : a \in ScriptArrays(Values, 2)})
     \/ Asks("decode", {<<d>> : d \in Documents})
     \/ Asks("merge", ScriptArrays(Small, MaxElems)
                        \X ScriptArrays(Small, MaxElems))
     \/ Asks("replace", Texts \X Dicts)
     \/ Asks("matrix", Signed \X Signed \X (0 .. MaxSize))

Makes(f, x) ==
  /\ call = f
  /\ answer = <<>>
  /\ answer' = <<x>>
  /\ UNCHANGED <<call, args>>

Encodes  == call = "encode" /\ Makes("encode", Encode(args[1]))
Decodes  == call = "decode" /\ Makes("decode", Decode(args[1]))
Merges   == call = "merge" /\ Makes("merge", Merge(args[1], args[2]))
Replaces == call = "replace" /\ Makes("replace", Replace(args[1], args[2]))
Builds   == call = "matrix"
            /\ Makes("matrix", Accepts(args[1], args[2], args[3]))

Next == Encodes \/ Decodes \/ Merges \/ Replaces \/ Builds

Spec == Init /\ [][Next]_vars

-----------------------------------------------------------------------------
Answered(f) == call = f /\ answer # <<>>

(* encode and decode are inverse as far as JSON goes: a decoded document   *)
(* encodes to itself, an encoded array decodes to itself unless it has     *)
(* what JSON cannot say, and what cannot be told apart from something else *)
(* is refused (mln_lang_json_encode_generate, mln_lang_json_decode_process)*)
JsonRoundTrip ==
  /\ Answered("encode") => ArrayReturns(args[1], answer[1])
  /\ Answered("decode") => DocumentReturns(args[1], answer[1])

(* What a script sees of a merge and of the two differences is what the    *)
(* sets of their entries say, whatever holes the indexes have and however  *)
(* the keys collide (mln_lang_sys_merge_process, mln_lang_sys_diff_process *)
(* and mln_lang_sys_key_diff_process).                                     *)
MergeDiffAgree ==
  Answered("merge") => MergeAndDiffAgree(args[1], args[2], answer[1])

(* The second pass of replace writes exactly the bytes that the first has  *)
(* counted, even when occurrences overlap, and the answer is the string    *)
(* read from left to right with each key replaced when they do not         *)
(* (mln_replace_do).                                                       *)
ReplaceFits ==
  Answered("replace") => FitsAndReplaces(args[1], args[2], answer[1])

(* A matrix that is accepted has as many numbers as its sizes say, and     *)
(* they fit into the memory allocated, whatever the sizes of the script    *)
(* wrap to (mln_lang_array2matrix).                                        *)
BuiltMatrixFits ==
  Answered("matrix") =>
    (answer[1] => MatrixFits(args[1], args[2], args[3]))

=============================================================================
