-------------------------------- MODULE Json --------------------------------
(***************************************************************************)
(* src/lib_src/json: encode makes a JSON document of an array, decode an   *)
(* array of a document.  An array without keys becomes a JSON array, one   *)
(* of which every element has a key an object, any other is refused.       *)
(*                                                                         *)
(* A value of a script is <<"nil">>, <<"bool", b>>, <<"int", i>>,          *)
(* <<"real", h>> (h halves), <<"str", s>>, <<"func">> or <<"array", a>>; a *)
(* document is <<"null">>, <<"bool", b>>, <<"num", h>> (h halves),         *)
(* <<"str", s>>, <<"list", q>> or <<"object", f>>.  The text between the   *)
(* two is the business of Melon.                                           *)
(*                                                                         *)
(* Arrays and documents nest: Encode, Decode, Settled, SayableArray and    *)
(* SameArray come back to themselves for what is inside.  Those calls are  *)
(* the parameters below, and an instance gives each of them the operator   *)
(* it stands for.                                                          *)
(***************************************************************************)
EXTENDS Arrays

CONSTANTS
  Exact,              \* doubles represent the integers to this one (2^53)
  EncodeInside(_),    \* Encode, for an array inside an array
  DecodeInside(_),    \* Decode, for a list or an object inside another
  SettledInside(_),   \* Settled, for a document inside another
  SayableInside(_),   \* SayableArray, for an array inside an array
  SameInside(_, _)    \* SameArray, for arrays inside arrays

Fail == <<"fail">>

(* An integer as a double; beyond Exact only the even ones exist (up to    *)
(* twice Exact, which is as far as the instances go), and a tie goes to    *)
(* the multiple of 4.                                                      *)
Double(i) ==
  IF i \in -Exact .. Exact \/ i % 2 = 0 THEN i
  ELSE IF i % 4 = 1 THEN i - 1 ELSE i + 1

-----------------------------------------------------------------------------
(* The switches of encode_generate_array and encode_obj_iterate_handler    *)
EncodeValue(v) ==
  CASE v[1] = "nil"   -> <<"null">>
    [] v[1] = "bool"  -> v
    [] v[1] = "int"   -> <<"num", 2 * Double(v[2])>>
    [] v[1] = "real"  -> <<"num", v[2]>>
    [] v[1] = "str"   -> v
    [] v[1] = "func"  -> Fail
    [] v[1] = "array" -> EncodeInside(v[2])

(* mln_lang_json_encode_generate_array, which looks for the indexes from   *)
(* zero on                                                                 *)
EncodeArray(a) ==
  LET n == Cardinality(DOMAIN a)
  IN IF DOMAIN a # 0 .. n - 1
       \/ \E i \in DOMAIN a : EncodeValue(a[i].value) = Fail
     THEN Fail
     ELSE <<"list", [i \in 1 .. n |-> EncodeValue(a[i - 1].value)]>>

(* Keys other than strings are left out, before their values are looked at.*)
StringKeyed(a) == {i \in Keyed(a) : a[i].key[1] = "str"}

(* mln_lang_json_encode_generate_obj                                       *)
EncodeObj(a) ==
  IF \E i \in StringKeyed(a) : EncodeValue(a[i].value) = Fail THEN Fail
  ELSE <<"object",
         [k \in {a[i].key[2] : i \in StringKeyed(a)} |->
            EncodeValue(a[Place(a, <<"str", k>>)].value)]>>

(* mln_lang_json_encode_generate                                           *)
Encode(a) ==
  IF Keyed(a) = {} THEN EncodeArray(a)
  ELSE IF Keyed(a) = DOMAIN a THEN EncodeObj(a)
  ELSE Fail

-----------------------------------------------------------------------------
(* Defective: every number becomes a real.                                 *)
RealNumber(h) == <<"real", h>>

(* mln_lang_json_decode_number: an integer when the double is one          *)
DecodeNumber(h) == IF h % 2 = 0 THEN <<"int", h \div 2>> ELSE <<"real", h>>

DecodeValue(d) ==
  CASE d[1] = "null"   -> <<"nil">>
    [] d[1] = "bool"   -> d
    [] d[1] = "num"    -> DecodeNumber(d[2])
    [] d[1] = "str"    -> d
    [] d[1] \in {"list", "object"} -> <<"array", DecodeInside(d)>>

(* mln_lang_json_decode_array: the n-th value goes to the index n - 1.     *)
DecodeArray(q) ==
  [i \in 0 .. Len(q) - 1 |-> Elem(NoKey, DecodeValue(q[i + 1]))]

DecodeObj(f) ==
  FoldLeft(LAMBDA a, k : Put(a, <<"str", k>>, DecodeValue(f[k])),
           EmptyArray, SetToSeq(DOMAIN f))

(* mln_lang_json_decode_process: a scalar becomes the only element.        *)
Decode(d) ==
  CASE d[1] = "list"   -> DecodeArray(d[2])
    [] d[1] = "object" -> DecodeObj(d[2])
    [] OTHER -> Put(EmptyArray, NoKey, DecodeValue(d))

-----------------------------------------------------------------------------
(* The document that comes back: an empty object comes back as an empty    *)
(* array, for both are the empty array of a script.                        *)
Settled(d) ==
  CASE d[1] = "list" -> <<"list", [n \in DOMAIN d[2] |-> SettledInside(d[2][n])]>>
    [] d[1] = "object" ->
         IF DOMAIN d[2] = {} THEN <<"list", <<>>>>
         ELSE <<"object", [k \in DOMAIN d[2] |-> SettledInside(d[2][k])]>>
    [] OTHER -> d

Whole(d) == IF d[1] \in {"list", "object"} THEN d ELSE <<"list", <<d>>>>

(* A document that a script decodes and encodes again is the same, but for *)
(* empty objects and for a scalar, which comes back in an array.           *)
DocumentReturns(d, a) == Encode(a) = Settled(Whole(d))

(* Two values that a script cannot tell apart but by the order of keys     *)
SameValue(v, w) ==
  IF v[1] # "array" \/ w[1] # "array" THEN v = w ELSE SameInside(v[2], w[2])

SameArray(a, b) ==
  /\ KeysOf(a) = KeysOf(b)
  /\ \A k \in KeysOf(a) :
       SameValue(a[Place(a, k)].value, b[Place(b, k)].value)
  /\ Len(Plain(a)) = Len(Plain(b))
  /\ \A n \in DOMAIN Plain(a) : SameValue(Plain(a)[n], Plain(b)[n])

(* What no document can say: functions, integers that no double is,        *)
(* integral reals, keys that are no strings, keys for some elements only,  *)
(* holes between the indexes                                               *)
Sayable(v) ==
  CASE v[1] = "func"  -> FALSE
    [] v[1] = "int"   -> v[2] \in -Exact .. Exact
    [] v[1] = "real"  -> v[2] % 2 = 1
    [] v[1] = "array" -> SayableInside(v[2])
    [] OTHER -> TRUE

SayableArray(a) ==
  /\ Keyed(a) = {} => DOMAIN a = 0 .. Cardinality(DOMAIN a) - 1
  /\ Keyed(a) \in {{}, DOMAIN a}
  /\ StringKeyed(a) = Keyed(a)
  /\ \A i \in DOMAIN a : Sayable(a[i].value)

(* An array comes back as it was unless it has what no document can say,   *)
(* and one that mixes keys and none is refused, never cut down.            *)
ArrayReturns(a, d) ==
  /\ SayableArray(a) => d # Fail /\ SameArray(Decode(d), a)
  /\ d # Fail =>
       /\ Keyed(a) \in {{}, DOMAIN a}
       /\ Cardinality(DOMAIN Decode(d)) =
            IF Keyed(a) = {} THEN Cardinality(DOMAIN a)
                             ELSE Cardinality(StringKeyed(a))

-----------------------------------------------------------------------------
(* The values and documents without others inside; the number of a         *)
(* document is a double.                                                   *)
ScalarValue(v) ==
  \/ v \in {<<"nil">>, <<"func">>}
  \/ v \in {"bool"} \X BOOLEAN
  \/ v[1] = "str" /\ v = <<"str", v[2]>>
  \/ v \in {"int", "real"} \X Int

ScalarDocument(d) ==
  \/ d = <<"null">>
  \/ d \in {"bool"} \X BOOLEAN
  \/ d[1] = "str" /\ d = <<"str", d[2]>>
  \/ d \in {"num"} \X {h \in Int : h % 2 = 0 => Double(h \div 2) = h \div 2}

(* A list of documents in D, or an object of them with these names         *)
MadeOf(d, names, D) ==
  \/ d \in {"list"} \X Seq(D)
  \/ d \in {"object"} \X
       UNION {[N -> D] : N \in {M \in SUBSET names : IsFiniteSet(M)}}

=============================================================================
