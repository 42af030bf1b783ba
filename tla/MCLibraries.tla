---------------------------- MODULE MCLibraries -----------------------------
(* Small arrays, documents, strings and machine words                      *)
EXTENDS Libraries

(* What is inside is encoded, decoded and compared like what is outside.   *)
(* (The local names stop TLC's statistics from following the circle.)      *)
MCEncode(a)   == LET x == a IN Encode(x)
MCDecode(d)   == LET x == d IN Decode(x)
MCSettled(d)  == LET x == d IN Settled(x)
MCSayable(a)  == LET x == a IN SayableArray(x)
MCSame(a, b)  == LET x == a IN SameArray(x, b)

I(x) == <<"int", x>>
S(x) == <<"str", x>>
Pair == [i \in {0, 1} |-> Elem(NoKey, I(i))]
Object == [i \in {0} |-> Elem(S("a"), <<"real", 3>>)]

MCSmall == {I(0), I(1)}
MCNames == {"a", "b"}
MCValueLevels ==
  <<{I(0), I(1), <<"real", 3>>},
    {I(0), I(-1), I(5), <<"real", 1>>, <<"real", 4>>, S("a"),
     <<"bool", TRUE>>, <<"nil">>, <<"func">>, <<"array", EmptyArray>>,
     <<"array", Pair>>, <<"array", Object>>}>>
MCKeyValues == {S("a"), S("b"), <<"real", 1>>}

Scalars == {<<"null">>, <<"bool", TRUE>>, <<"num", 2>>, <<"num", 3>>,
            <<"str", "a">>}
Lists(D) == {<<"list", q>> : q \in UNION {[1 .. n -> D] : n \in 0 .. 2}}
Objects(D) ==
  {<<"object", f>> : f \in UNION {[K -> D] : K \in SUBSET MCNames}}
Level == Scalars \cup Lists({<<"null">>, <<"num", 3>>})
           \cup Objects({<<"str", "a">>, <<"num", 2>>})
MCDocumentLevels ==
  <<{<<"null">>, <<"num", 3>>, <<"str", "a">>, <<"num", 2>>}, Level,
    Level \cup Lists(Level) \cup Objects(Level)>>

MCChars == {"a", "b", "c"}
MCTexts == UNION {[1 .. n -> {"a", "b"}] : n \in 0 .. 5}
Keywords == UNION {[1 .. n -> {"a", "b"}] : n \in 1 .. 3}
Entry(k, v) == [key |-> k, value |-> v]
Substitutes == {<<>>, <<"c">>, <<"a", "b", "c">>}
MCDicts ==
  {<<Entry(k, v), Entry(l, w)>> :
     k \in Keywords, l \in Keywords, v \in Substitutes, w \in Substitutes}
  \ {<<Entry(k, v), Entry(k, w)>> :
       k \in Keywords, v \in Substitutes, w \in Substitutes}

=============================================================================
