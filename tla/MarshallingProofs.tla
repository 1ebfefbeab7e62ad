------------------------- MODULE MarshallingProofs -------------------------
(***************************************************************************)
(* Proofs about Marshalling, for any values, nested to any depth, and any  *)
(* number of them.                                                         *)
(*                                                                         *)
(* Every function here goes through a sequence and puts a sequence in the  *)
(* place of each element (FlatMap).  The atoms of a message are the atoms  *)
(* of its leaves (LeavesAreSpelled), by induction on the depth of arrays.  *)
(* From there on all is about sequences of leaves: js_marshal_args looks   *)
(* at two atoms at a time, so what it makes of a message is what it makes  *)
(* of the parts, except where a part ends between "jsobject" and an        *)
(* address (MarshalConcat).                                                *)
(***************************************************************************)
EXTENDS Marshalling, SequenceLemmas

LEMMA TypesOfValues ==
  ASSUME NEW v \in Value
  PROVE  /\ Is("number", v) => v = [number |-> v.number]
         /\ Is("string", v) => v = [string |-> v.string]
         /\ Is("object", v) => v = [object |-> v.object] /\ v.object \in DOMAIN AddressOf
         /\ Is("number", v) \/ Is("string", v) \/ Is("object", v) \/ Is("other", v) \/ Is("array", v)
         /\ Is("number", v) => ~Is("string", v) /\ ~Is("object", v) /\ ~Is("other", v) /\ ~Is("array", v)
         /\ Is("string", v) => ~Is("number", v) /\ ~Is("object", v) /\ ~Is("other", v) /\ ~Is("array", v)
         /\ Is("object", v) => ~Is("number", v) /\ ~Is("string", v) /\ ~Is("other", v) /\ ~Is("array", v)
         /\ Is("other", v) => ~Is("number", v) /\ ~Is("string", v) /\ ~Is("object", v) /\ ~Is("array", v)
         /\ Is("array", v) => ~Is("number", v) /\ ~Is("string", v) /\ ~Is("object", v) /\ ~Is("other", v)
<1>1. \/ v = [number |-> v.number]
      \/ v = [string |-> v.string]
      \/ v = [object |-> v.object] /\ v.object \in DOMAIN AddressOf
      \/ v = [other |-> v.other]
      \/ v = [array |-> v.array]
  BY ValueAssumption
<1>2. CASE v = [number |-> v.number]
  BY <1>2 DEF Is
<1>3. CASE v = [string |-> v.string]
  BY <1>3 DEF Is
<1>4. CASE v = [object |-> v.object] /\ v.object \in DOMAIN AddressOf
  BY <1>4 DEF Is
<1>5. CASE v = [other |-> v.other]
  BY <1>5 DEF Is
<1>6. CASE v = [array |-> v.array]
  BY <1>6 DEF Is
<1> QED
  BY <1>1, <1>2, <1>3, <1>4, <1>5, <1>6

LEMMA Elements ==
  ASSUME NEW v \in Value, Is("array", v)
  PROVE  /\ v.array \in Seq(Value)
         /\ \A i \in DOMAIN v.array : v.array[i] \in Value /\ Depth[v.array[i]] < Depth[v]
<1>1. v.array \in Seq(Value) /\ \A i \in DOMAIN v.array : Depth[v.array[i]] < Depth[v]
  BY TypesOfValues, ValueAssumption
<1>2. \A i \in DOMAIN v.array : v.array[i] \in Value
  BY <1>1, LenProperties, ElementOfSeq
<1> QED
  BY <1>1, <1>2

\* Induction on how deep arrays are nested: the elements of an array are less
\* deep than the array.
LEMMA DepthInduction ==
  ASSUME NEW T, \A v \in Value : (\A u \in Value : Depth[u] < Depth[v] => u \in T) => v \in T
  PROVE  Value \subseteq T
<1> DEFINE L == {n \in Nat : \A v \in Value : Depth[v] < n => v \in T}
<1>0. \A v \in Value : Depth[v] \in Nat
  BY ValueAssumption
<1>1. 0 \in L
  BY <1>0
<1>2. ASSUME NEW n \in Nat, n \in L PROVE n + 1 \in L
  <2> SUFFICES ASSUME NEW v \in Value, Depth[v] < n + 1 PROVE v \in T
    OBVIOUS
  <2>1. \A u \in Value : Depth[u] < Depth[v] => Depth[u] < n
    BY <1>0
  <2>2. \A u \in Value : Depth[u] < n => u \in T
    BY <1>2
  <2> QED
    BY <2>1, <2>2
<1> HIDE DEF L
<1>3. Nat \subseteq L
  BY <1>1, <1>2, Induction
<1>4. ASSUME NEW v \in Value PROVE v \in T
  <2>1. Depth[v] + 1 \in L /\ Depth[v] < Depth[v] + 1
    BY <1>0, <1>3
  <2> QED
    BY <2>1 DEF L
<1> QED
  BY <1>4

LEMMA SameFlatMap ==
  ASSUME NEW f, NEW g, NEW s, \A i \in DOMAIN s : f[s[i]] = g[s[i]]
  PROVE  FlatMap(f, s) = FlatMap(g, s)
<1>1. Map(f, s) = Map(g, s)
  BY DEF Map
<1> QED
  BY <1>1 DEF FlatMap

\* What f makes of v: an array's elements are opened, other values are b's.
Opened(f, b, v) == IF Is("array", v) THEN FlatMap(f, v.array) ELSE b[v]

OpensTo(f, b, R, n) ==
  /\ Maps(f, Value, Seq(R))
  /\ \A v \in Value : Depth[v] < n => f[v] = Opened(f, b, v)

LEMMA OpenedTyped ==
  ASSUME NEW R, NEW b, Maps(b, Value, Seq(R)), NEW f, Maps(f, Value, Seq(R)), NEW v \in Value
  PROVE  Opened(f, b, v) \in Seq(R)
<1>1. CASE Is("array", v)
  <2>1. FlatMap(f, v.array) \in Seq(R)
    BY <1>1, Elements, FlatMapTyped
  <2> QED
    BY <1>1, <2>1 DEF Opened
<1>2. CASE ~Is("array", v)
  BY <1>2 DEF Opened, Maps
<1> QED
  BY <1>1, <1>2

LEMMA SameOpened ==
  ASSUME NEW b, NEW f, NEW g, NEW v \in Value,
         \A u \in Value : Depth[u] < Depth[v] => f[u] = g[u]
  PROVE  Opened(f, b, v) = Opened(g, b, v)
<1>1. CASE Is("array", v)
  <2>1. \A i \in DOMAIN v.array : f[v.array[i]] = g[v.array[i]]
    BY <1>1, Elements
  <2> QED
    BY <1>1, <2>1, SameFlatMap DEF Opened
<1>2. CASE ~Is("array", v)
  BY <1>2 DEF Opened
<1> QED
  BY <1>1, <1>2

\* A function on Value may be defined by what it makes of the elements of
\* arrays: up to any depth there is one, and only one.
LEMMA OpensToExists ==
  ASSUME NEW R, NEW b, Maps(b, Value, Seq(R)), NEW n \in Nat
  PROVE  \E f : OpensTo(f, b, R, n)
<1> DEFINE T == {k \in Nat : \E f : OpensTo(f, b, R, k)}
<1>0. \A v \in Value : Depth[v] \in Nat
  BY ValueAssumption
<1>1. 0 \in T
  <2>1. OpensTo(b, b, R, 0)
    BY <1>0 DEF OpensTo
  <2> QED
    BY <2>1
<1>2. ASSUME NEW k \in Nat, k \in T PROVE k + 1 \in T
  <2>1. PICK f : OpensTo(f, b, R, k)
    BY <1>2
  <2> DEFINE g == [v \in Value |-> Opened(f, b, v)]
  <2>2. Maps(g, Value, Seq(R))
    BY <2>1, OpenedTyped DEF Maps, OpensTo
  <2>3. ASSUME NEW v \in Value, Depth[v] < k + 1 PROVE g[v] = Opened(g, b, v)
    <3>1. \A u \in Value : Depth[u] < Depth[v] => f[u] = g[u]
      <4>1. \A u \in Value : Depth[u] < Depth[v] => Depth[u] < k
        BY <1>0, <2>3
      <4> QED
        BY <2>1, <4>1 DEF OpensTo
    <3>2. g[v] = Opened(f, b, v)
      OBVIOUS
    <3> HIDE DEF g
    <3> QED
      BY <3>1, <3>2, SameOpened
  <2> HIDE DEF g
  <2>4. OpensTo(g, b, R, k + 1)
    BY <2>2, <2>3 DEF OpensTo
  <2> QED
    BY <2>4
<1> HIDE DEF T
<1>3. Nat \subseteq T
  BY <1>1, <1>2, Induction
<1> QED
  BY <1>3 DEF T

LEMMA OpensToUnique ==
  ASSUME NEW R, NEW b, NEW m, NEW n, NEW f, NEW g, OpensTo(f, b, R, m), OpensTo(g, b, R, n),
         NEW v \in Value, Depth[v] < m, Depth[v] < n, m \in Nat, n \in Nat
  PROVE  f[v] = g[v]
<1> DEFINE T == {u \in Value : Depth[u] < m /\ Depth[u] < n => f[u] = g[u]}
<1>0. \A u \in Value : Depth[u] \in Nat
  BY ValueAssumption
<1>1. ASSUME NEW u \in Value, \A w \in Value : Depth[w] < Depth[u] => w \in T PROVE u \in T
  <2> SUFFICES ASSUME Depth[u] < m, Depth[u] < n PROVE f[u] = g[u]
    OBVIOUS
  <2>1. \A w \in Value : Depth[w] < Depth[u] => f[w] = g[w]
    BY <1>0, <1>1
  <2>2. Opened(f, b, u) = Opened(g, b, u)
    BY <2>1, SameOpened
  <2>3. f[u] = Opened(f, b, u) /\ g[u] = Opened(g, b, u)
    BY DEF OpensTo
  <2> QED
    BY <2>2, <2>3
<1> HIDE DEF T
<1>2. Value \subseteq T
  BY <1>1, DepthInduction
<1> QED
  BY <1>2 DEF T

\* So there is one on all of Value.
LEMMA OpeningExists ==
  ASSUME NEW R, NEW b, Maps(b, Value, Seq(R))
  PROVE  \E f : /\ f = [v \in Value |-> Opened(f, b, v)]
                /\ Maps(f, Value, Seq(R))
<1> DEFINE F(v) == CHOOSE f : OpensTo(f, b, R, Depth[v] + 1)
           h == [v \in Value |-> F(v)[v]]
<1>0. \A v \in Value : Depth[v] \in Nat /\ Depth[v] + 1 \in Nat /\ Depth[v] < Depth[v] + 1
  BY ValueAssumption
<1>1. ASSUME NEW v \in Value PROVE OpensTo(F(v), b, R, Depth[v] + 1)
  <2>1. \E f : OpensTo(f, b, R, Depth[v] + 1)
    BY <1>0, OpensToExists
  <2> QED
    BY <2>1
<1> HIDE DEF F
<1>2. ASSUME NEW v \in Value PROVE h[v] = Opened(h, b, v)
  <2>1. \A u \in Value : Depth[u] < Depth[v] => F(v)[u] = F(u)[u]
    <3> SUFFICES ASSUME NEW u \in Value, Depth[u] < Depth[v] PROVE F(v)[u] = F(u)[u]
      OBVIOUS
    <3>1. Depth[u] < Depth[v] + 1
      BY <1>0
    <3>2. OpensTo(F(u), b, R, Depth[u] + 1) /\ OpensTo(F(v), b, R, Depth[v] + 1)
      BY <1>1
    <3> QED
      BY <1>0, <3>1, <3>2, OpensToUnique
  <2>2. \A u \in Value : Depth[u] < Depth[v] => F(v)[u] = h[u]
    BY <2>1
  <2>3. F(v)[v] = Opened(F(v), b, v)
    BY <1>0, <1>1 DEF OpensTo
  <2>4. h[v] = F(v)[v]
    OBVIOUS
  <2> HIDE DEF h
  <2>5. Opened(F(v), b, v) = Opened(h, b, v)
    BY <2>2, SameOpened
  <2> QED
    BY <2>3, <2>4, <2>5
<1>3. h = [v \in Value |-> Opened(h, b, v)]
  <2>1. h = [v \in Value |-> h[v]]
    OBVIOUS
  <2> HIDE DEF h
  <2> QED
    BY <1>2, <2>1
<1>4. Maps(h, Value, Seq(R))
  BY <1>0, <1>1 DEF Maps, OpensTo
<1> HIDE DEF h
<1> QED
  BY <1>3, <1>4

LEMMA OpeningTyped ==
  ASSUME NEW R, NEW b, Maps(b, Value, Seq(R)), NEW f, \A v \in Value : f[v] = Opened(f, b, v)
  PROVE  Maps(f, Value, Seq(R))
<1>1. PICK g : g = [v \in Value |-> Opened(g, b, v)] /\ Maps(g, Value, Seq(R))
  BY OpeningExists
<1> DEFINE T == {v \in Value : f[v] = g[v]}
<1>2. ASSUME NEW v \in Value, \A u \in Value : Depth[u] < Depth[v] => u \in T PROVE v \in T
  <2>1. Opened(f, b, v) = Opened(g, b, v)
    BY <1>2, SameOpened
  <2> QED
    BY <1>1, <2>1
<1> HIDE DEF T
<1>3. Value \subseteq T
  BY <1>2, DepthInduction
<1> QED
  BY <1>1, <1>3 DEF T, Maps

-----------------------------------------------------------------------------
(* What is sent, and what it is made of.                                   *)

SentAtom ==
  {Float(v.number) : v \in Value}
    \cup {Symbol(t) : t \in {v.string : v \in Value} \cup {"", "jsobject"} \cup Range(AddressOf)}

Leaf ==
  {v \in Value \cup {[string |-> ""]} : Is("number", v) \/ Is("string", v) \/ Is("object", v)}

\* The atoms of a value that is no array, and its leaf.
Spelling ==
  [v \in Value \cup Leaf |-> IF Is("number", v) THEN <<Float(v.number)>> ELSE UnmarshalString(v)]
Bare == [v \in Value |-> IF Is("other", v) THEN <<[string |-> ""]>> ELSE <<v>>]
BareLeaf == [v \in Value |-> IF Is("array", v) THEN <<>> ELSE Bare[v]]

LEMMA LeafIs ==
  ASSUME NEW v \in Leaf
  PROVE  \/ v = [number |-> v.number] /\ Is("number", v)
         \/ v = [string |-> v.string] /\ ~Is("number", v) /\ Is("string", v)
         \/ /\ v = [object |-> v.object] /\ ~Is("number", v) /\ ~Is("string", v) /\ Is("object", v)
            /\ v.object \in DOMAIN AddressOf
<1>1. CASE v \in Value
  BY <1>1, TypesOfValues DEF Leaf
<1>2. CASE v = [string |-> ""]
  BY <1>2 DEF Is
<1> QED
  BY <1>1, <1>2 DEF Leaf

LEMMA ReferenceTyped ==
  ASSUME NEW o \in DOMAIN AddressOf
  PROVE  Reference(o) \in Seq(SentAtom)
<1>1. Symbol("jsobject") \in SentAtom /\ Symbol(AddressOf[o]) \in SentAtom
  BY DEF SentAtom, Range
<1>2. <<Symbol("jsobject")>> \in Seq(SentAtom) /\ <<Symbol("jsobject"), Symbol(AddressOf[o])>> \in Seq(SentAtom)
  BY <1>1
<1> QED
  BY <1>2 DEF Reference

LEMMA SpellingTyped == Maps(Spelling, Value, Seq(SentAtom)) /\ Maps(Spelling, Leaf, Seq(SentAtom))
<1> SUFFICES ASSUME NEW v \in Value \cup Leaf PROVE Spelling[v] \in Seq(SentAtom)
  BY DEF Maps
<1>1. Spelling[v] = IF Is("number", v) THEN <<Float(v.number)>> ELSE UnmarshalString(v)
  BY DEF Spelling
<1>2. v \in Value \/ (v.string = "" /\ ~Is("number", v) /\ ~Is("object", v))
  <2>1. ~Is("number", [string |-> ""]) /\ ~Is("object", [string |-> ""]) /\ [string |-> ""].string = ""
    BY DEF Is
  <2>2. v \in Value \/ v = [string |-> ""]
    BY DEF Leaf
  <2> QED
    BY <2>1, <2>2
<1>3. CASE Is("number", v)
  <2>1. v \in Value
    BY <1>2, <1>3
  <2>2. Float(v.number) \in SentAtom
    BY <2>1 DEF SentAtom
  <2> QED
    BY <1>1, <1>3, <2>2, SingletonSeq
<1>4. CASE ~Is("number", v) /\ Is("string", v)
  <2>1. Symbol(v.string) \in SentAtom
    BY <1>2 DEF SentAtom
  <2>2. Spelling[v] = <<Symbol(v.string)>>
    BY <1>1, <1>4 DEF UnmarshalString
  <2> QED
    BY <2>1, <2>2, SingletonSeq
<1>5. CASE ~Is("number", v) /\ ~Is("string", v) /\ Is("object", v)
  <2>1. v \in Value
    BY <1>2, <1>5
  <2>2. v.object \in DOMAIN AddressOf
    BY <1>5, <2>1, TypesOfValues
  <2>3. Spelling[v] = Reference(v.object)
    BY <1>1, <1>5 DEF UnmarshalString
  <2> QED
    BY <2>2, <2>3, ReferenceTyped
<1>6. CASE ~Is("number", v) /\ ~Is("string", v) /\ ~Is("object", v)
  <2>1. Symbol("") \in SentAtom
    BY DEF SentAtom
  <2>2. Spelling[v] = <<Symbol("")>>
    BY <1>1, <1>6 DEF UnmarshalString
  <2> QED
    BY <2>1, <2>2, SingletonSeq
<1> QED
  BY <1>3, <1>4, <1>5, <1>6

LEMMA BareTyped ==
  /\ Maps(BareLeaf, Value, Seq(Leaf))
  /\ \A v \in Value : ~Is("array", v) => BareLeaf[v] = Bare[v]
<1> SUFFICES ASSUME NEW v \in Value
             PROVE  BareLeaf[v] \in Seq(Leaf) /\ (~Is("array", v) => BareLeaf[v] = Bare[v])
  BY DEF Maps
<1>1. CASE Is("array", v)
  BY <1>1 DEF BareLeaf
<1>2. CASE Is("other", v)
  <2>1. [string |-> ""] \in Leaf
    BY DEF Leaf, Is
  <2>2. BareLeaf[v] = Bare[v] /\ Bare[v] = <<[string |-> ""]>>
    BY <1>2, TypesOfValues DEF BareLeaf, Bare
  <2> QED
    BY <2>1, <2>2, SingletonSeq
<1>3. CASE ~Is("array", v) /\ ~Is("other", v)
  <2>1. v \in Leaf
    BY <1>3, TypesOfValues DEF Leaf
  <2>2. BareLeaf[v] = Bare[v] /\ Bare[v] = <<v>>
    BY <1>3 DEF BareLeaf, Bare
  <2> QED
    BY <2>1, <2>2, SingletonSeq
<1> QED
  BY <1>1, <1>2, <1>3

\* js_unmarshal_arg opens arrays and spells what is in them.
LEMMA UnmarshalIs ==
  /\ Maps(Unmarshal, Value, Seq(SentAtom))
  /\ \A v \in Value : Unmarshal[v] = Opened(Unmarshal, Spelling, v)
<1> DEFINE Body(f, v) ==
             IF Is("number", v) THEN <<Float(v.number)>>
             ELSE IF Is("array", v) THEN FlattenSeq([i \in DOMAIN v.array |-> f[v.array[i]]])
             ELSE UnmarshalString(v)
<1>1. ASSUME NEW f, NEW v \in Value PROVE Body(f, v) = Opened(f, Spelling, v)
  <2>1. Is("number", v) => ~Is("array", v)
    BY TypesOfValues
  <2>2. ~Is("array", v) => Spelling[v] = IF Is("number", v) THEN <<Float(v.number)>> ELSE UnmarshalString(v)
    BY DEF Spelling
  <2>3. FlatMap(f, v.array) = FlattenSeq([i \in DOMAIN v.array |-> f[v.array[i]]])
    BY DEF FlatMap, Map
  <2> QED
    BY <2>1, <2>2, <2>3 DEF Opened
<1>2. PICK f : f = [v \in Value |-> Opened(f, Spelling, v)] /\ Maps(f, Value, Seq(SentAtom))
  BY SpellingTyped, OpeningExists
<1>3. f = [v \in Value |-> Body(f, v)]
  <2> HIDE DEF Body
  <2> QED
    BY <1>1, <1>2
<1>4. Unmarshal = CHOOSE g : g = [v \in Value |-> Body(g, v)]
  BY DEF Unmarshal
<1> HIDE DEF Body
<1>5. Unmarshal = [v \in Value |-> Body(Unmarshal, v)]
  BY <1>3, <1>4
<1>6. \A v \in Value : Unmarshal[v] = Opened(Unmarshal, Spelling, v)
  BY <1>1, <1>5
<1>7. Maps(Unmarshal, Value, Seq(SentAtom))
  BY <1>6, SpellingTyped, OpeningTyped
<1> QED
  BY <1>6, <1>7

LEMMA OpenIs ==
  /\ Maps(Open, Value, Seq(Leaf))
  /\ \A v \in Value : Open[v] = Opened(Open, BareLeaf, v)
<1> DEFINE Body(f, v) ==
             IF Is("array", v) THEN FlattenSeq([i \in DOMAIN v.array |-> f[v.array[i]]])
             ELSE IF Is("other", v) THEN <<[string |-> ""]>>
             ELSE <<v>>
<1>1. ASSUME NEW f, NEW v \in Value PROVE Body(f, v) = Opened(f, BareLeaf, v)
  <2>1. ~Is("array", v) => BareLeaf[v] = IF Is("other", v) THEN <<[string |-> ""]>> ELSE <<v>>
    BY DEF BareLeaf, Bare
  <2>2. FlatMap(f, v.array) = FlattenSeq([i \in DOMAIN v.array |-> f[v.array[i]]])
    BY DEF FlatMap, Map
  <2> QED
    BY <2>1, <2>2 DEF Opened
<1>2. PICK f : f = [v \in Value |-> Opened(f, BareLeaf, v)]
  BY BareTyped, OpeningExists
<1>3. f = [v \in Value |-> Body(f, v)]
  <2> HIDE DEF Body
  <2> QED
    BY <1>1, <1>2
<1>4. Open = CHOOSE g : g = [v \in Value |-> Body(g, v)]
  BY DEF Open
<1> HIDE DEF Body
<1>5. Open = [v \in Value |-> Body(Open, v)]
  BY <1>3, <1>4
<1>6. \A v \in Value : Open[v] = Opened(Open, BareLeaf, v)
  BY <1>1, <1>5
<1>7. Maps(Open, Value, Seq(Leaf))
  BY <1>6, BareTyped, OpeningTyped
<1> QED
  BY <1>6, <1>7

\* The atoms of a value are those of its leaves.
LEMMA OpenSpells ==
  ASSUME NEW v \in Value
  PROVE  Unmarshal[v] = FlatMap(Spelling, Open[v])
<1> DEFINE T == {u \in Value : Unmarshal[u] = FlatMap(Spelling, Open[u])}
<1>1. ASSUME NEW u \in Value, \A w \in Value : Depth[w] < Depth[u] => w \in T PROVE u \in T
  <2>1. CASE Is("array", u)
    <3>1. Unmarshal[u] = FlatMap(Unmarshal, u.array) /\ Open[u] = FlatMap(Open, u.array)
      BY <2>1, UnmarshalIs, OpenIs DEF Opened
    <3>2. \A i \in DOMAIN u.array : Unmarshal[u.array[i]] = FlatMap(Spelling, Open[u.array[i]])
      BY <1>1, <2>1, Elements
    <3>3. FlatMap(Spelling, FlatMap(Open, u.array)) = FlatMap(Unmarshal, u.array)
      BY <2>1, <3>2, Elements, UnmarshalIs, OpenIs, SpellingTyped, FlatMapTwice
    <3> QED
      BY <3>1, <3>3
  <2>2. CASE ~Is("array", u)
    <3>1. Unmarshal[u] = Spelling[u] /\ Open[u] = Bare[u]
      BY <2>2, UnmarshalIs, OpenIs, BareTyped DEF Opened
    <3>2. CASE Is("other", u)
      <4>1. [string |-> ""] \in Leaf /\ Open[u] = <<[string |-> ""]>>
        <5>1. [string |-> ""] \in Leaf
          BY DEF Leaf, Is
        <5>2. Bare[u] = <<[string |-> ""]>>
          BY <3>2 DEF Bare
        <5> QED
          BY <3>1, <5>1, <5>2
      <4>2. FlatMap(Spelling, Open[u]) = Spelling[[string |-> ""]]
        <5> DEFINE empty == [string |-> ""]
        <5>1. empty \in Leaf
          BY <4>1
        <5> HIDE DEF empty
        <5>2. FlatMap(Spelling, <<empty>>) = Spelling[empty]
          BY <5>1, SpellingTyped, FlatMapOne
        <5> QED
          BY <4>1, <5>2 DEF empty
      <4>3. Spelling[[string |-> ""]] = <<Symbol("")>>
        <5>1. /\ ~Is("number", [string |-> ""]) /\ Is("string", [string |-> ""])
              /\ [string |-> ""].string = ""
          BY DEF Is
        <5> DEFINE empty == [string |-> ""]
        <5>2. empty \in Value \cup Leaf
          BY <4>1
        <5> HIDE DEF empty
        <5>3. Spelling[empty] = IF Is("number", empty) THEN <<Float(empty.number)>> ELSE UnmarshalString(empty)
          BY <5>2 DEF Spelling
        <5>4. UnmarshalString(empty) = IF Is("string", empty) THEN <<Symbol(empty.string)>>
                                       ELSE IF Is("object", empty) THEN Reference(empty.object)
                                       ELSE <<Symbol("")>>
          BY DEF UnmarshalString
        <5> QED
          BY <5>1, <5>3, <5>4 DEF empty
      <4>4. Spelling[u] = <<Symbol("")>>
        BY <3>2, TypesOfValues DEF Spelling, UnmarshalString
      <4> QED
        BY <3>1, <4>2, <4>3, <4>4
    <3>3. CASE ~Is("other", u)
      <4>1. u \in Leaf /\ Open[u] = <<u>>
        <5>1. Is("number", u) \/ Is("string", u) \/ Is("object", u)
          BY <2>2, <3>3, TypesOfValues
        <5>2. Bare[u] = <<u>>
          BY <3>3 DEF Bare
        <5> QED
          BY <3>1, <5>1, <5>2 DEF Leaf
      <4>2. FlatMap(Spelling, <<u>>) = Spelling[u]
        BY <4>1, SpellingTyped, FlatMapOne
      <4> QED
        BY <3>1, <4>1, <4>2
    <3> QED
      BY <3>2, <3>3
  <2> QED
    BY <2>1, <2>2
<1> HIDE DEF T
<1>2. Value \subseteq T
  BY <1>1, DepthInduction
<1> QED
  BY <1>2 DEF T

\* js_unmarshal_args sends the atoms of the leaves, in order: arrays are opened
\* wherever they are.
LEMMA LeavesAreSpelled ==
  ASSUME NEW values \in Seq(Value)
  PROVE  /\ Leaves(values) \in Seq(Leaf)
         /\ UnmarshalArgs(values) = FlatMap(Spelling, Leaves(values))
         /\ UnmarshalArgs(values) = FlatMap(Unmarshal, values)
         /\ UnmarshalArgs(values) \in Seq(SentAtom)
<1>1. UnmarshalArgs(values) = FlatMap(Unmarshal, values)
  BY DEF UnmarshalArgs, UnmarshalArg, FlatMap, Map
<1>2. Leaves(values) = FlatMap(Open, values)
  BY DEF Leaves, FlatMap, Map
<1>3. \A i \in DOMAIN values : Unmarshal[values[i]] = FlatMap(Spelling, Open[values[i]])
  <2>1. \A i \in DOMAIN values : values[i] \in Value
    BY LenProperties, ElementOfSeq
  <2> QED
    BY <2>1, OpenSpells
<1>4. FlatMap(Spelling, FlatMap(Open, values)) = FlatMap(Unmarshal, values)
  BY <1>3, UnmarshalIs, OpenIs, SpellingTyped, FlatMapTwice
<1>5. FlatMap(Open, values) \in Seq(Leaf) /\ FlatMap(Unmarshal, values) \in Seq(SentAtom)
  BY UnmarshalIs, OpenIs, FlatMapTyped
<1> QED
  BY <1>1, <1>2, <1>4, <1>5

-----------------------------------------------------------------------------
(* The invariant: what the message, the arguments and the property were    *)
(* made of.                                                                *)

ByProperty == {"set", "answered", "undefined"}

\* What each phase is made of: the message of the values, and whether Pd and
\* js_anything let it through to the script; the property of the atoms.
IInv ==
  /\ sent \in Seq(Value)
  /\ phase \in {"receive", "called", "overread"} =>
       UnmarshalArgs(sent) # <<>> /\ message = ToMessage(UnmarshalArgs(sent))
  /\ phase = "called" => /\ ~Rejected(message)
                         /\ ~StartsWithObject(Delivered(message))
                         /\ received = MarshalArgs(Delivered(message).argv)
  /\ phase = "overread" => StartsWithObject(Delivered(message))
  /\ phase \in ByProperty => /\ sent = <<>>
                             /\ \E n \in 1 .. MaxArgs : given \in [1 .. n -> Atom]
  /\ phase = "undefined" => MarshalArgs(given) = <<>>
  /\ phase = "set" => /\ MarshalArgs(given) # <<>>
                      /\ property \in {NoValue, PropertyValue(MarshalArgs(given))}
  /\ phase = "answered" =>
       /\ MarshalArgs(given) # <<>>
       /\ message = ToMessage(UnmarshalArgs(<<PropertyValue(MarshalArgs(given))>>))

LEMMA InitIInv == Init => IInv
  BY EmptySeq DEF Init, IInv, ByProperty

LEMMA ChooseKeepsIInv ==
  ASSUME IInv, NEW v \in Passable, Choose(v)
  PROVE  IInv'
<1>1. phase = "choose" /\ phase' = "choose" /\ sent' = Append(sent, v)
  BY DEF Choose
<1>2. v \in Value
  BY ValueAssumption
<1>3. sent' \in Seq(Value)
  BY <1>1, <1>2, AppendProperties DEF IInv
<1> QED
  BY <1>1, <1>3 DEF IInv, ByProperty

LEMMA SendKeepsIInv ==
  ASSUME IInv, Send
  PROVE  IInv'
<1>1. sent' = sent /\ SendValues(sent, "receive")
  BY DEF Send
<1>2. CASE UnmarshalArgs(sent) = <<>>
  <2>1. phase' = "done"
    BY <1>1, <1>2 DEF SendValues
  <2> QED
    BY <1>1, <1>2, <2>1 DEF IInv, ByProperty
<1>3. CASE UnmarshalArgs(sent) # <<>>
  <2>1. phase' = "receive" /\ message' = ToMessage(UnmarshalArgs(sent))
    BY <1>1, <1>3 DEF SendValues
  <2> QED
    BY <1>1, <1>3, <2>1 DEF IInv, ByProperty
<1> QED
  BY <1>2, <1>3

LEMMA ReceiveKeepsIInv ==
  ASSUME IInv, Receive
  PROVE  IInv'
<1>1. phase = "receive" /\ sent' = sent /\ message' = message
  BY DEF Receive
<1>2. UnmarshalArgs(sent) # <<>> /\ message = ToMessage(UnmarshalArgs(sent))
  BY <1>1 DEF IInv
<1>3. \/ phase' \in {"rejected", "command"}
      \/ phase' = "overread" /\ StartsWithObject(Delivered(message))
      \/ /\ phase' = "called" /\ ~Rejected(message) /\ ~StartsWithObject(Delivered(message))
         /\ received' = MarshalArgs(Delivered(message).argv)
  BY DEF Receive
<1>4. CASE phase' \in {"rejected", "command"}
  BY <1>1, <1>4 DEF IInv, ByProperty
<1>5. CASE phase' = "overread" /\ StartsWithObject(Delivered(message))
  BY <1>1, <1>2, <1>5 DEF IInv, ByProperty
<1>6. CASE /\ phase' = "called" /\ ~Rejected(message) /\ ~StartsWithObject(Delivered(message))
           /\ received' = MarshalArgs(Delivered(message).argv)
  BY <1>1, <1>2, <1>6 DEF IInv, ByProperty
<1> QED
  BY <1>3, <1>4, <1>5, <1>6

LEMMA SetPropKeepsIInv ==
  ASSUME IInv, NEW n \in 1 .. MaxArgs, NEW argv \in [1 .. n -> Atom], SetProp(argv)
  PROVE  IInv'
<1>1. sent = <<>> /\ sent' = <<>> /\ given' = argv
  BY DEF SetProp
<1>2. sent' \in Seq(Value)
  BY <1>1, EmptySeq
<1>3. CASE MarshalArgs(argv) = <<>>
  <2>1. phase' = "undefined"
    BY <1>3 DEF SetProp
  <2> QED
    BY <1>1, <1>2, <1>3, <2>1 DEF IInv, ByProperty
<1>4. CASE MarshalArgs(argv) # <<>>
  <2>1. phase' = "set" /\ property' = PropertyValue(MarshalArgs(argv))
    BY <1>4 DEF SetProp
  <2> QED
    BY <1>1, <1>2, <1>4, <2>1 DEF IInv, ByProperty
<1> QED
  BY <1>3, <1>4

LEMMA DelPropKeepsIInv ==
  ASSUME IInv, DelProp
  PROVE  IInv'
<1>1. phase = "set" /\ phase' = "set" /\ sent' = sent /\ given' = given /\ property' = NoValue
  BY DEF DelProp
<1> QED
  BY <1>1 DEF IInv, ByProperty

LEMMA GetPropKeepsIInv ==
  ASSUME IInv, GetProp
  PROVE  IInv'
<1>1. phase = "set" /\ sent' = sent /\ given' = given /\ sent = <<>>
  BY DEF GetProp, propertyVars, IInv, ByProperty
<1>2. CASE phase' = "done"
  BY <1>1, <1>2 DEF IInv, ByProperty
<1>3. CASE phase' # "done"
  <2>1. property # NoValue /\ SendValues(<<property>>, "answered")
    BY <1>3 DEF GetProp
  <2>2. phase' = "answered" /\ message' = ToMessage(UnmarshalArgs(<<property>>))
    BY <1>3, <2>1 DEF SendValues
  <2>3. property = PropertyValue(MarshalArgs(given)) /\ MarshalArgs(given) # <<>>
    BY <1>1, <2>1 DEF IInv
  <2> QED
    BY <1>1, <2>2, <2>3 DEF IInv, ByProperty
<1> QED
  BY <1>2, <1>3

LEMMA StutterKeepsIInv == ASSUME IInv, UNCHANGED vars PROVE IInv'
  BY DEF IInv, vars, propertyVars

LEMMA SpecIInv == Spec => []IInv
<1>1. IInv /\ [Next]_vars => IInv'
  <2> SUFFICES ASSUME IInv, [Next]_vars PROVE IInv'
    OBVIOUS
  <2>1. ASSUME NEW v \in Passable, Choose(v) PROVE IInv'
    BY <2>1, ChooseKeepsIInv
  <2>2. ASSUME NEW n \in 1 .. MaxArgs, NEW argv \in [1 .. n -> Atom], SetProp(argv) PROVE IInv'
    BY <2>2, SetPropKeepsIInv
  <2>3. CASE Send
    BY <2>3, SendKeepsIInv
  <2>4. CASE Receive
    BY <2>4, ReceiveKeepsIInv
  <2>5. CASE DelProp
    BY <2>5, DelPropKeepsIInv
  <2>6. CASE GetProp
    BY <2>6, GetPropKeepsIInv
  <2>7. CASE UNCHANGED vars
    BY <2>7, StutterKeepsIInv
  <2> QED
    BY <2>1, <2>2, <2>3, <2>4, <2>5, <2>6, <2>7 DEF Next
<1> QED
  BY <1>1, InitIInv, PTL DEF Spec

-----------------------------------------------------------------------------
(* The message spells the atoms.                                           *)

LEMMA SentAtomIs ==
  ASSUME NEW atom \in SentAtom
  PROVE  \/ Is("symbol", atom) /\ ~Is("float", atom) /\ atom = Symbol(atom.symbol)
         \/ Is("float", atom) /\ ~Is("symbol", atom) /\ atom = Float(atom.float)
<1>1. CASE \E v \in Value : atom = Float(v.number)
  BY <1>1 DEF Float, Is
<1>2. CASE \E t : atom = Symbol(t)
  BY <1>2 DEF Symbol, Is
<1> QED
  BY <1>1, <1>2 DEF SentAtom

AddedSelector(argv) == IF Len(argv) = 1 THEN "float" ELSE "list"

\* js_outlet_args takes a leading symbol for the selector, and a leading number
\* where it is the same bytes as the selector's address.
LEMMA MessageIs ==
  ASSUME NEW argv \in Seq(SentAtom), argv # <<>>
  PROVE  /\ Is("symbol", argv[1]) =>
              /\ ToMessage(argv) = [selector |-> argv[1].symbol, argv |-> Tail(argv)]
              /\ argv = <<Symbol(argv[1].symbol)>> \o Tail(argv)
         /\ ~Is("symbol", argv[1]) =>
              ToMessage(argv) =
                [selector |-> AddedSelector(argv),
                 argv |-> IF argv[1].float \in Bits[AddedSelector(argv)] THEN Tail(argv) ELSE argv]
<1>1. argv[1] \in SentAtom /\ argv = <<argv[1]>> \o Tail(argv)
  BY HeadAndTail
<1>2. CASE Is("symbol", argv[1])
  <2>1. argv[1] = Symbol(argv[1].symbol)
    BY <1>1, <1>2, SentAtomIs
  <2>2. GetType(argv) = argv[1].symbol
    BY <1>2 DEF GetType
  <2>3. SameBytes(GetType(argv), argv[1])
    BY <2>1, <2>2 DEF SameBytes
  <2> QED
    BY <1>1, <1>2, <2>1, <2>2, <2>3 DEF ToMessage
<1>3. CASE ~Is("symbol", argv[1])
  <2>1. GetType(argv) = AddedSelector(argv)
    BY <1>3 DEF GetType, AddedSelector
  <2>2. argv[1] # Symbol(GetType(argv))
    <3>1. Is("symbol", Symbol(GetType(argv)))
      BY DEF Symbol, Is
    <3> QED
      BY <1>3, <3>1
  <2>3. Is("float", argv[1])
    BY <1>1, <1>3, SentAtomIs
  <2>4. SameBytes(GetType(argv), argv[1]) <=> argv[1].float \in Bits[AddedSelector(argv)]
    BY <2>1, <2>2, <2>3 DEF SameBytes
  <2> QED
    BY <1>3, <2>1, <2>4 DEF ToMessage
<1> QED
  BY <1>2, <1>3

\* For any values, nested to any depth: the atoms sent begin with the message's
\* selector where the first is a symbol; where it is not, js_outlet_args adds
\* "float" or "list" and can lose no atom but the first.
THEOREM MessagesAlwaysSpellAtoms == Spec => []MessageSpellsAtoms
<1>1. IInv => MessageSpellsAtoms
  <2> DEFINE atoms == UnmarshalArgs(sent)
  <2> SUFFICES ASSUME IInv, phase = "receive"
               PROVE  IF Is("symbol", atoms[1])
                        THEN atoms = <<Symbol(message.selector)>> \o message.argv
                        ELSE /\ message.selector = IF Len(atoms) = 1 THEN "float" ELSE "list"
                             /\ \/ message.argv = atoms
                                \/ /\ atoms[1].float \in Bits[message.selector]
                                   /\ atoms = <<atoms[1]>> \o message.argv
    BY DEF MessageSpellsAtoms
  <2>1. atoms \in Seq(SentAtom) /\ atoms # <<>> /\ message = ToMessage(atoms)
    BY LeavesAreSpelled DEF IInv
  <2> HIDE DEF atoms
  <2>2. CASE Is("symbol", atoms[1])
    <3>1. message = [selector |-> atoms[1].symbol, argv |-> Tail(atoms)]
      BY <2>1, <2>2, MessageIs
    <3>2. message.selector = atoms[1].symbol /\ message.argv = Tail(atoms)
      BY <3>1
    <3>3. atoms = <<Symbol(atoms[1].symbol)>> \o Tail(atoms)
      BY <2>1, <2>2, MessageIs
    <3> QED
      BY <2>2, <3>2, <3>3
  <2>3. CASE ~Is("symbol", atoms[1])
    <3> DEFINE type == AddedSelector(atoms)
    <3>1. message = [selector |-> type, argv |-> IF atoms[1].float \in Bits[type] THEN Tail(atoms) ELSE atoms]
      BY <2>1, <2>3, MessageIs
    <3>2. atoms = <<atoms[1]>> \o Tail(atoms)
      BY <2>1, HeadAndTail
    <3>3. /\ message.selector = type
          /\ message.argv = IF atoms[1].float \in Bits[type] THEN Tail(atoms) ELSE atoms
      BY <3>1
    <3>4. type = IF Len(atoms) = 1 THEN "float" ELSE "list"
      BY DEF AddedSelector
    <3> HIDE DEF type
    <3>5. CASE atoms[1].float \in Bits[type]
      <4>1. atoms = <<atoms[1]>> \o message.argv
        BY <3>2, <3>3, <3>5
      <4> QED
        BY <2>3, <3>3, <3>4, <3>5, <4>1
    <3>6. CASE atoms[1].float \notin Bits[type]
      BY <2>3, <3>3, <3>4, <3>6
    <3> QED
      BY <3>5, <3>6
  <2> QED
    BY <2>2, <2>3
<1> QED
  BY <1>1, SpecIInv, PTL

-----------------------------------------------------------------------------
(* A property comes back as it was given.                                  *)

\* What js_marshal_args makes of an atom that is no reference; the sequence of
\* an atom that is kept and of one that is not.
MarshalledBy(A) == [atom \in A |-> MarshalAtom(atom)]
KeptBy(T, S) == [x \in S |-> IF x \in T THEN <<x>> ELSE <<>>]

Piece(argv, i) == IF ReferenceAt(argv, i) THEN <<MarshalObject(argv[i + 1])>> ELSE MarshalAtom(argv[i])
Pieces(argv) == [i \in DOMAIN argv |-> Piece(argv, i)]

LEMMA OnlyIs ==
  ASSUME NEW S, NEW T, NEW s \in Seq(S)
  PROVE  /\ Only(T, s) = FlatMap(KeptBy(T, S), s)
         /\ Maps(KeptBy(T, S), S, Seq(S))
         /\ Only(T, s) \in Seq(S)
<1>1. \A i \in DOMAIN s : s[i] \in S
  BY LenProperties, ElementOfSeq
<1>2. Map(KeptBy(T, S), s) = [i \in DOMAIN s |-> IF s[i] \in T THEN <<s[i]>> ELSE <<>>]
  BY <1>1 DEF Map, KeptBy
<1>3. Only(T, s) = FlatMap(KeptBy(T, S), s)
  BY <1>2 DEF Only, FlatMap
<1>4. ASSUME NEW x \in S PROVE KeptBy(T, S)[x] \in Seq(S)
  <2>1. <<x>> \in Seq(S) /\ <<>> \in Seq(S)
    OBVIOUS
  <2> QED
    BY <2>1 DEF KeptBy
<1>5. Maps(KeptBy(T, S), S, Seq(S))
  BY <1>4 DEF Maps
<1> QED
  BY <1>3, <1>5, FlatMapTyped

LEMMA MarshalIsPieces ==
  ASSUME NEW argv
  PROVE  MarshalArgs(argv) = FlattenSeq(Pieces(argv))
BY DEF MarshalArgs, Pieces, Piece

\* Without a reference, js_marshal_args takes the atoms one by one.
LEMMA MarshalWithoutReferences ==
  ASSUME NEW A, NEW argv \in Seq(A), \A i \in DOMAIN argv : ~ReferenceAt(argv, i)
  PROVE  MarshalArgs(argv) = FlatMap(MarshalledBy(A), argv)
<1>1. \A i \in DOMAIN argv : argv[i] \in A
  BY LenProperties, ElementOfSeq
<1>2. Pieces(argv) = Map(MarshalledBy(A), argv)
  BY <1>1 DEF Pieces, Piece, Map, MarshalledBy
<1> QED
  BY <1>2, MarshalIsPieces DEF FlatMap

LEMMA AtomIs ==
  ASSUME NEW atom \in Atom
  PROVE  \/ Is("float", atom) /\ ~Is("symbol", atom) /\ ~Is("pointer", atom) /\ atom = Float(atom.float)
         \/ Is("symbol", atom) /\ ~Is("float", atom) /\ ~Is("pointer", atom) /\ atom = Symbol(atom.symbol)
         \/ Is("pointer", atom) /\ ~Is("float", atom) /\ ~Is("symbol", atom)
<1>1. \/ atom = [float |-> atom.float]
      \/ atom = [symbol |-> atom.symbol]
      \/ atom = [pointer |-> atom.pointer]
  BY AtomAssumption
<1>2. CASE atom = [float |-> atom.float]
  BY <1>2 DEF Is, Float
<1>3. CASE atom = [symbol |-> atom.symbol]
  BY <1>3 DEF Is, Symbol
<1>4. CASE atom = [pointer |-> atom.pointer]
  BY <1>4 DEF Is
<1> QED
  BY <1>1, <1>2, <1>3, <1>4

PlainValue(A) == {[number |-> a.float] : a \in A} \cup {[string |-> a.symbol] : a \in A}

LEMMA MarshalledTyped ==
  ASSUME NEW A
  PROVE  Maps(MarshalledBy(A), A, Seq(PlainValue(A)))
<1> SUFFICES ASSUME NEW a \in A PROVE MarshalAtom(a) \in Seq(PlainValue(A))
  BY DEF Maps, MarshalledBy
<1> DEFINE n == [number |-> a.float]
           t == [string |-> a.symbol]
<1>1. n \in PlainValue(A) /\ t \in PlainValue(A)
  BY DEF PlainValue
<1>2. MarshalAtom(a) = <<n>> \/ MarshalAtom(a) = <<t>> \/ MarshalAtom(a) = <<>>
  BY DEF MarshalAtom
<1> HIDE DEF n, t
<1>3. <<n>> \in Seq(PlainValue(A)) /\ <<t>> \in Seq(PlainValue(A)) /\ <<>> \in Seq(PlainValue(A))
  BY <1>1, SingletonSeq, EmptySeq
<1> QED
  BY <1>2, <1>3

\* An atom of a setprop is marshalled to a value that is unmarshalled to it.
LEMMA AtomsComeBack ==
  ASSUME 1 \in 1 .. MaxArgs, NEW a \in Atom
  PROVE  /\ Is("pointer", a) => MarshalAtom(a) = <<>>
         /\ ~Is("pointer", a) =>
              \E x \in Value : MarshalAtom(a) = <<x>> /\ Unmarshal[x] = <<a>>
<1>1. CASE Is("pointer", a)
  BY <1>1, AtomIs DEF MarshalAtom
<1>2. CASE ~Is("pointer", a)
  <2>1. PICK x : /\ MarshalAtom(a) = <<x>>
                 /\ \/ x = [number |-> a.float] /\ a = Float(a.float)
                    \/ x = [string |-> a.symbol] /\ a = Symbol(a.symbol)
    BY <1>2, AtomIs DEF MarshalAtom
  <2>2. x \in Value
    <3> DEFINE argv == <<a>>
    <3>1. argv \in [1 .. 1 -> Atom] /\ argv \in Seq(Atom) /\ Len(argv) = 1 /\ DOMAIN argv = 1 .. 1
      OBVIOUS
    <3>2. \A i \in DOMAIN argv : ~ReferenceAt(argv, i)
      <4> HIDE DEF argv
      <4> QED
        BY <3>1 DEF ReferenceAt
    <3>3. MarshalArgs(argv) = FlatMap(MarshalledBy(Atom), argv)
      BY <3>1, <3>2, MarshalWithoutReferences
    <3>4. FlatMap(MarshalledBy(Atom), <<a>>) = MarshalledBy(Atom)[a]
      BY MarshalledTyped, FlatMapOne
    <3>5. MarshalArgs(argv) = <<x>>
      BY <2>1, <3>3, <3>4 DEF MarshalledBy
    <3>6. PropertyValue(<<x>>) = x
      BY DEF PropertyValue
    <3>7. <<x>> # <<>>
      OBVIOUS
    <3>8. \A f \in [1 .. 1 -> Atom] : MarshalArgs(f) # <<>> => PropertyValue(MarshalArgs(f)) \in Value
      BY PropertyAssumption
    <3> HIDE DEF argv
    <3> QED
      BY <3>1, <3>5, <3>6, <3>7, <3>8
  <2>3. ASSUME x = [number |-> a.float], a = Float(a.float) PROVE Unmarshal[x] = <<a>>
    <3>1. Is("number", x) /\ x.number = a.float
      BY <2>3 DEF Is
    <3>2. ~Is("array", x)
      BY <2>2, <3>1, TypesOfValues
    <3>3. Unmarshal[x] = Spelling[x]
      BY <2>2, <3>2, UnmarshalIs DEF Opened
    <3>4. Spelling[x] = <<Float(x.number)>>
      BY <2>2, <3>1 DEF Spelling
    <3> QED
      BY <2>3, <3>1, <3>3, <3>4
  <2>4. ASSUME x = [string |-> a.symbol], a = Symbol(a.symbol) PROVE Unmarshal[x] = <<a>>
    <3>1. Is("string", x) /\ x.string = a.symbol
      BY <2>4 DEF Is
    <3>2. ~Is("array", x) /\ ~Is("number", x)
      BY <2>2, <3>1, TypesOfValues
    <3>3. Unmarshal[x] = Spelling[x]
      BY <2>2, <3>2, UnmarshalIs DEF Opened
    <3>4. Spelling[x] = <<Symbol(x.string)>>
      BY <2>2, <3>1, <3>2 DEF Spelling, UnmarshalString
    <3> QED
      BY <2>4, <3>1, <3>3, <3>4
  <2> QED
    BY <1>2, <2>1, <2>2, <2>3, <2>4
<1> QED
  BY <1>1, <1>2

Kept == {atom \in Atom : ~Is("pointer", atom)}

\* What setprop makes of atoms is unmarshalled to the atoms that are kept.
LEMMA KeptComesBack ==
  ASSUME 1 \in 1 .. MaxArgs, NEW argv \in Seq(Atom), \A i \in DOMAIN argv : ~ReferenceAt(argv, i)
  PROVE  /\ MarshalArgs(argv) \in Seq(Value)
         /\ UnmarshalArgs(MarshalArgs(argv)) = Only(Kept, argv)
<1>1. Maps(MarshalledBy(Atom), Atom, Seq(Value))
  <2> SUFFICES ASSUME NEW a \in Atom PROVE MarshalAtom(a) \in Seq(Value)
    BY DEF Maps, MarshalledBy
  <2>1. CASE MarshalAtom(a) = <<>>
    BY <2>1, EmptySeq
  <2>2. CASE MarshalAtom(a) # <<>>
    <3>1. PICK x \in Value : MarshalAtom(a) = <<x>>
      BY <2>2, AtomsComeBack
    <3> QED
      BY <3>1, SingletonSeq
  <2> QED
    BY <2>1, <2>2
<1>2. MarshalArgs(argv) = FlatMap(MarshalledBy(Atom), argv)
  BY MarshalWithoutReferences
<1>3. MarshalArgs(argv) \in Seq(Value)
  BY <1>1, <1>2, FlatMapTyped
<1>4. ASSUME NEW a \in Atom
      PROVE  KeptBy(Kept, Atom)[a] = FlatMap(Unmarshal, MarshalledBy(Atom)[a])
  <2>1. MarshalledBy(Atom)[a] = MarshalAtom(a)
    BY DEF MarshalledBy
  <2>2. CASE Is("pointer", a)
    <3>1. MarshalAtom(a) = <<>> /\ KeptBy(Kept, Atom)[a] = <<>>
      BY <2>2, AtomsComeBack DEF KeptBy, Kept
    <3> QED
      BY <2>1, <3>1, FlatMapEmpty
  <2>3. CASE ~Is("pointer", a)
    <3>1. PICK x \in Value : MarshalAtom(a) = <<x>> /\ Unmarshal[x] = <<a>>
      BY <2>3, AtomsComeBack
    <3>2. FlatMap(Unmarshal, <<x>>) = <<a>>
      BY <3>1, UnmarshalIs, FlatMapOne
    <3>3. KeptBy(Kept, Atom)[a] = <<a>>
      BY <2>3 DEF KeptBy, Kept
    <3> QED
      BY <2>1, <3>1, <3>2, <3>3
  <2> QED
    BY <2>2, <2>3
<1>5. FlatMap(Unmarshal, FlatMap(MarshalledBy(Atom), argv)) = FlatMap(KeptBy(Kept, Atom), argv)
  <2> DEFINE R == SentAtom \cup Atom
  <2>1. Maps(Unmarshal, Value, Seq(R))
    <3>1. \A t : t \in Seq(SentAtom) => t \in Seq(R)
      BY SeqDef
    <3> QED
      BY <3>1, UnmarshalIs DEF Maps
  <2>2. Maps(KeptBy(Kept, Atom), Atom, Seq(R))
    <3>1. \A t : t \in Seq(Atom) => t \in Seq(R)
      BY SeqDef
    <3>2. Maps(KeptBy(Kept, Atom), Atom, Seq(Atom))
      BY OnlyIs
    <3> QED
      BY <3>1, <3>2 DEF Maps
  <2>3. \A i \in DOMAIN argv : argv[i] \in Atom
    BY LenProperties, ElementOfSeq
  <2>4. \A i \in DOMAIN argv : KeptBy(Kept, Atom)[argv[i]] = FlatMap(Unmarshal, MarshalledBy(Atom)[argv[i]])
    BY <1>4, <2>3
  <2> DEFINE h == MarshalledBy(Atom)
             both == KeptBy(Kept, Atom)
  <2>5. Maps(h, Atom, Seq(Value)) /\ Maps(both, Atom, Seq(R))
        /\ \A i \in DOMAIN argv : both[argv[i]] = FlatMap(Unmarshal, h[argv[i]])
    BY <1>1, <2>2, <2>4
  <2> HIDE DEF R, h, both
  <2>6. FlatMap(Unmarshal, FlatMap(h, argv)) = FlatMap(both, argv)
    BY <2>1, <2>5, FlatMapTwice
  <2> QED
    BY <2>6 DEF h, both
<1>6. UnmarshalArgs(MarshalArgs(argv)) = FlatMap(Unmarshal, MarshalArgs(argv))
  BY <1>3, LeavesAreSpelled
<1>7. Only(Kept, argv) = FlatMap(KeptBy(Kept, Atom), argv)
  BY OnlyIs
<1> QED
  BY <1>2, <1>3, <1>5, <1>6, <1>7

ArrivedValue(A) == PlainValue(A) \cup {MarshalObject(a) : a \in A}

LEMMA PiecesTyped ==
  ASSUME NEW A, NEW argv \in Seq(A)
  PROVE  /\ Pieces(argv) \in Seq(Seq(ArrivedValue(A)))
         /\ Len(Pieces(argv)) = Len(argv)
         /\ \A i \in 1 .. Len(argv) : Pieces(argv)[i] = Piece(argv, i)
<1> DEFINE n == Len(argv)
           R == ArrivedValue(A)
           p == Pieces(argv)
<1>1. n \in Nat /\ DOMAIN argv = 1 .. n /\ \A i \in 1 .. n : argv[i] \in A
  BY LenProperties, ElementOfSeq
<1>2. ASSUME NEW i \in 1 .. n PROVE Piece(argv, i) \in Seq(R)
  <2>1. CASE ReferenceAt(argv, i)
    <3>1. i + 1 \in 1 .. n
      BY <1>1, <2>1 DEF ReferenceAt
    <3>2. MarshalObject(argv[i + 1]) \in R
      BY <1>1, <3>1 DEF ArrivedValue
    <3> DEFINE x == MarshalObject(argv[i + 1])
    <3>3. Piece(argv, i) = <<x>>
      BY <2>1 DEF Piece
    <3> HIDE DEF x, R
    <3> QED
      BY <3>2, <3>3, SingletonSeq DEF x
  <2>2. CASE ~ReferenceAt(argv, i)
    <3>1. MarshalAtom(argv[i]) \in Seq(PlainValue(A))
      BY <1>1, MarshalledTyped DEF Maps, MarshalledBy
    <3>2. \A t : t \in Seq(PlainValue(A)) => t \in Seq(R)
      BY SeqDef DEF ArrivedValue
    <3> QED
      BY <2>2, <3>1, <3>2 DEF Piece
  <2> QED
    BY <2>1, <2>2
<1>3. p = [i \in 1 .. n |-> Piece(argv, i)]
  BY <1>1 DEF Pieces
<1> HIDE DEF n, R, p
<1>4. p \in [1 .. n -> Seq(R)] /\ \A i \in 1 .. n : p[i] = Piece(argv, i)
  BY <1>2, <1>3
<1>5. p \in Seq(Seq(R))
  BY <1>1, <1>4, SeqDef
<1>6. Len(p) = n
  BY <1>1, <1>4, <1>5, LenProperties
<1> QED
  BY <1>4, <1>5, <1>6 DEF n, R, p

\* Only pointers give no value.
LEMMA NothingMarshalled ==
  ASSUME 1 \in 1 .. MaxArgs, NEW argv \in Seq(Atom), MarshalArgs(argv) = <<>>
  PROVE  Only(Kept, argv) = <<>>
<1>1. Len(argv) \in Nat /\ DOMAIN argv = 1 .. Len(argv) /\ \A i \in 1 .. Len(argv) : argv[i] \in Atom
  BY LenProperties, ElementOfSeq
<1>2. \A i \in 1 .. Len(argv) : Piece(argv, i) = <<>>
  <2> DEFINE p == Pieces(argv)
  <2>1. /\ p \in Seq(Seq(ArrivedValue(Atom))) /\ Len(p) = Len(argv)
        /\ \A i \in 1 .. Len(argv) : p[i] = Piece(argv, i)
    BY PiecesTyped
  <2>2. FlattenSeq(p) = <<>>
    BY MarshalIsPieces
  <2> HIDE DEF p
  <2>3. \A i \in 1 .. Len(p) : p[i] = <<>>
    BY <2>1, <2>2, FlattenNothing
  <2> QED
    BY <2>1, <2>3
<1>3. ASSUME NEW i \in 1 .. Len(argv) PROVE KeptBy(Kept, Atom)[argv[i]] = <<>>
  <2>1. argv[i] \in Atom /\ Piece(argv, i) = <<>>
    BY <1>1, <1>2
  <2>2. MarshalAtom(argv[i]) = <<>>
    <3>1. <<MarshalObject(argv[i + 1])>> # <<>>
      OBVIOUS
    <3> QED
      BY <2>1, <3>1 DEF Piece
  <2>3. Is("pointer", argv[i])
    <3>1. \A x : <<x>> # <<>>
      OBVIOUS
    <3> QED
      BY <2>1, <2>2, <3>1, AtomsComeBack
  <2> QED
    BY <2>1, <2>3 DEF KeptBy, Kept
<1> DEFINE g == KeptBy(Kept, Atom)
<1>4. Maps(g, Atom, Seq(Atom)) /\ Only(Kept, argv) = FlatMap(g, argv)
  BY OnlyIs
<1>5. \A i \in 1 .. Len(argv) : g[argv[i]] = <<>>
  BY <1>3
<1> HIDE DEF g
<1> DEFINE m == Map(g, argv)
<1>6. m \in Seq(Seq(Atom)) /\ Len(m) = Len(argv) /\ \A i \in 1 .. Len(argv) : m[i] = g[argv[i]]
  BY <1>4, MapIs
<1>7. FlatMap(g, argv) = FlattenSeq(m)
  BY DEF FlatMap
<1> HIDE DEF m
<1>8. FlattenSeq(m) = <<>>
  BY <1>5, <1>6, FlattenNothing
<1> QED
  BY <1>4, <1>7, <1>8

\* One value stands for itself and several for their array.
LEMMA PropertyIsUnmarshalled ==
  ASSUME NEW values \in Seq(Value), values # <<>>, PropertyValue(values) \in Value
  PROVE  UnmarshalArgs(<<PropertyValue(values)>>) = UnmarshalArgs(values)
<1>1. Len(values) \in Nat /\ Len(values) # 0
  BY EmptySeq, LenProperties
<1>2. CASE Len(values) > 1
  <2> DEFINE x == [array |-> values]
  <2>1. PropertyValue(values) = x
    BY <1>2 DEF PropertyValue
  <2>2. Is("array", x) /\ x.array = values
    BY DEF Is
  <2> HIDE DEF x
  <2>3. Unmarshal[x] = FlatMap(Unmarshal, values)
    BY <2>1, <2>2, UnmarshalIs DEF Opened
  <2>4. <<x>> \in Seq(Value)
    BY <2>1, SingletonSeq
  <2>5. UnmarshalArgs(<<x>>) = FlatMap(Unmarshal, <<x>>) /\ UnmarshalArgs(values) = FlatMap(Unmarshal, values)
    BY <2>4, LeavesAreSpelled
  <2>6. FlatMap(Unmarshal, <<x>>) = Unmarshal[x]
    BY <2>1, UnmarshalIs, FlatMapOne
  <2> QED
    BY <2>1, <2>3, <2>5, <2>6
<1>3. CASE ~(Len(values) > 1)
  <2>1. Len(values) = 1
    <3> DEFINE n == Len(values)
    <3>1. n \in Nat /\ n # 0 /\ ~(n > 1)
      BY <1>1, <1>3
    <3> HIDE DEF n
    <3>2. n = 1
      BY <3>1
    <3> QED
      BY <3>2 DEF n
  <2>1a. values[1] \in Value
    BY HeadAndTail
  <2> DEFINE x == values[1]
             t == <<x>>
  <2>2. t \in Seq(Value) /\ Len(t) = 1 /\ t[1] = x
    BY <2>1a, SingletonSeq
  <2> HIDE DEF t
  <2>3. t = values
    BY <2>1, <2>2, SeqEqual
  <2> QED
    BY <1>3, <2>3 DEF PropertyValue, t
<1> QED
  BY <1>2, <1>3

\* For any atoms and any number of them: getprop answers with what setprop was
\* given, the pointers left out.
THEOREM PropertiesAlwaysComeBack == Spec => []PropertiesComeBack
<1>1. IInv => PropertiesComeBack
  <2> SUFFICES ASSUME IInv PROVE PropertiesComeBack
    OBVIOUS
  <2>1. ASSUME phase \in ByProperty
        PROVE  /\ given \in Seq(Atom) /\ 1 \in 1 .. MaxArgs
               /\ MarshalArgs(given) # <<>> => PropertyValue(MarshalArgs(given)) \in Value
    <3>1. PICK n \in 1 .. MaxArgs : given \in [1 .. n -> Atom]
      BY <2>1 DEF IInv
    <3>2. n \in Nat /\ 1 \in 1 .. MaxArgs
      BY <3>1, MarshallingAssumption
    <3>3. given \in Seq(Atom)
      BY <3>1, <3>2, SeqDef
    <3> QED
      BY <3>1, <3>2, <3>3, PropertyAssumption
  <2>2. ASSUME phase = "undefined" PROVE Only(Kept, given) = <<>>
    BY <2>1, <2>2, NothingMarshalled DEF IInv, ByProperty
  <2>3. ASSUME phase = "answered", \A i \in DOMAIN given : ~ReferenceAt(given, i)
        PROVE  message = ToMessage(Only(Kept, given))
    <3> DEFINE values == MarshalArgs(given)
    <3>1. given \in Seq(Atom) /\ 1 \in 1 .. MaxArgs /\ values # <<>> /\ PropertyValue(values) \in Value
      BY <2>1, <2>3 DEF IInv, ByProperty
    <3>2. message = ToMessage(UnmarshalArgs(<<PropertyValue(values)>>))
      BY <2>3 DEF IInv
    <3>3. values \in Seq(Value) /\ UnmarshalArgs(values) = Only(Kept, given)
      BY <2>3, <3>1, KeptComesBack
    <3> HIDE DEF values
    <3>4. UnmarshalArgs(<<PropertyValue(values)>>) = UnmarshalArgs(values)
      BY <3>1, <3>3, PropertyIsUnmarshalled
    <3> QED
      BY <3>2, <3>3, <3>4
  <2>4. PropertiesComeBack <=>
          /\ phase = "undefined" => Only(Kept, given) = <<>>
          /\ (phase = "answered" /\ \A i \in DOMAIN given : ~ReferenceAt(given, i))
               => message = ToMessage(Only(Kept, given))
    BY Zenon DEF PropertiesComeBack, Kept
  <2> QED
    BY <2>2, <2>3, <2>4
<1> QED
  BY <1>1, SpecIInv, PTL

-----------------------------------------------------------------------------
(* What the first leaf makes of the message.                               *)

LEMMA SpellingIs ==
  ASSUME NEW v \in Leaf
  PROVE  /\ Is("number", v) => Spelling[v] = <<Float(v.number)>>
         /\ Is("string", v) => Spelling[v] = <<Symbol(v.string)>>
         /\ Is("object", v) => Spelling[v] = Reference(v.object)
<1>1. Spelling[v] = IF Is("number", v) THEN <<Float(v.number)>> ELSE UnmarshalString(v)
  BY DEF Spelling
<1>2. /\ Is("string", v) => ~Is("number", v)
      /\ Is("object", v) => ~Is("number", v) /\ ~Is("string", v)
  BY LeafIs DEF Is
<1> QED
  BY <1>1, <1>2 DEF UnmarshalString

\* An address belongs to one object, and "jsobject" is none.
LEMMA Addresses ==
  /\ \A o \in DOMAIN AddressOf : ObjectsAt(Symbol(AddressOf[o])) = {o}
  /\ \A t : t \notin Range(AddressOf) => ObjectsAt(Symbol(t)) = {}
  /\ ObjectsAt(Symbol("jsobject")) = {}
  /\ \A atom : ~Is("symbol", atom) => ObjectsAt(atom) = {}
<1>1. \A t, u : Symbol(t) = Symbol(u) => t = u
  BY DEF Symbol
<1>2. \A o \in DOMAIN AddressOf : AddressOf[o] \in Range(AddressOf)
  BY DEF Range
<1>3. \A o, p \in DOMAIN AddressOf : AddressOf[o] = AddressOf[p] => o = p
  BY MarshallingAssumption DEF IsInjective
<1>4. ASSUME NEW t, t \notin Range(AddressOf) PROVE ObjectsAt(Symbol(t)) = {}
  BY <1>1, <1>2, <1>4 DEF ObjectsAt
<1>5. "jsobject" \notin Range(AddressOf)
  BY MarshallingAssumption
<1>6. ASSUME NEW o \in DOMAIN AddressOf PROVE ObjectsAt(Symbol(AddressOf[o])) = {o}
  BY <1>1, <1>3 DEF ObjectsAt
<1>7. ASSUME NEW atom, ~Is("symbol", atom) PROVE ObjectsAt(atom) = {}
  <2>1. \A t : Is("symbol", Symbol(t))
    BY DEF Symbol, Is
  <2> QED
    BY <1>7, <2>1 DEF ObjectsAt
<1> QED
  BY <1>4, <1>5, <1>6, <1>7

\* Leaves whose atoms begin with no address.
SafeLeaf == {v \in Leaf : Is("string", v) => v.string \notin Range(AddressOf)}

LEMMA FirstOfReference ==
  ASSUME NEW o \in DOMAIN AddressOf
  PROVE  Reference(o) # <<>> /\ Reference(o)[1] = Symbol("jsobject")
<1>1. ASSUME NEW x, NEW y
      PROVE  <<x>> # <<>> /\ <<x>>[1] = x /\ <<x, y>> # <<>> /\ <<x, y>>[1] = x
  OBVIOUS
<1>2. Reference(o) = <<Symbol("jsobject")>> \/ Reference(o) = <<Symbol("jsobject"), Symbol(AddressOf[o])>>
  BY DEF Reference
<1> QED
  BY <1>1, <1>2

LEMMA FirstOfSpelling ==
  ASSUME NEW v \in SafeLeaf
  PROVE  /\ Spelling[v] \in Seq(SentAtom)
         /\ Spelling[v] # <<>>
         /\ ObjectsAt(Spelling[v][1]) = {}
<1>1. v \in Leaf
  BY DEF SafeLeaf
<1>2. CASE Is("number", v)
  <2>1. ~Is("symbol", Float(v.number))
    BY DEF Is, Float
  <2>2. Spelling[v] = <<Float(v.number)>>
    BY <1>1, <1>2, SpellingIs
  <2>3. Spelling[v] # <<>> /\ Spelling[v][1] = Float(v.number)
    BY <2>2
  <2> QED
    BY <1>1, <2>1, <2>3, Addresses, SpellingTyped DEF Maps
<1>3. CASE Is("string", v)
  <2>1. Spelling[v] = <<Symbol(v.string)>> /\ v.string \notin Range(AddressOf)
    BY <1>1, <1>3, SpellingIs DEF SafeLeaf
  <2>2. Spelling[v] # <<>> /\ Spelling[v][1] = Symbol(v.string)
    BY <2>1
  <2> QED
    BY <1>1, <2>1, <2>2, Addresses, SpellingTyped DEF Maps
<1>4. CASE Is("object", v)
  <2>1. Spelling[v] = Reference(v.object) /\ v.object \in DOMAIN AddressOf
    BY <1>1, <1>4, SpellingIs, LeafIs DEF Is
  <2>2. Spelling[v] # <<>> /\ Spelling[v][1] = Symbol("jsobject")
    BY <2>1, FirstOfReference
  <2> QED
    BY <1>1, <2>2, Addresses, SpellingTyped DEF Maps
<1> QED
  BY <1>1, <1>2, <1>3, <1>4 DEF Leaf

Spelled(s) == FlatMap(Spelling, s)

LEMMA SpelledCons ==
  ASSUME NEW x \in Leaf, NEW r \in Seq(Leaf)
  PROVE  /\ Spelled(<<x>> \o r) = Spelling[x] \o Spelled(r)
         /\ Spelling[x] \in Seq(SentAtom)
         /\ Spelled(r) \in Seq(SentAtom)
<1>1. Maps(Spelling, Leaf, Seq(SentAtom))
  BY SpellingTyped
<1>2. Spelling[x] \in Seq(SentAtom)
  BY SpellingTyped DEF Maps
<1>3. FlatMap(Spelling, r) \in Seq(SentAtom)
  BY SpellingTyped, FlatMapTyped
<1> DEFINE one == <<x>>
<1>4. one \in Seq(Leaf)
  BY SingletonSeq
<1>5. FlatMap(Spelling, one) = Spelling[x]
  BY <1>1, FlatMapOne
<1> HIDE DEF one
<1>6. FlatMap(Spelling, one \o r) = FlatMap(Spelling, one) \o FlatMap(Spelling, r)
  BY <1>1, <1>4, FlatMapConcat
<1> QED
  BY <1>2, <1>3, <1>5, <1>6 DEF Spelled, one

\* A message, taken apart behind its first leaf.
LEMMA SpelledFirst ==
  ASSUME NEW s \in Seq(Leaf), s # <<>>
  PROVE  /\ s[1] \in Leaf /\ Tail(s) \in Seq(Leaf)
         /\ Spelled(s) = Spelling[s[1]] \o Spelled(Tail(s))
         /\ Spelling[s[1]] \in Seq(SentAtom)
         /\ Spelled(Tail(s)) \in Seq(SentAtom)
<1>1. Tail(s) \in Seq(Leaf) /\ s[1] \in Leaf /\ s = <<s[1]>> \o Tail(s)
  BY HeadAndTail
<1> DEFINE x == s[1]
           r == Tail(s)
<1>2. x \in Leaf /\ r \in Seq(Leaf) /\ s = <<x>> \o r
  BY <1>1
<1> HIDE DEF x, r
<1>3. /\ Spelled(<<x>> \o r) = Spelling[x] \o Spelled(r)
      /\ Spelling[x] \in Seq(SentAtom) /\ Spelled(r) \in Seq(SentAtom)
  BY <1>2, SpelledCons
<1> QED
  BY <1>2, <1>3 DEF x, r

LEMMA FirstOfSpelled ==
  ASSUME NEW s \in Seq(SafeLeaf), s # <<>>
  PROVE  /\ Spelled(s) # <<>>
         /\ ObjectsAt(Spelled(s)[1]) = {}
<1>1. s[1] \in SafeLeaf
  BY HeadAndTail
<1>2. s \in Seq(Leaf)
  <2>1. SafeLeaf \subseteq Leaf
    BY DEF SafeLeaf
  <2> QED
    BY <2>1, SeqDef
<1> DEFINE a == Spelling[s[1]]
           b == Spelled(Tail(s))
<1>3. a \in Seq(SentAtom) /\ a # <<>> /\ ObjectsAt(a[1]) = {}
  BY <1>1, FirstOfSpelling
<1>4. b \in Seq(SentAtom) /\ Spelled(s) = a \o b
  BY <1>2, SpelledFirst
<1> HIDE DEF a, b
<1>5. Len(a) \in Nat /\ Len(a) # 0 /\ Len(b) \in Nat
  BY <1>3, <1>4, EmptySeq, LenProperties
<1>6. (a \o b)[1] = a[1] /\ Len(a \o b) = Len(a) + Len(b) /\ a \o b \in Seq(SentAtom)
  <2>1. 1 \in 1 .. Len(a) + Len(b) /\ 1 <= Len(a)
    BY <1>5
  <2> QED
    BY <1>3, <1>4, <2>1, ConcatProperties
<1>7. a \o b # <<>>
  BY <1>5, <1>6, EmptySeq
<1> QED
  BY <1>3, <1>4, <1>6, <1>7

LEMMA SymbolFirst ==
  ASSUME NEW t, Symbol(t) \in SentAtom, NEW r \in Seq(SentAtom)
  PROVE  /\ ToMessage(<<Symbol(t)>> \o r) = [selector |-> t, argv |-> r]
         /\ <<Symbol(t)>> \o r # <<>>
<1> DEFINE x == Symbol(t)
           s == <<x>> \o r
<1>1. Is("symbol", x) /\ x.symbol = t
  BY DEF Symbol, Is
<1>1a. x \in SentAtom
  OBVIOUS
<1> HIDE DEF x
<1>2. s \in Seq(SentAtom) /\ s # <<>> /\ s[1] = x /\ Tail(s) = r
  BY <1>1a, FirstThenRest
<1> HIDE DEF s
<1>3. ToMessage(s) = [selector |-> s[1].symbol, argv |-> Tail(s)]
  BY <1>1, <1>2, MessageIs
<1> QED
  BY <1>1, <1>2, <1>3 DEF s, x

-----------------------------------------------------------------------------
(* Objects.                                                                *)

\* Two messages are marshalled one behind the other, unless the end of the
\* first and the beginning of the second are a reference.
LEMMA PieceOfConcat ==
  ASSUME NEW A, NEW a \in Seq(A), NEW b \in Seq(A),
         a # <<>> /\ b # <<>> /\ a[Len(a)] = Symbol("jsobject") => ObjectsAt(b[1]) = {},
         NEW i \in 1 .. Len(a) + Len(b)
  PROVE  Piece(a \o b, i) = IF i <= Len(a) THEN Piece(a, i) ELSE Piece(b, i - Len(a))
<1> DEFINE n == Len(a)
           k == Len(b)
           ab == a \o b
<1>1. n \in Nat /\ k \in Nat
  BY LenProperties
<1>2. ab \in Seq(A) /\ Len(ab) = n + k /\ \A j \in 1 .. n + k : ab[j] = IF j <= n THEN a[j] ELSE b[j - n]
  BY ConcatProperties
<1>3. (n # 0 => a # <<>>) /\ (k # 0 => b # <<>>)
  BY EmptySeq
<1>3a. i \in 1 .. n + k /\ (a # <<>> /\ b # <<>> /\ a[n] = Symbol("jsobject") => ObjectsAt(b[1]) = {})
  OBVIOUS
<1> HIDE DEF n, k, ab
<1>4. CASE i < n
  <2>1. i \in Int /\ i <= n /\ i + 1 <= n /\ i + 1 \in 1 .. n + k /\ i < n + k
    BY <1>1, <1>3a, <1>4
  <2>2. ab[i] = a[i] /\ ab[i + 1] = a[i + 1]
    BY <1>2, <1>3a, <2>1
  <2>3. ReferenceAt(ab, i) <=> ReferenceAt(a, i)
    BY <1>2, <1>4, <2>1, <2>2 DEF ReferenceAt, n
  <2>4. Piece(ab, i) = Piece(a, i)
    BY <2>2, <2>3 DEF Piece
  <2> QED
    BY <2>1, <2>4 DEF ab, n
<1>5. CASE i = n
  <2>1. i \in Int /\ i <= n /\ i \in 1 .. n + k /\ n # 0 /\ ~(i < n)
    BY <1>1, <1>3a, <1>5
  <2>2. ab[i] = a[i]
    BY <1>2, <2>1
  <2>3. ~ReferenceAt(a, i)
    BY <2>1 DEF ReferenceAt, n
  <2>4. ~ReferenceAt(ab, i)
    <3> SUFFICES ASSUME ReferenceAt(ab, i) PROVE FALSE
      OBVIOUS
    <3>1. a[i] = Symbol("jsobject") /\ i < n + k /\ ObjectsAt(ab[i + 1]) # {}
      BY <1>2, <2>2 DEF ReferenceAt
    <3>2. i + 1 \in 1 .. n + k /\ ~(i + 1 <= n) /\ (i + 1) - n = 1 /\ k # 0
      BY <1>1, <1>5, <2>1, <3>1
    <3>3. ab[i + 1] = b[1]
      BY <1>2, <3>2
    <3> QED
      BY <1>3, <1>3a, <1>5, <2>1, <3>1, <3>2, <3>3
  <2>5. Piece(ab, i) = Piece(a, i)
    BY <2>2, <2>3, <2>4 DEF Piece
  <2> QED
    BY <2>1, <2>5 DEF ab, n
<1>6. CASE i > n
  <2> DEFINE j == i - n
  <2>1. j \in Int /\ i \in Int /\ ~(i <= n) /\ i \in 1 .. n + k /\ (i < n + k <=> j < k)
    BY <1>1, <1>3a, <1>6
  <2>2. ab[i] = b[j]
    BY <1>2, <2>1
  <2>3. ASSUME j < k PROVE ab[i + 1] = b[j + 1]
    <3>1. i + 1 \in 1 .. n + k /\ ~(i + 1 <= n) /\ (i + 1) - n = j + 1
      BY <1>1, <1>3a, <1>6, <2>3
    <3> QED
      BY <1>2, <3>1
  <2> HIDE DEF j
  <2>4. ReferenceAt(ab, i) <=> ReferenceAt(b, j)
    BY <1>2, <2>1, <2>2, <2>3 DEF ReferenceAt, k
  <2>5. ReferenceAt(b, j) => j < k
    BY DEF ReferenceAt, k
  <2>6. Piece(ab, i) = Piece(b, j)
    BY <2>2, <2>3, <2>4, <2>5 DEF Piece
  <2> QED
    BY <2>1, <2>6 DEF ab, n, j
<1> QED
  BY <1>1, <1>3a, <1>4, <1>5, <1>6

LEMMA MarshalConcat ==
  ASSUME NEW A, NEW a \in Seq(A), NEW b \in Seq(A),
         a # <<>> /\ b # <<>> /\ a[Len(a)] = Symbol("jsobject") => ObjectsAt(b[1]) = {}
  PROVE  MarshalArgs(a \o b) = MarshalArgs(a) \o MarshalArgs(b)
<1> DEFINE R == ArrivedValue(A)
           n == Len(a)
           k == Len(b)
           ab == a \o b
           p == Pieces(a)
           q == Pieces(b)
           pq == Pieces(ab)
<1>1. n \in Nat /\ k \in Nat
  BY LenProperties
<1>2. ab \in Seq(A) /\ Len(ab) = n + k
  BY ConcatProperties
<1>3. \A i \in 1 .. n + k : Piece(ab, i) = IF i <= n THEN Piece(a, i) ELSE Piece(b, i - n)
  BY PieceOfConcat
<1>4. p \in Seq(Seq(R)) /\ Len(p) = n /\ \A i \in 1 .. n : p[i] = Piece(a, i)
  BY PiecesTyped
<1>5. q \in Seq(Seq(R)) /\ Len(q) = k /\ \A i \in 1 .. k : q[i] = Piece(b, i)
  BY PiecesTyped
<1> HIDE DEF ab
<1>6. pq \in Seq(Seq(R)) /\ Len(pq) = n + k /\ \A i \in 1 .. n + k : pq[i] = Piece(ab, i)
  <2>1. pq \in Seq(Seq(R)) /\ Len(pq) = Len(ab) /\ \A i \in 1 .. Len(ab) : pq[i] = Piece(ab, i)
    BY <1>2, PiecesTyped
  <2> QED
    BY <1>2, <2>1
<1>7. MarshalArgs(a) = FlattenSeq(p) /\ MarshalArgs(b) = FlattenSeq(q) /\ MarshalArgs(ab) = FlattenSeq(pq)
  BY MarshalIsPieces
<1> HIDE DEF R, p, q, pq, n, k
<1>8. p \o q \in Seq(Seq(R)) /\ Len(p \o q) = n + k
      /\ \A i \in 1 .. n + k : (p \o q)[i] = IF i <= n THEN p[i] ELSE q[i - n]
  <2>1. p \o q \in Seq(Seq(R)) /\ Len(p \o q) = Len(p) + Len(q)
        /\ \A i \in 1 .. Len(p) + Len(q) : (p \o q)[i] = IF i <= Len(p) THEN p[i] ELSE q[i - Len(p)]
    BY <1>4, <1>5, ConcatProperties
  <2> QED
    BY <1>4, <1>5, <2>1
<1>9. \A i \in 1 .. n + k : (p \o q)[i] = pq[i]
  <2> SUFFICES ASSUME NEW i \in 1 .. n + k PROVE (p \o q)[i] = pq[i]
    OBVIOUS
  <2>1. CASE i <= n
    <3>1. i \in 1 .. n
      BY <1>1, <2>1
    <3> QED
      BY <1>3, <1>4, <1>6, <1>8, <2>1, <3>1
  <2>2. CASE ~(i <= n)
    <3>1. i - n \in 1 .. k
      BY <1>1, <2>2
    <3> QED
      BY <1>3, <1>5, <1>6, <1>8, <2>2, <3>1
  <2> QED
    BY <2>1, <2>2
<1> DEFINE pp == p \o q
<1>10. pp \in Seq(Seq(R)) /\ Len(pp) = Len(pq) /\ \A i \in 1 .. Len(pp) : pp[i] = pq[i]
  BY <1>6, <1>8, <1>9
<1>11. FlattenSeq(pp) = FlattenSeq(p) \o FlattenSeq(q)
  BY <1>4, <1>5, FlattenConcat
<1> HIDE DEF pp
<1>12. pp = pq
  BY <1>6, <1>10, SeqEqual
<1> QED
  BY <1>7, <1>11, <1>12 DEF ab

LEMMA MarshalOne ==
  ASSUME NEW atom
  PROVE  MarshalArgs(<<atom>>) = MarshalAtom(atom)
<1> DEFINE A == {atom}
           one == <<atom>>
           g == MarshalledBy(A)
<1>1. one \in Seq(A) /\ Len(one) = 1 /\ DOMAIN one = 1 .. 1 /\ atom \in A
  OBVIOUS
<1>2. g[atom] = MarshalAtom(atom)
  BY DEF MarshalledBy
<1>3. Maps(g, A, Seq(PlainValue(A)))
  BY MarshalledTyped
<1> HIDE DEF one, A
<1>4. \A i \in DOMAIN one : ~ReferenceAt(one, i)
  BY <1>1 DEF ReferenceAt
<1>5. MarshalArgs(one) = FlatMap(g, one)
  BY <1>1, <1>4, MarshalWithoutReferences
<1> HIDE DEF g
<1>6. FlatMap(g, <<atom>>) = g[atom]
  BY <1>1, <1>3, FlatMapOne
<1> QED
  BY <1>2, <1>5, <1>6 DEF one

\* The object takes the place of "jsobject" and its address is still there.
LEMMA ReferenceMarshalled ==
  ASSUME NEW o \in DOMAIN AddressOf
  PROVE  MarshalArgs(<<Symbol("jsobject"), Symbol(AddressOf[o])>>)
           = <<[object |-> o], [string |-> AddressOf[o]]>>
<1> DEFINE js == Symbol("jsobject")
           ad == Symbol(AddressOf[o])
           A == {js, ad}
           argv == <<js, ad>>
           p == Pieces(argv)
           R == ArrivedValue(A)
           x == [object |-> o]
           y == [string |-> AddressOf[o]]
<1>1. argv \in Seq(A) /\ Len(argv) = 2 /\ argv[1] = js /\ argv[2] = ad
  OBVIOUS
<1>2. ObjectsAt(ad) = {o} /\ MarshalObject(ad) = x
  <2>1. ObjectsAt(ad) = {o}
    BY Addresses
  <2> QED
    BY <2>1 DEF MarshalObject
<1>3. MarshalAtom(ad) = <<y>>
  <2>1. Is("symbol", ad) /\ ~Is("float", ad) /\ ad.symbol = AddressOf[o]
    BY DEF Symbol, Is
  <2> HIDE DEF ad
  <2> QED
    BY <2>1 DEF MarshalAtom
<1> HIDE DEF x, y, js, ad, A, argv
<1>4. Piece(argv, 1) = <<x>>
  <2>1. ReferenceAt(argv, 1)
    BY <1>1, <1>2 DEF ReferenceAt, js
  <2> QED
    BY <1>1, <1>2, <2>1 DEF Piece
<1>5. Piece(argv, 2) = <<y>>
  <2>1. ~ReferenceAt(argv, 2)
    BY <1>1 DEF ReferenceAt
  <2> QED
    BY <1>1, <1>3, <2>1 DEF Piece
<1> DEFINE one == <<x>>
           two == <<y>>
<1>6. one \o two = <<x, y>>
  BY Pair
<1>7. MarshalArgs(argv) = FlattenSeq(p)
  BY MarshalIsPieces
<1>8. /\ p \in Seq(Seq(R)) /\ Len(p) = Len(argv)
      /\ \A i \in 1 .. Len(argv) : p[i] = Piece(argv, i)
  BY <1>1, PiecesTyped
<1> HIDE DEF p, R, one, two
<1>9. Len(p) = 2 /\ p[1] = one /\ p[2] = two
  BY <1>1, <1>4, <1>5, <1>8 DEF one, two
<1>10. one \in Seq(R) /\ two \in Seq(R)
  <2>1. 1 \in 1 .. Len(p) /\ 2 \in 1 .. Len(p)
    BY <1>9
  <2>2. p[1] \in Seq(R) /\ p[2] \in Seq(R)
    BY <1>8, <2>1, ElementOfSeq
  <2> QED
    BY <1>9, <2>2
<1> DEFINE q == <<one, two>>
<1>11. q \in Seq(Seq(R)) /\ Len(q) = 2 /\ q[1] = one /\ q[2] = two
  BY <1>10
<1>12. FlattenSeq(q) = one \o two
  BY <1>10, FlattenPair
<1> HIDE DEF q
<1>13. q = p
  <2>1. \A i \in 1 .. 2 : q[i] = p[i]
    BY <1>9, <1>11
  <2> QED
    BY <1>8, <1>9, <1>11, <2>1, SeqEqual
<1> QED
  BY <1>6, <1>7, <1>12, <1>13 DEF argv, js, ad, x, y

LEMMA NothingArrives == MarshalArgs(<<>>) = <<>>
<1>1. Pieces(<<>>) = <<>>
  BY DEF Pieces
<1> QED
  BY <1>1, MarshalIsPieces, FlattenEmpty

LEMMA SpelledAppend ==
  ASSUME NEW u \in Seq(SafeLeaf), NEW e \in SafeLeaf
  PROVE  /\ Spelled(Append(u, e)) = Spelled(u) \o Spelling[e]
         /\ Spelled(u) \in Seq(SentAtom)
<1>1. SafeLeaf \subseteq Leaf
  BY DEF SafeLeaf
<1>2. u \in Seq(Leaf) /\ e \in Leaf
  BY <1>1, SeqDef
<1>3. Maps(Spelling, Leaf, Seq(SentAtom))
  BY SpellingTyped
<1> QED
  BY <1>2, <1>3, FlatMapAppend, FlatMapTyped DEF Spelled

-----------------------------------------------------------------------------
(* What arrives.                                                           *)

Arrived == Leaf \cup {[string |-> t] : t \in {"jsobject"} \cup Range(AddressOf)}
Arriving == [v \in SafeLeaf |-> Arrival(v)]

LEMMA MarshalNumber == \A n : MarshalAtom(Float(n)) = <<[number |-> n]>>
<1> SUFFICES ASSUME NEW n PROVE MarshalAtom(Float(n)) = <<[number |-> n]>>
  OBVIOUS
<1> DEFINE a == Float(n)
<1>1. Is("float", a) /\ a.float = n
  BY DEF Is, Float
<1> HIDE DEF a
<1> QED
  BY <1>1 DEF MarshalAtom, a

LEMMA MarshalText == \A t : MarshalAtom(Symbol(t)) = <<[string |-> t]>>
<1> SUFFICES ASSUME NEW t PROVE MarshalAtom(Symbol(t)) = <<[string |-> t]>>
  OBVIOUS
<1> DEFINE a == Symbol(t)
<1>1. Is("symbol", a) /\ ~Is("float", a) /\ a.symbol = t
  BY DEF Is, Symbol
<1> HIDE DEF a
<1> QED
  BY <1>1 DEF MarshalAtom, a

\* The three kinds of a leaf, and of an object the two.
SentLeaf(v) == /\ v \in SentObjects
               /\ v.object \in DOMAIN AddressOf /\ v = [object |-> v.object]
               /\ Spelling[v] = <<Symbol("jsobject"), Symbol(AddressOf[v.object])>>
               /\ Arrival(v) = <<v, [string |-> AddressOf[v.object]]>>
OneAtom(v, atom, x) == /\ v \notin SentObjects
                       /\ Spelling[v] = <<atom>>
                       /\ MarshalAtom(atom) = <<x>>
                       /\ Arrival(v) = <<x>>

LEMMA LeafMarshalled ==
  ASSUME NEW v \in SafeLeaf
  PROVE  \/ /\ v = [number |-> v.number] /\ Is("number", v) /\ ~Is("object", v)
            /\ OneAtom(v, Float(v.number), v)
         \/ /\ v = [string |-> v.string] /\ ~Is("number", v) /\ ~Is("object", v)
            /\ OneAtom(v, Symbol(v.string), v)
         \/ /\ Is("object", v) /\ ~Is("number", v)
            /\ OneAtom(v, Symbol("jsobject"), [string |-> "jsobject"])
         \/ Is("object", v) /\ ~Is("number", v) /\ SentLeaf(v)
<1>1. v \in Leaf
  BY DEF SafeLeaf
<1>1a. \A w \in SentObjects : Is("object", w)
  BY DEF SentObjects, Is
<1>2. CASE v = [number |-> v.number] /\ Is("number", v)
  <2>1. Spelling[v] = <<Float(v.number)>>
    BY <1>1, <1>2, SpellingIs
  <2>2. ~Is("object", v)
    BY <1>2 DEF Is
  <2>3. v \notin SentObjects
    BY <1>1a, <2>2
  <2>4. Arrival(v) = <<v>>
    BY <2>2, <2>3 DEF Arrival
  <2>5. MarshalAtom(Float(v.number)) = <<v>>
    BY <1>2, MarshalNumber
  <2> QED
    BY <1>2, <2>1, <2>2, <2>3, <2>4, <2>5 DEF OneAtom
<1>3. CASE v = [string |-> v.string] /\ ~Is("number", v) /\ Is("string", v)
  <2>1. Spelling[v] = <<Symbol(v.string)>>
    BY <1>1, <1>3, SpellingIs
  <2>2. ~Is("object", v)
    BY <1>3 DEF Is
  <2>3. v \notin SentObjects
    BY <1>1a, <2>2
  <2>4. Arrival(v) = <<v>>
    BY <2>2, <2>3 DEF Arrival
  <2>5. MarshalAtom(Symbol(v.string)) = <<v>>
    BY <1>3, MarshalText
  <2> QED
    BY <1>3, <2>1, <2>2, <2>3, <2>4, <2>5 DEF OneAtom
<1>4. CASE /\ v = [object |-> v.object] /\ Is("object", v) /\ ~Is("number", v) /\ ~Is("string", v)
           /\ v.object \in DOMAIN AddressOf
  <2>1. Spelling[v] = Reference(v.object)
    BY <1>1, <1>4, SpellingIs
  <2>2. v \in SentObjects <=> v.object \notin High
    <3>1. ASSUME NEW o, v = [object |-> o] PROVE o = v.object
      BY <3>1
    <3> QED
      BY <1>4, <3>1 DEF SentObjects
  <2>3. CASE v.object \in High
    <3>1. Spelling[v] = <<Symbol("jsobject")>>
      BY <2>1, <2>3 DEF Reference
    <3>2. Arrival(v) = <<[string |-> "jsobject"]>>
      BY <1>4, <2>2, <2>3 DEF Arrival
    <3> QED
      BY <1>4, <2>2, <2>3, <3>1, <3>2, MarshalText DEF OneAtom
  <2>4. CASE v.object \notin High
    <3>1. Spelling[v] = <<Symbol("jsobject"), Symbol(AddressOf[v.object])>>
      BY <2>1, <2>4 DEF Reference
    <3>2. Arrival(v) = <<v, [string |-> AddressOf[v.object]]>>
      BY <2>2, <2>4 DEF Arrival
    <3> QED
      BY <1>4, <2>2, <2>4, <3>1, <3>2 DEF SentLeaf
  <2> QED
    BY <2>3, <2>4
<1> QED
  BY <1>1, <1>2, <1>3, <1>4, LeafIs

\* A leaf arrives as Arrival says.
LEMMA ArrivingIs ==
  /\ Maps(Arriving, SafeLeaf, Seq(Arrived))
  /\ \A v \in SafeLeaf : MarshalArgs(Spelling[v]) = Arriving[v] /\ Arriving[v] # <<>>
<1> SUFFICES ASSUME NEW v \in SafeLeaf
             PROVE  /\ Arrival(v) \in Seq(Arrived) /\ Arrival(v) # <<>>
                    /\ MarshalArgs(Spelling[v]) = Arrival(v)
  BY DEF Arriving, Maps
<1>0. ASSUME NEW x, NEW y PROVE <<x>> # <<>> /\ <<x, y>> # <<>>
  OBVIOUS
<1>1. v \in Arrived
  BY DEF Arrived, SafeLeaf
<1>2. ASSUME NEW atom, NEW x \in Arrived, OneAtom(v, atom, x)
      PROVE  /\ Arrival(v) \in Seq(Arrived) /\ Arrival(v) # <<>>
             /\ MarshalArgs(Spelling[v]) = Arrival(v)
  <2>1. Spelling[v] = <<atom>> /\ MarshalAtom(atom) = <<x>> /\ Arrival(v) = <<x>>
    BY <1>2 DEF OneAtom
  <2>2. <<x>> \in Seq(Arrived)
    BY SingletonSeq
  <2> QED
    BY <1>0, <2>1, <2>2, MarshalOne
<1>3. CASE SentLeaf(v)
  <2> DEFINE y == [string |-> AddressOf[v.object]]
  <2>1. y \in Arrived
    BY <1>3 DEF SentLeaf, Arrived, Range
  <2>2. MarshalArgs(Spelling[v]) = <<v, y>> /\ Arrival(v) = <<v, y>>
    BY <1>3, ReferenceMarshalled DEF SentLeaf
  <2> HIDE DEF y
  <2>3. <<v, y>> \in Seq(Arrived)
    BY <1>1, <2>1
  <2> QED
    BY <1>0, <2>2, <2>3
<1>4. [string |-> "jsobject"] \in Arrived
  BY DEF Arrived
<1> QED
  BY <1>1, <1>2, <1>3, <1>4, LeafMarshalled

LEMMA ArrivalsAre ==
  ASSUME NEW s \in Seq(SafeLeaf)
  PROVE  Arrivals(s) = FlatMap(Arriving, s) /\ Arrivals(s) \in Seq(Arrived)
<1>1. \A i \in DOMAIN s : s[i] \in SafeLeaf
  BY LenProperties, ElementOfSeq
<1>2. Map(Arriving, s) = [i \in DOMAIN s |-> Arrival(s[i])]
  BY <1>1 DEF Map, Arriving
<1>3. Arrivals(s) = FlatMap(Arriving, s)
  BY <1>2 DEF Arrivals, FlatMap
<1> QED
  BY <1>3, ArrivingIs, FlatMapTyped

\* No address is the first atom of a leaf, so no reference begins in one leaf
\* and ends in the next.
LEMMA SafeMarshal ==
  ASSUME NEW s \in Seq(SafeLeaf)
  PROVE  MarshalArgs(Spelled(s)) = Arrivals(s)
<1> DEFINE T == {u \in Seq(SafeLeaf) : MarshalArgs(Spelled(u)) = FlatMap(Arriving, u)}
<1>1. <<>> \in T
  BY NothingArrives, FlatMapEmpty, EmptySeq DEF Spelled
<1>2. ASSUME NEW u \in Seq(SafeLeaf), NEW e \in SafeLeaf, u \in T PROVE Append(u, e) \in T
  <2> DEFINE a == Spelled(u)
             b == Spelling[e]
  <2>1. Spelled(Append(u, e)) = a \o b /\ a \in Seq(SentAtom)
    BY SpelledAppend
  <2>2. b \in Seq(SentAtom) /\ ObjectsAt(b[1]) = {}
    BY FirstOfSpelling
  <2>3. MarshalArgs(a) = FlatMap(Arriving, u) /\ MarshalArgs(b) = Arriving[e]
    BY <1>2, ArrivingIs
  <2>4. FlatMap(Arriving, Append(u, e)) = FlatMap(Arriving, u) \o Arriving[e]
    BY ArrivingIs, FlatMapAppend
  <2>5. Append(u, e) \in Seq(SafeLeaf)
    BY AppendProperties
  <2> HIDE DEF a, b
  <2>6. MarshalArgs(a \o b) = MarshalArgs(a) \o MarshalArgs(b)
    BY <2>1, <2>2, MarshalConcat
  <2> QED
    BY <2>1, <2>3, <2>4, <2>5, <2>6
<1> HIDE DEF T
<1>3. Seq(SafeLeaf) \subseteq T
  BY <1>1, <1>2, SeqInduction
<1> QED
  BY <1>3, ArrivalsAre DEF T

LEMMA FirstOfConcat ==
  ASSUME NEW S, NEW a \in Seq(S), NEW b \in Seq(S), a # <<>>
  PROVE  a \o b # <<>> /\ (a \o b)[1] = a[1]
<1>1. Len(a) \in Nat /\ Len(a) # 0 /\ Len(b) \in Nat
  BY EmptySeq, LenProperties
<1>2. 1 \in 1 .. Len(a) + Len(b) /\ 1 <= Len(a)
  BY <1>1
<1>3. (a \o b)[1] = a[1] /\ Len(a \o b) = Len(a) + Len(b) /\ a \o b \in Seq(S)
  BY <1>2, ConcatProperties
<1> QED
  BY <1>1, <1>3, EmptySeq

\* What is sent and what arrives, taken apart behind the first leaf.
LEMMA SafeFirst ==
  ASSUME NEW s \in Seq(SafeLeaf), s # <<>>
  PROVE  /\ s[1] \in SafeLeaf /\ Tail(s) \in Seq(SafeLeaf)
         /\ Spelled(s) = Spelling[s[1]] \o Spelled(Tail(s))
         /\ Spelled(Tail(s)) \in Seq(SentAtom)
         /\ Spelled(s) # <<>> /\ Spelled(s)[1] = Spelling[s[1]][1]
         /\ Arrivals(s) = Arrival(s[1]) \o Arrivals(Tail(s))
         /\ Arrivals(Tail(s)) \in Seq(Arrived)
         /\ Arrivals(s) # <<>> /\ Arrivals(s)[1] = Arrival(s[1])[1]
<1> DEFINE x == s[1]
           r == Tail(s)
           one == <<x>>
           a == Spelling[x]
           b == Spelled(r)
           c == Arriving[x]
           d == Arrivals(r)
<1>1. x \in SafeLeaf /\ r \in Seq(SafeLeaf) /\ s = one \o r
  BY HeadAndTail
<1>2. s \in Seq(Leaf)
  <2>1. SafeLeaf \subseteq Leaf
    BY DEF SafeLeaf
  <2> QED
    BY <2>1, SeqDef
<1>3. Spelled(s) = a \o b /\ a \in Seq(SentAtom) /\ b \in Seq(SentAtom)
  BY <1>2, SpelledFirst
<1>4. a # <<>>
  BY <1>1, FirstOfSpelling
<1>5. c = Arrival(x) /\ c \in Seq(Arrived) /\ c # <<>>
  BY <1>1, ArrivingIs DEF Arriving, Maps
<1>6. d \in Seq(Arrived) /\ d = FlatMap(Arriving, r)
  BY <1>1, ArrivalsAre
<1>7. Arrivals(s) = c \o d
  <2>1. one \in Seq(SafeLeaf)
    BY <1>1, SingletonSeq
  <2>2. FlatMap(Arriving, one) = c
    BY <1>1, ArrivingIs, FlatMapOne
  <2> HIDE DEF one, r
  <2>3. FlatMap(Arriving, one \o r) = FlatMap(Arriving, one) \o FlatMap(Arriving, r)
    BY <1>1, <2>1, ArrivingIs, FlatMapConcat
  <2>4. Arrivals(s) = FlatMap(Arriving, s)
    BY ArrivalsAre
  <2> QED
    BY <1>1, <1>6, <2>2, <2>3, <2>4
<1> HIDE DEF a, b, c, d
<1>8. a \o b # <<>> /\ (a \o b)[1] = a[1] /\ c \o d # <<>> /\ (c \o d)[1] = c[1]
  BY <1>3, <1>4, <1>5, <1>6, FirstOfConcat
<1> QED
  BY <1>1, <1>3, <1>5, <1>6, <1>7, <1>8 DEF a, b, d

LEMMA NothingLeft ==
  /\ Spelled(<<>>) = <<>>
  /\ Arrivals(<<>>) = <<>>
  /\ <<>> \in Seq(SafeLeaf)
BY FlatMapEmpty, EmptySeq, ArrivalsAre DEF Spelled

\* What Pd's own selectors leave of the atoms arrives as what they leave of the
\* values.
LEMMA SlotMarshalled ==
  ASSUME NEW s \in Seq(SafeLeaf), NEW selector,
         ~Rejected([selector |-> selector, argv |-> Spelled(s)])
  PROVE  MarshalArgs(Slot(selector, Spelled(s))) = LeftBy(selector, Arrivals(s))
<1> DEFINE a == Spelled(s)
           d == Arrivals(s)
           v == s[1]
<1>1. MarshalArgs(a) = d
  BY SafeMarshal
<1>2. s = <<>> => a = <<>> /\ d = <<>>
  BY NothingLeft
<1>3. ASSUME s # <<>>
      PROVE  v \in SafeLeaf /\ a # <<>> /\ a[1] = Spelling[v][1] /\ d # <<>> /\ d[1] = Arrival(v)[1]
  BY <1>3, SafeFirst
<1>4. ASSUME NEW atom, NEW x, OneAtom(v, atom, x), s # <<>>
      PROVE  a[1] = atom /\ d[1] = x /\ MarshalAtom(atom) = <<x>>
  BY <1>3, <1>4 DEF OneAtom
<1>5. ASSUME SentLeaf(v), s # <<>>
      PROVE  a[1] = Symbol("jsobject") /\ d[1] = v
  BY <1>3, <1>5 DEF SentLeaf
<1>6. selector = "float" /\ a # <<>> => Is("float", a[1])
  <2> DEFINE m == [selector |-> selector, argv |-> a]
  <2>1. m.selector = selector /\ m.argv = a /\ ~Rejected(m)
    OBVIOUS
  <2> HIDE DEF m, a
  <2> QED
    BY <2>1 DEF Rejected
<1>7. \A t : ~Is("float", Symbol(t)) /\ Is("symbol", Symbol(t)) /\ ~Is("object", [string |-> t]) /\ ~Is("number", [string |-> t])
  BY DEF Is, Symbol
<1>8. \A n : ~Is("symbol", Float(n))
  BY DEF Is, Float
<1> HIDE DEF a, d, v
<1>9. CASE selector = "bang"
  BY <1>9, NothingArrives DEF Slot, LeftBy
<1>10. CASE selector = "float"
  <2>1. CASE s = <<>>
    <3>1. Slot(selector, a) = <<Float(0)>> /\ LeftBy(selector, d) = <<[number |-> 0]>>
      BY <1>2, <1>10, <2>1 DEF Slot, LeftBy
    <3> QED
      BY <3>1, MarshalOne, MarshalNumber DEF a, d
  <2>2. CASE s # <<>>
    <3>1. Slot(selector, a) = <<a[1]>> /\ LeftBy(selector, d) = <<d[1]>> /\ Is("float", a[1])
      BY <1>3, <1>6, <1>10, <2>2 DEF Slot, LeftBy
    <3>2. MarshalAtom(a[1]) = <<d[1]>>
      <4>1. a[1] # Symbol("jsobject") /\ a[1] # Symbol(v.string)
        BY <1>7, <3>1
      <4>2. OneAtom(v, Float(v.number), v)
        BY <1>3, <1>4, <1>5, <2>2, <4>1, LeafMarshalled
      <4> QED
        BY <1>4, <2>2, <4>2
    <3> QED
      BY <3>1, <3>2, MarshalOne DEF a, d
  <2> QED
    BY <2>1, <2>2
<1>11. CASE selector = "symbol"
  <2>1. CASE s = <<>>
    <3>1. Slot(selector, a) = <<Symbol("")>> /\ LeftBy(selector, d) = <<[string |-> ""]>>
      BY <1>2, <1>11, <2>1 DEF Slot, LeftBy
    <3> QED
      BY <3>1, MarshalOne, MarshalText DEF a, d
  <2>2. CASE s # <<>>
    <3>1. /\ Slot(selector, a) = <<IF Is("symbol", a[1]) THEN a[1] ELSE Symbol("")>>
          /\ LeftBy(selector, d) = <<IF Is("number", d[1]) THEN [string |-> ""]
                                     ELSE IF Is("object", d[1]) THEN [string |-> "jsobject"]
                                     ELSE d[1]>>
      BY <1>3, <1>11, <2>2 DEF Slot, LeftBy
    <3>2. CASE Is("number", v) /\ OneAtom(v, Float(v.number), v)
      <4>1. Slot(selector, a) = <<Symbol("")>> /\ LeftBy(selector, d) = <<[string |-> ""]>>
        BY <1>4, <1>8, <2>2, <3>1, <3>2
      <4> QED
        BY <4>1, MarshalOne, MarshalText DEF a, d
    <3>3. CASE ~Is("number", v) /\ ~Is("object", v) /\ OneAtom(v, Symbol(v.string), v)
      <4>1. /\ Slot(selector, a) = <<Symbol(v.string)>> /\ LeftBy(selector, d) = <<v>>
            /\ MarshalAtom(Symbol(v.string)) = <<v>>
        BY <1>4, <1>7, <2>2, <3>1, <3>3
      <4> QED
        BY <4>1, MarshalOne DEF a, d
    <3>4. CASE OneAtom(v, Symbol("jsobject"), [string |-> "jsobject"])
      <4>1. a[1] = Symbol("jsobject") /\ d[1] = [string |-> "jsobject"]
        BY <1>4, <2>2, <3>4
      <4>2. Slot(selector, a) = <<Symbol("jsobject")>> /\ LeftBy(selector, d) = <<[string |-> "jsobject"]>>
        BY <1>7, <3>1, <4>1
      <4> QED
        BY <4>2, MarshalOne, MarshalText DEF a, d
    <3>5. CASE Is("object", v) /\ ~Is("number", v) /\ SentLeaf(v)
      <4>1. Slot(selector, a) = <<Symbol("jsobject")>> /\ LeftBy(selector, d) = <<[string |-> "jsobject"]>>
        BY <1>5, <1>7, <2>2, <3>1, <3>5
      <4> QED
        BY <4>1, MarshalOne, MarshalText DEF a, d
    <3> QED
      BY <1>3, <2>2, <3>2, <3>3, <3>4, <3>5, LeafMarshalled
  <2> QED
    BY <2>1, <2>2
<1>12. CASE selector \notin {"bang", "float", "symbol"}
  BY <1>1, <1>12 DEF Slot, LeftBy, a, d
<1> QED
  BY <1>9, <1>10, <1>11, <1>12

LEMMA DeliveredIs ==
  ASSUME NEW selector, NEW argv
  PROVE  Delivered([selector |-> selector, argv |-> argv]) = [selector |-> selector, argv |-> Slot(selector, argv)]
BY DEF Delivered

\* The message of some leaves: a number first is an argument unless it is lost,
\* and anything else first is the selector.
LEMMA MessageOfLeaves ==
  ASSUME NEW s \in Seq(SafeLeaf), s # <<>>
  PROVE  \/ /\ s[1] \in SentObjects
            /\ ToMessage(Spelled(s)) =
                 [selector |-> "jsobject", argv |-> <<Symbol(AddressOf[s[1].object])>> \o Spelled(Tail(s))]
            /\ Symbol(AddressOf[s[1].object]) \in SentAtom
            /\ ObjectsAt(Symbol(AddressOf[s[1].object])) # {}
         \/ /\ s[1] \notin SentObjects
            /\ ToMessage(Spelled(s)).selector # "jsobject"
            /\ ToMessage(Spelled(s)) = [selector |-> ToMessage(Spelled(s)).selector, argv |-> Spelled(s)]
            /\ Arguments(Arrivals(s)) = Arrivals(s)
         \/ /\ s[1] \notin SentObjects
            /\ ToMessage(Spelled(s)) = [selector |-> ToMessage(Spelled(s)).selector, argv |-> Spelled(Tail(s))]
            /\ Arguments(Arrivals(s)) = Arrivals(Tail(s))
<1> DEFINE v == s[1]
           rest == Tail(s)
           a == Spelled(s)
           r == Spelled(rest)
           d == Arrivals(s)
           e == Arrivals(rest)
           m == ToMessage(a)
<1>1. /\ v \in SafeLeaf /\ rest \in Seq(SafeLeaf)
      /\ a = Spelling[v] \o r /\ r \in Seq(SentAtom) /\ a # <<>>
      /\ d = Arrival(v) \o e /\ e \in Seq(Arrived) /\ d # <<>>
  BY SafeFirst
<1>2. Spelling[v] \in Seq(SentAtom)
  BY <1>1, FirstOfSpelling
<1>3. r = <<>> <=> e = <<>>
  <2>1. CASE rest = <<>>
    BY <2>1, NothingLeft
  <2>2. CASE rest # <<>>
    BY <1>1, <2>2, SafeFirst
  <2> QED
    BY <2>1, <2>2
<1>4. ASSUME NEW atom, NEW x, OneAtom(v, atom, x)
      PROVE  /\ v \notin SentObjects
             /\ atom \in SentAtom /\ a = <<atom>> \o r /\ a \in Seq(SentAtom) /\ a[1] = atom /\ Tail(a) = r
             /\ Len(a) = Len(r) + 1
             /\ x \in Arrived /\ d = <<x>> \o e /\ d[1] = x /\ Tail(d) = e /\ Len(d) = Len(e) + 1
  <2> DEFINE p == Spelling[v]
             q == Arrival(v)
  <2>1. v \notin SentObjects /\ p = <<atom>> /\ q = <<x>>
    BY <1>4 DEF OneAtom
  <2>2. p \in Seq(SentAtom) /\ q \in Seq(Arrived)
    BY <1>1, <1>2, ArrivingIs DEF Arriving, Maps
  <2>3. p # <<>> /\ p[1] = atom /\ q # <<>> /\ q[1] = x
    BY <2>1
  <2>4. a = p \o r /\ d = q \o e
    BY <1>1
  <2> HIDE DEF p, q, a, d, r, e, v
  <2>5. atom \in SentAtom
    <3>1. p[1] \in SentAtom
      BY <2>2, <2>3, HeadAndTail
    <3> QED
      BY <2>3, <3>1
  <2>6. x \in Arrived
    <3>1. q[1] \in Arrived
      BY <2>2, <2>3, HeadAndTail
    <3> QED
      BY <2>3, <3>1
  <2>7. /\ <<atom>> \o r \in Seq(SentAtom) /\ (<<atom>> \o r)[1] = atom
        /\ Tail(<<atom>> \o r) = r /\ Len(<<atom>> \o r) = Len(r) + 1
    BY <1>1, <2>5, FirstThenRest
  <2>8. (<<x>> \o e)[1] = x /\ Tail(<<x>> \o e) = e /\ Len(<<x>> \o e) = Len(e) + 1
    BY <1>1, <2>6, FirstThenRest
  <2> QED
    BY <2>1, <2>4, <2>5, <2>6, <2>7, <2>8
<1>5. \A n : ~Is("symbol", Float(n)) /\ Float(n).float = n
  BY DEF Is, Float
<1>6. \A t : Is("symbol", Symbol(t)) /\ Symbol(t).symbol = t /\ ~Is("number", [string |-> t])
  BY DEF Is, Symbol
<1>7. Len(r) = 0 <=> Len(e) = 0
  <2>1. (Len(r) = 0 <=> r = <<>>) /\ (Len(e) = 0 <=> e = <<>>)
    <3> HIDE DEF r, e
    <3> QED
      BY <1>1, EmptySeq
  <2> QED
    BY <1>3, <2>1
<1>8. Len(r) \in Nat /\ Len(e) \in Nat
  <2> HIDE DEF r, e
  <2> QED
    BY <1>1, LenProperties
<1>9. "jsobject" # "float" /\ "jsobject" # "list"
  OBVIOUS
<1> HIDE DEF v, rest, a, r, d, e
<1>10. CASE Is("number", v) /\ OneAtom(v, Float(v.number), v)
  <2> DEFINE type == AddedSelector(a)
  <2>1. /\ a[1] = Float(v.number) /\ Tail(a) = r /\ a \in Seq(SentAtom)
        /\ d[1] = v /\ Tail(d) = e /\ v \notin SentObjects
        /\ Len(a) = Len(r) + 1 /\ Len(d) = Len(e) + 1
    BY <1>4, <1>10
  <2>2. ToMessage(a) = [selector |-> type, argv |-> IF v.number \in Bits[type] THEN r ELSE a]
    <3>1. ~Is("symbol", a[1]) /\ a[1].float = v.number
      BY <1>5, <2>1
    <3>2. ToMessage(a) = [selector |-> type, argv |-> IF a[1].float \in Bits[type] THEN Tail(a) ELSE a]
      BY <1>1, <2>1, <3>1, MessageIs
    <3> QED
      BY <2>1, <3>1, <3>2
  <2>3. type # "jsobject" /\ type = IF Len(d) = 1 THEN "float" ELSE "list"
    <3>1. Len(a) = 1 <=> Len(d) = 1
      BY <1>7, <1>8, <2>1
    <3> QED
      BY <1>9, <3>1 DEF AddedSelector
  <2> HIDE DEF type
  <2>4. Arguments(d) = IF v.number \in Bits[type] THEN e ELSE d
    BY <1>10, <2>1, <2>3 DEF Arguments
  <2>5. CASE v.number \in Bits[type]
    BY <2>1, <2>2, <2>4, <2>5 DEF v, rest, a, r, d, e
  <2>6. CASE v.number \notin Bits[type]
    BY <2>1, <2>2, <2>3, <2>4, <2>6 DEF v, rest, a, r, d, e
  <2> QED
    BY <2>5, <2>6
<1>11. ASSUME NEW t, NEW x, ~Is("number", x), OneAtom(v, Symbol(t), x)
       PROVE  /\ v \notin SentObjects
              /\ ToMessage(a) = [selector |-> ToMessage(a).selector, argv |-> r]
              /\ Arguments(d) = e
  <2>1. /\ a[1] = Symbol(t) /\ Tail(a) = r /\ a \in Seq(SentAtom)
        /\ d[1] = x /\ Tail(d) = e /\ v \notin SentObjects
    BY <1>4, <1>11
  <2>2. ToMessage(a) = [selector |-> t, argv |-> r]
    <3>1. Is("symbol", a[1]) /\ a[1].symbol = t
      BY <1>6, <2>1
    <3>2. ToMessage(a) = [selector |-> a[1].symbol, argv |-> Tail(a)]
      BY <1>1, <2>1, <3>1, MessageIs
    <3> QED
      BY <2>1, <3>1, <3>2
  <2>3. Arguments(d) = e
    BY <1>11, <2>1 DEF Arguments
  <2> QED
    BY <2>1, <2>2, <2>3
<1>12. CASE ~Is("number", v) /\ OneAtom(v, Symbol(v.string), v)
  BY <1>11, <1>12 DEF v, rest, a, r, d, e
<1>13. CASE OneAtom(v, Symbol("jsobject"), [string |-> "jsobject"])
  BY <1>6, <1>11, <1>13 DEF v, rest, a, r, d, e
<1>14. CASE SentLeaf(v)
  <2> DEFINE js == Symbol("jsobject")
             ad == Symbol(AddressOf[v.object])
             one == <<js>>
             two == <<ad>>
             argv == two \o r
  <2>1. /\ v \in SentObjects /\ v.object \in DOMAIN AddressOf
        /\ Spelling[v] = <<js, ad>>
    BY <1>14 DEF SentLeaf
  <2>2. js \in SentAtom /\ ad \in SentAtom /\ ObjectsAt(ad) # {}
    <3>1. ObjectsAt(ad) = {v.object}
      BY <2>1, Addresses
    <3> QED
      BY <2>1, <3>1 DEF SentAtom, Range
  <2>3. one \in Seq(SentAtom) /\ two \in Seq(SentAtom)
    BY <2>2, SingletonSeq
  <2>4. one \o two = Spelling[v]
    BY <2>1, Pair
  <2>5. argv \in Seq(SentAtom)
    BY <1>1, <2>2, FirstThenRest
  <2>6. a = one \o argv
    <3> HIDE DEF one, two, js, ad
    <3>1. (one \o two) \o r = one \o (two \o r)
      BY <1>1, <2>3, ConcatAssociative, SMTT(30)
    <3> QED
      BY <1>1, <2>4, <3>1
  <2> HIDE DEF argv
  <2>7. ToMessage(a) = [selector |-> "jsobject", argv |-> argv]
    BY <2>2, <2>5, <2>6, SymbolFirst
  <2> QED
    BY <2>1, <2>2, <2>7 DEF v, rest, a, r, argv
<1> QED
  BY <1>1, <1>10, <1>12, <1>13, <1>14, LeafMarshalled

\* js_anything reads behind the message of leaves that begin with an object sent
\* with its address, and calls a function for all others.
LEMMA OverreadLeaves ==
  ASSUME NEW s \in Seq(SafeLeaf), s # <<>>
  PROVE  /\ StartsWithObject(Delivered(ToMessage(Spelled(s)))) <=> s[1] \in SentObjects
         /\ s[1] \notin SentObjects /\ ~Rejected(ToMessage(Spelled(s))) =>
              MarshalArgs(Delivered(ToMessage(Spelled(s))).argv)
                = LeftBy(ToMessage(Spelled(s)).selector, Arguments(Arrivals(s)))
<1> DEFINE m == ToMessage(Spelled(s))
           t == m.selector
           rest == Tail(s)
           ad == Symbol(AddressOf[s[1].object])
<1>1. /\ rest \in Seq(SafeLeaf) /\ Spelled(rest) \in Seq(SentAtom)
      /\ rest = <<>> => Spelled(rest) = <<>>
      /\ rest # <<>> => ObjectsAt(Spelled(rest)[1]) = {}
  BY SafeFirst, FirstOfSpelled, NothingLeft
<1>2. CASE /\ s[1] \in SentObjects
           /\ m = [selector |-> "jsobject", argv |-> <<ad>> \o Spelled(rest)]
           /\ ad \in SentAtom /\ ObjectsAt(ad) # {}
  <2> DEFINE argv == <<ad>> \o Spelled(rest)
  <2>1. argv # <<>> /\ argv[1] = ad
    BY <1>1, <1>2, FirstThenRest
  <2> HIDE DEF argv
  <2>2. Slot("jsobject", argv) = argv
    BY DEF Slot
  <2>3. Delivered(m) = [selector |-> "jsobject", argv |-> argv]
    BY <1>2, <2>2, DeliveredIs DEF argv
  <2> HIDE DEF m
  <2>4. Delivered(m).selector = "jsobject" /\ Delivered(m).argv = argv
    BY <2>3
  <2>5. StartsWithObject(Delivered(m))
    BY <1>2, <2>1, <2>4 DEF StartsWithObject
  <2> QED
    BY <1>2, <2>5 DEF m
<1>3. ASSUME NEW u \in Seq(SafeLeaf), m = [selector |-> t, argv |-> Spelled(u)]
      PROVE  /\ Delivered(m) = [selector |-> t, argv |-> Slot(t, Spelled(u))]
             /\ ~Rejected(m) => MarshalArgs(Delivered(m).argv) = LeftBy(t, Arrivals(u))
  <2> HIDE DEF m, t
  <2>1. Delivered(m) = [selector |-> t, argv |-> Slot(t, Spelled(u))]
    BY <1>3, DeliveredIs
  <2>2. ~Rejected(m) => MarshalArgs(Slot(t, Spelled(u))) = LeftBy(t, Arrivals(u))
    BY <1>3, SlotMarshalled
  <2> QED
    BY <2>1, <2>2
<1>4. CASE /\ s[1] \notin SentObjects /\ t # "jsobject"
           /\ m = [selector |-> t, argv |-> Spelled(s)]
           /\ Arguments(Arrivals(s)) = Arrivals(s)
  <2>1. /\ Delivered(m) = [selector |-> t, argv |-> Slot(t, Spelled(s))]
        /\ ~Rejected(m) => MarshalArgs(Delivered(m).argv) = LeftBy(t, Arrivals(s))
    BY <1>3, <1>4
  <2> HIDE DEF m, t
  <2>2. ~StartsWithObject(Delivered(m))
    BY <1>4, <2>1 DEF StartsWithObject
  <2> QED
    BY <1>4, <2>1, <2>2 DEF m, t
<1>5. CASE /\ s[1] \notin SentObjects
           /\ m = [selector |-> t, argv |-> Spelled(rest)]
           /\ Arguments(Arrivals(s)) = Arrivals(rest)
  <2>1. /\ Delivered(m) = [selector |-> t, argv |-> Slot(t, Spelled(rest))]
        /\ ~Rejected(m) => MarshalArgs(Delivered(m).argv) = LeftBy(t, Arrivals(rest))
    BY <1>1, <1>3, <1>5
  <2> HIDE DEF m, t, rest
  <2>2. ~StartsWithObject(Delivered(m))
    <3>1. Delivered(m).selector = t /\ Delivered(m).argv = Slot(t, Spelled(rest))
      BY <2>1
    <3>2. t = "jsobject" => Slot(t, Spelled(rest)) = Spelled(rest)
      BY DEF Slot
    <3>3. Spelled(rest) # <<>> => ObjectsAt(Spelled(rest)[1]) = {}
      BY <1>1
    <3> QED
      BY <3>1, <3>2, <3>3 DEF StartsWithObject
  <2> QED
    BY <1>5, <2>1, <2>2 DEF m, t
<1> QED
  BY <1>2, <1>4, <1>5, MessageOfLeaves

LEMMA SafeLeaves ==
  ASSUME NEW values \in Seq(Value), NoStringIsIn(Range(AddressOf), Leaves(values))
  PROVE  Leaves(values) \in Seq(SafeLeaf) /\ UnmarshalArgs(values) = Spelled(Leaves(values))
<1> DEFINE passed == Leaves(values)
<1>1. passed \in Seq(Leaf) /\ UnmarshalArgs(values) = Spelled(passed)
  BY LeavesAreSpelled DEF Spelled
<1> HIDE DEF passed
<1>2. Len(passed) \in Nat /\ passed \in [1 .. Len(passed) -> Leaf]
  BY <1>1, LenProperties
<1>3. ASSUME NEW i \in 1 .. Len(passed) PROVE passed[i] \in SafeLeaf
  <2> DEFINE v == passed[i]
  <2>1. v \in Leaf /\ v \in Range(passed)
    BY <1>2 DEF Range
  <2>2. Is("string", v) => v.string \notin Range(AddressOf)
    BY <2>1 DEF NoStringIsIn, passed
  <2> QED
    BY <2>1, <2>2 DEF SafeLeaf
<1>4. passed \in [1 .. Len(passed) -> SafeLeaf]
  BY <1>2, <1>3
<1>5. passed \in Seq(SafeLeaf)
  BY <1>2, <1>4, SeqDef
<1> QED
  BY <1>1, <1>5 DEF passed

\* What the invariant says of a message Pd delivers, of the leaves it is made of.
LEMMA DeliveredLeaves ==
  ASSUME IInv, phase \in {"called", "overread"}, NoStringIsIn(Range(AddressOf), Leaves(sent))
  PROVE  /\ Leaves(sent) \in Seq(SafeLeaf) /\ Leaves(sent) # <<>>
         /\ message = ToMessage(Spelled(Leaves(sent)))
<1>1. sent \in Seq(Value) /\ UnmarshalArgs(sent) # <<>> /\ message = ToMessage(UnmarshalArgs(sent))
  BY DEF IInv
<1>2. Leaves(sent) \in Seq(SafeLeaf) /\ UnmarshalArgs(sent) = Spelled(Leaves(sent))
  BY <1>1, SafeLeaves
<1> QED
  BY <1>1, <1>2, NothingLeft

\* For any values, nested to any depth: the function is called with the values
\* js_unmarshal_args opened, in order, each object with its address behind it;
\* less only the leading selector and what Pd's own selectors drop.
THEOREM ValuesAlwaysArrive == Spec => []ValuesArrive
<1>1. IInv => ValuesArrive
  <2> DEFINE passed == Leaves(sent)
  <2> SUFFICES ASSUME IInv, phase = "called", NoStringIsIn(Range(AddressOf), passed)
               PROVE  received = LeftBy(message.selector, Arguments(Arrivals(passed)))
    BY DEF ValuesArrive
  <2>1. passed \in Seq(SafeLeaf) /\ passed # <<>> /\ message = ToMessage(Spelled(passed))
    BY DeliveredLeaves
  <2> HIDE DEF passed
  <2>2. /\ ~Rejected(message) /\ ~StartsWithObject(Delivered(message))
        /\ received = MarshalArgs(Delivered(message).argv)
    BY DEF IInv
  <2>3. passed[1] \notin SentObjects
    BY <2>1, <2>2, OverreadLeaves
  <2> QED
    BY <2>1, <2>2, <2>3, OverreadLeaves
<1> QED
  BY <1>1, SpecIInv, PTL

\* For any values, nested to any depth: js_anything reads behind a message if,
\* and only if, its first value is an object sent with its address.
THEOREM ObjectFirstIsAlwaysOverread == Spec => []ObjectFirstIsOverread
<1>1. IInv => ObjectFirstIsOverread
  <2> DEFINE passed == Leaves(sent)
  <2> SUFFICES ASSUME IInv, phase \in {"called", "overread"}, NoStringIsIn(Range(AddressOf), passed)
               PROVE  phase = "overread" <=> passed[1] \in SentObjects
    BY DEF ObjectFirstIsOverread
  <2>1. passed \in Seq(SafeLeaf) /\ passed # <<>> /\ message = ToMessage(Spelled(passed))
    BY DeliveredLeaves
  <2> HIDE DEF passed
  <2>2. StartsWithObject(Delivered(message)) <=> passed[1] \in SentObjects
    BY <2>1, OverreadLeaves
  <2>3. phase = "overread" <=> StartsWithObject(Delivered(message))
    BY DEF IInv
  <2> QED
    BY <2>2, <2>3
<1> QED
  BY <1>1, SpecIInv, PTL
=============================================================================
