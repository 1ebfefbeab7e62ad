--------------------------- MODULE SequenceLemmas ---------------------------
(***************************************************************************)
(* Facts about sequences that the proofs of the components share: what a   *)
(* sequence is after another was appended, and what the operators that     *)
(* flatten a sequence of sequences, or replace each element by a sequence, *)
(* give.                                                                   *)
(*                                                                         *)
(* They are proved by induction with a set in the place of a predicate: a  *)
(* set of numbers that has 0 and the successor of each of its members has  *)
(* all, for there is a least of those it lacks.                            *)
(***************************************************************************)
EXTENDS Integers, SequencesExt, SequenceTheorems, WellFoundedInduction, TLAPS

LEMMA Prefix ==
  ASSUME NEW S, NEW s \in Seq(S), NEW n \in Nat, n <= Len(s)
  PROVE  /\ SubSeq(s, 1, n) \in Seq(S)
         /\ Len(SubSeq(s, 1, n)) = n
         /\ DOMAIN SubSeq(s, 1, n) = 1 .. n
         /\ \A i \in 1 .. n : SubSeq(s, 1, n)[i] = s[i]
<1>1. \A i \in 1 .. n : s[i] \in S
  BY LenProperties, ElementOfSeq
<1>2. SubSeq(s, 1, n) \in Seq(S)
  BY <1>1, SubSeqProperties
<1> QED
  BY <1>1, <1>2, SubSeqProperties, LenProperties

LEMMA Extension ==
  ASSUME NEW S, NEW s \in Seq(S), NEW n \in Nat, NEW f \in [1 .. n -> S]
  PROVE  /\ s \o f \in Seq(S)
         /\ Len(s \o f) = Len(s) + n
         /\ DOMAIN (s \o f) = 1 .. Len(s) + n
         /\ \A i \in 1 .. Len(s) : (s \o f)[i] = s[i]
         /\ \A i \in Len(s) + 1 .. Len(s) + n : (s \o f)[i] = f[i - Len(s)]
<1>1. f \in Seq(S) /\ Len(f) = n
  BY SeqDef, LenProperties
<1>2. Len(s) \in Nat
  BY LenProperties
<1>3. s \o f \in Seq(S) /\ Len(s \o f) = Len(s) + n
  BY <1>1, ConcatProperties
<1>4. DOMAIN (s \o f) = 1 .. Len(s) + n
  BY <1>3, LenProperties
<1>5. \A i \in 1 .. Len(s) + n : (s \o f)[i] = IF i <= Len(s) THEN s[i] ELSE f[i - Len(s)]
  BY <1>1, ConcatProperties
<1> QED
  BY <1>2, <1>3, <1>4, <1>5

LEMMA LeastNat ==
  ASSUME NEW T \in SUBSET Nat, T # {}
  PROVE  \E n \in T : \A m \in T : n <= m
<1>1. PICK n \in T : \A m \in T : ~(<<m, n>> \in OpToRel(<, Nat))
  BY NatLessThanWellFounded, WFMin
<1>2. \A m \in T : ~(m < n)
  BY <1>1 DEF OpToRel
<1> QED
  BY <1>2

LEMMA Induction ==
  ASSUME NEW T, 0 \in T, \A n \in Nat : n \in T => n + 1 \in T
  PROVE  Nat \subseteq T
<1> SUFFICES ASSUME Nat \ T # {} PROVE FALSE
  OBVIOUS
<1>1. PICK n \in Nat \ T : \A m \in Nat \ T : n <= m
  BY LeastNat
<1>2. n # 0 /\ n - 1 \in Nat
  BY <1>1
<1>3. n - 1 \in T
  BY <1>1, <1>2
<1> QED
  BY <1>1, <1>2, <1>3

LEMMA SeqInduction ==
  ASSUME NEW S, NEW T, <<>> \in T, \A s \in Seq(S), e \in S : s \in T => Append(s, e) \in T
  PROVE  Seq(S) \subseteq T
<1> DEFINE L == {n \in Nat : \A s \in Seq(S) : Len(s) = n => s \in T}
<1>1. 0 \in L
  BY EmptySeq
<1>2. ASSUME NEW n \in L PROVE n + 1 \in L
  <2> SUFFICES ASSUME NEW s \in Seq(S), Len(s) = n + 1 PROVE s \in T
    OBVIOUS
  <2> DEFINE front == SubSeq(s, 1, n)
  <2>1. n \in Nat /\ n <= Len(s)
    OBVIOUS
  <2>2. front \in Seq(S) /\ Len(front) = n /\ \A i \in 1 .. n : front[i] = s[i]
    BY <2>1, Prefix
  <2> HIDE DEF front
  <2>3. front \in T
    BY <2>2
  <2>4. s[n + 1] \in S
    BY <2>1, ElementOfSeq
  <2>5. Append(front, s[n + 1]) \in T
    BY <2>2, <2>3, <2>4
  <2>6. s = Append(front, s[n + 1])
    <3>1. /\ Append(front, s[n + 1]) \in Seq(S)
          /\ Len(Append(front, s[n + 1])) = n + 1
          /\ \A i \in 1 .. n : Append(front, s[n + 1])[i] = front[i]
          /\ Append(front, s[n + 1])[n + 1] = s[n + 1]
      BY <2>2, <2>4, AppendProperties
    <3>2. \A i \in 1 .. n + 1 : s[i] = Append(front, s[n + 1])[i]
      BY <2>1, <2>2, <3>1
    <3> QED
      BY <3>1, <3>2, SeqEqual
  <2> QED
    BY <2>5, <2>6
<1> HIDE DEF L
<1>3. Nat \subseteq L
  BY <1>1, <1>2, Induction
<1> QED
  BY <1>3, LenProperties DEF L

\* The function FlattenSeq is defined by exists.
Flattens(f, ss, n) == f = [i \in 1 .. n |-> IF i = 1 THEN ss[i] ELSE f[i - 1] \o ss[i]]

LEMMA FlattenExists ==
  ASSUME NEW S, NEW ss \in Seq(Seq(S)), NEW n \in 1 .. Len(ss)
  PROVE  \E f \in [1 .. n -> Seq(S)] : Flattens(f, ss, n)
<1> DEFINE T == {k \in Nat : k \in 1 .. Len(ss) => \E f \in [1 .. k -> Seq(S)] : Flattens(f, ss, k)}
<1>0. Len(ss) \in Nat /\ \A i \in 1 .. Len(ss) : ss[i] \in Seq(S)
  BY LenProperties, ElementOfSeq
<1>1. 0 \in T
  OBVIOUS
<1>2. ASSUME NEW k \in Nat, k \in T PROVE k + 1 \in T
  <2> SUFFICES ASSUME k + 1 \in 1 .. Len(ss)
               PROVE  \E f \in [1 .. k + 1 -> Seq(S)] : Flattens(f, ss, k + 1)
    OBVIOUS
  <2>1. CASE k = 0
    <3> DEFINE f == [i \in 1 .. 1 |-> ss[i]]
    <3>1. f \in [1 .. k + 1 -> Seq(S)]
      BY <1>0, <2>1
    <3>2. f = [i \in 1 .. k + 1 |-> IF i = 1 THEN ss[i] ELSE f[i - 1] \o ss[i]]
      BY <2>1
    <3> QED
      BY <3>1, <3>2 DEF Flattens
  <2>2. CASE k # 0
    <3>1. k \in 1 .. Len(ss)
      BY <1>0, <2>2
    <3>2. PICK f \in [1 .. k -> Seq(S)] : f = [i \in 1 .. k |-> IF i = 1 THEN ss[i] ELSE f[i - 1] \o ss[i]]
      BY <1>2, <3>1 DEF Flattens
    <3> DEFINE last == f[k] \o ss[k + 1]
               g == [i \in 1 .. k + 1 |-> IF i = k + 1 THEN last ELSE f[i]]
    <3>3. last \in Seq(S)
      <4>1. f[k] \in Seq(S) /\ ss[k + 1] \in Seq(S)
        BY <1>0, <3>1
      <4> QED
        BY <4>1, ConcatProperties
    <3>4. g \in [1 .. k + 1 -> Seq(S)]
      <4>1. \A i \in 1 .. k + 1 : i = k + 1 \/ i \in 1 .. k
        BY <3>1
      <4> HIDE DEF last
      <4> QED
        BY <3>3, <4>1
    <3>5. ASSUME NEW i \in 1 .. k + 1
          PROVE  g[i] = IF i = 1 THEN ss[i] ELSE g[i - 1] \o ss[i]
      <4>1. CASE i = k + 1
        <5>1. i # 1 /\ i - 1 = k /\ k \in 1 .. k + 1 /\ k # k + 1
          BY <3>1, <4>1
        <5>2. g[k] = f[k] /\ g[i] = last
          BY <4>1, <5>1
        <5> HIDE DEF g
        <5> QED
          BY <4>1, <5>1, <5>2
      <4>2. CASE i # k + 1
        <5>1. i \in 1 .. k
          BY <4>2
        <5>2. g[i] = f[i] /\ f[i] = IF i = 1 THEN ss[i] ELSE f[i - 1] \o ss[i]
          BY <3>2, <5>1, <4>2
        <5>3. i # 1 => i - 1 \in 1 .. k + 1 /\ i - 1 # k + 1
          BY <5>1
        <5>4. i # 1 => g[i - 1] = f[i - 1]
          BY <5>3
        <5> HIDE DEF g
        <5> QED
          BY <5>2, <5>4
      <4> QED
        BY <4>1, <4>2
    <3>6. g = [i \in 1 .. k + 1 |-> IF i = 1 THEN ss[i] ELSE g[i - 1] \o ss[i]]
      <4>1. g = [i \in 1 .. k + 1 |-> g[i]]
        OBVIOUS
      <4> HIDE DEF g
      <4> QED
        BY <3>5, <4>1
    <3> HIDE DEF g
    <3> QED
      BY <3>4, <3>6 DEF Flattens
  <2> QED
    BY <2>1, <2>2
<1> HIDE DEF T
<1>3. Nat \subseteq T
  BY <1>1, <1>2, Induction
<1> QED
  BY <1>0, <1>3 DEF T

LEMMA FlattenIs ==
  ASSUME NEW S, NEW ss \in Seq(Seq(S)), ss # <<>>
  PROVE  \E f : Flattens(f, ss, Len(ss)) /\ FlattenSeq(ss) = f[Len(ss)]
<1>1. Len(ss) \in Nat /\ Len(ss) # 0
  BY EmptySeq, LenProperties
<1> DEFINE f == CHOOSE g : g = [i \in 1 .. Len(ss) |-> IF i = 1 THEN ss[i] ELSE g[i - 1] \o ss[i]]
<1>2. \E g : g = [i \in 1 .. Len(ss) |-> IF i = 1 THEN ss[i] ELSE g[i - 1] \o ss[i]]
  <2>1. Len(ss) \in 1 .. Len(ss)
    BY <1>1
  <2>2. PICK g \in [1 .. Len(ss) -> Seq(S)] : Flattens(g, ss, Len(ss))
    BY <2>1, FlattenExists
  <2>3. g = [i \in 1 .. Len(ss) |-> IF i = 1 THEN ss[i] ELSE g[i - 1] \o ss[i]]
    BY <2>2 DEF Flattens
  <2> QED
    BY <2>3
<1>3. f = [i \in 1 .. Len(ss) |-> IF i = 1 THEN ss[i] ELSE f[i - 1] \o ss[i]]
  BY <1>2
<1>4. FlattenSeq(ss) = f[Len(ss)]
  BY <1>1 DEF FlattenSeq
<1> QED
  BY <1>3, <1>4 DEF Flattens

LEMMA FlattenEmpty == FlattenSeq(<<>>) = <<>>
  BY EmptySeq DEF FlattenSeq

LEMMA SameFlattening ==
  ASSUME NEW f, NEW g, NEW ss, NEW tt, NEW m \in Nat, NEW n \in Nat, m <= n,
         Flattens(f, ss, m), Flattens(g, tt, n), \A i \in 1 .. m : ss[i] = tt[i]
  PROVE  \A i \in 1 .. m : f[i] = g[i]
<1> DEFINE T == {k \in Nat : k \in 1 .. m => f[k] = g[k]}
<1>1. 0 \in T
  OBVIOUS
<1>2. ASSUME NEW k \in Nat, k \in T PROVE k + 1 \in T
  <2> SUFFICES ASSUME k + 1 \in 1 .. m PROVE f[k + 1] = g[k + 1]
    OBVIOUS
  <2>1. /\ f[k + 1] = IF k + 1 = 1 THEN ss[k + 1] ELSE f[k] \o ss[k + 1]
        /\ g[k + 1] = IF k + 1 = 1 THEN tt[k + 1] ELSE g[k] \o tt[k + 1]
    <3>1. k + 1 \in 1 .. n /\ (k + 1) - 1 = k
      OBVIOUS
    <3>2. f[k + 1] = IF k + 1 = 1 THEN ss[k + 1] ELSE f[(k + 1) - 1] \o ss[k + 1]
      BY DEF Flattens
    <3>3. g[k + 1] = IF k + 1 = 1 THEN tt[k + 1] ELSE g[(k + 1) - 1] \o tt[k + 1]
      BY <3>1 DEF Flattens
    <3> QED
      BY <3>1, <3>2, <3>3
  <2>2. k + 1 # 1 => f[k] = g[k]
    BY <1>2
  <2>3. ss[k + 1] = tt[k + 1]
    OBVIOUS
  <2> QED
    BY <2>1, <2>2, <2>3
<1> HIDE DEF T
<1>3. Nat \subseteq T
  BY <1>1, <1>2, Induction
<1> QED
  BY <1>3 DEF T

LEMMA FlattenAppend ==
  ASSUME NEW S, NEW ss \in Seq(Seq(S)), NEW s \in Seq(S)
  PROVE  FlattenSeq(Append(ss, s)) = FlattenSeq(ss) \o s
<1> DEFINE n == Len(ss)
           tt == Append(ss, s)
<1>1. /\ n \in Nat
      /\ tt \in Seq(Seq(S))
      /\ Len(tt) = n + 1
      /\ \A i \in 1 .. n : tt[i] = ss[i]
      /\ tt[n + 1] = s
  BY LenProperties, AppendProperties
<1> HIDE DEF tt
<1>2. tt # <<>>
  BY <1>1, EmptySeq
<1>3. PICK g : Flattens(g, tt, n + 1) /\ FlattenSeq(tt) = g[n + 1]
  BY <1>1, <1>2, FlattenIs
<1>4. CASE ss = <<>>
  <2>1. n = 0
    BY <1>4, EmptySeq
  <2>2. g[1] = tt[1]
    BY <1>3, <2>1 DEF Flattens
  <2>3. FlattenSeq(tt) = s
    BY <1>1, <1>3, <2>1, <2>2
  <2>4. <<>> \o s = s
    BY ConcatEmptySeq
  <2> QED
    BY <1>4, <2>3, <2>4, FlattenEmpty DEF tt
<1>5. CASE ss # <<>>
  <2>1. PICK f : Flattens(f, ss, n) /\ FlattenSeq(ss) = f[n]
    BY <1>5, FlattenIs
  <2>2. n # 0
    BY <1>1, <1>5, EmptySeq
  <2>3. f[n] = g[n]
    <3>1. n \in 1 .. n /\ n + 1 \in Nat /\ n <= n + 1
      BY <1>1, <2>2
    <3>2. \A i \in 1 .. n : ss[i] = tt[i]
      BY <1>1
    <3>3. Flattens(f, ss, n) /\ Flattens(g, tt, n + 1) /\ n \in Nat
      BY <1>1, <1>3, <2>1
    <3> DEFINE m == n + 1
    <3> HIDE DEF n, m
    <3>4. \A i \in 1 .. n : f[i] = g[i]
      <4>1. Flattens(g, tt, m) /\ m \in Nat /\ n <= m
        BY <3>1, <3>3 DEF m
      <4> QED
        BY <3>2, <3>3, <4>1, SameFlattening
    <3> QED
      BY <3>1, <3>4
  <2>4. g[n + 1] = g[n] \o tt[n + 1]
    <3>1. n + 1 \in 1 .. n + 1 /\ n + 1 # 1 /\ (n + 1) - 1 = n
      BY <1>1, <2>2
    <3>2. g[n + 1] = IF n + 1 = 1 THEN tt[n + 1] ELSE g[(n + 1) - 1] \o tt[n + 1]
      BY <1>3, <3>1 DEF Flattens
    <3> QED
      BY <3>1, <3>2
  <2> QED
    BY <1>1, <1>3, <2>1, <2>3, <2>4 DEF tt
<1> QED
  BY <1>4, <1>5

LEMMA FlattenTyped ==
  ASSUME NEW S, NEW ss \in Seq(Seq(S))
  PROVE  FlattenSeq(ss) \in Seq(S)
<1> DEFINE T == {tt \in Seq(Seq(S)) : FlattenSeq(tt) \in Seq(S)}
<1>1. <<>> \in T
  BY FlattenEmpty, EmptySeq
<1>2. ASSUME NEW tt \in Seq(Seq(S)), NEW s \in Seq(S), tt \in T PROVE Append(tt, s) \in T
  <2>1. FlattenSeq(Append(tt, s)) = FlattenSeq(tt) \o s
    BY FlattenAppend
  <2>2. FlattenSeq(tt) \in Seq(S)
    BY <1>2
  <2>3. FlattenSeq(tt) \o s \in Seq(S)
    BY <2>2, ConcatProperties
  <2>4. Append(tt, s) \in Seq(Seq(S))
    BY AppendProperties
  <2> QED
    BY <2>1, <2>3, <2>4
<1> HIDE DEF T
<1>3. Seq(Seq(S)) \subseteq T
  BY <1>1, <1>2, SeqInduction
<1> QED
  BY <1>3 DEF T

LEMMA SingletonSeq ==
  ASSUME NEW S, NEW x \in S
  PROVE  /\ <<x>> \in Seq(S)
         /\ Len(<<x>>) = 1
         /\ <<x>>[1] = x
  OBVIOUS

LEMMA FirstThenRest ==
  ASSUME NEW S, NEW x \in S, NEW s \in Seq(S)
  PROVE  /\ <<x>> \o s \in Seq(S)
         /\ <<x>> \o s # <<>>
         /\ Len(<<x>> \o s) = Len(s) + 1
         /\ (<<x>> \o s)[1] = x
         /\ \A i \in 1 .. Len(s) : (<<x>> \o s)[i + 1] = s[i]
         /\ Tail(<<x>> \o s) = s
<1> DEFINE one == <<x>>
           t == one \o s
<1>1. one \in Seq(S) /\ Len(one) = 1 /\ one[1] = x
  BY SingletonSeq
<1>2. Len(s) \in Nat
  BY LenProperties
<1> HIDE DEF one
<1>3. /\ t \in Seq(S) /\ Len(t) = 1 + Len(s)
      /\ \A i \in 1 .. 1 + Len(s) : t[i] = IF i <= 1 THEN one[i] ELSE s[i - 1]
  <2>1. /\ t \in Seq(S) /\ Len(t) = Len(one) + Len(s)
        /\ \A i \in 1 .. Len(one) + Len(s) : t[i] = IF i <= Len(one) THEN one[i] ELSE s[i - Len(one)]
    BY <1>1, ConcatProperties
  <2> QED
    BY <1>1, <2>1
<1> HIDE DEF t
<1>4. Len(t) = Len(s) + 1 /\ t[1] = x /\ \A i \in 1 .. Len(s) : t[i + 1] = s[i]
  <2>1. \A i \in 1 .. Len(s) : i + 1 \in 1 .. 1 + Len(s) /\ ~(i + 1 <= 1) /\ (i + 1) - 1 = i
    BY <1>2
  <2>2. 1 \in 1 .. 1 + Len(s) /\ Len(t) = Len(s) + 1
    BY <1>2, <1>3
  <2> QED
    BY <1>1, <1>3, <2>1, <2>2
<1>5. t # <<>>
  BY <1>2, <1>4, EmptySeq
<1>6. /\ Tail(t) \in Seq(S) /\ Len(Tail(t)) = Len(t) - 1
      /\ \A i \in 1 .. Len(Tail(t)) : Tail(t)[i] = t[i + 1]
  BY <1>3, <1>5, HeadTailProperties
<1>7. Tail(t) = s
  <2>1. Len(Tail(t)) = Len(s)
    BY <1>2, <1>4, <1>6
  <2>2. \A i \in 1 .. Len(s) : Tail(t)[i] = s[i]
    BY <1>4, <1>6, <2>1
  <2> QED
    BY <1>6, <2>1, <2>2, SeqEqual
<1> QED
  BY <1>3, <1>4, <1>5, <1>7 DEF one, t

LEMMA ConcatAppend ==
  ASSUME NEW S, NEW s \in Seq(S), NEW t \in Seq(S), NEW e \in S
  PROVE  s \o Append(t, e) = Append(s \o t, e)
<1>1. <<e>> \in Seq(S) /\ s \o t \in Seq(S)
  BY ConcatProperties
<1>2. Append(t, e) = t \o <<e>>
  BY AppendIsConcat
<1>3. s \o (t \o <<e>>) = (s \o t) \o <<e>>
  BY <1>1, ConcatAssociative, SMTT(30)
<1> DEFINE st == s \o t
<1> HIDE DEF st
<1>4. Append(st, e) = st \o <<e>>
  BY <1>1, AppendIsConcat DEF st
<1> QED
  BY <1>2, <1>3, <1>4 DEF st

LEMMA Pair ==
  ASSUME NEW x, NEW y
  PROVE  /\ <<x>> \o <<y>> = <<x, y>>
         /\ <<x>> \in Seq({x, y}) /\ <<y>> \in Seq({x, y}) /\ <<x, y>> \in Seq({x, y})
<1> DEFINE S == {x, y}
           s == <<x>>
           t == <<y>>
           st == <<x, y>>
<1>1. s \in Seq(S) /\ Len(s) = 1 /\ s[1] = x /\ t \in Seq(S) /\ Len(t) = 1 /\ t[1] = y
  OBVIOUS
<1>2. st \in Seq(S) /\ Len(st) = 2 /\ st[1] = x /\ st[2] = y
  OBVIOUS
<1> HIDE DEF s, t, st, S
<1> DEFINE u == s \o t
<1>3. /\ u \in Seq(S) /\ Len(u) = Len(s) + Len(t)
      /\ \A i \in 1 .. Len(s) + Len(t) : u[i] = IF i <= Len(s) THEN s[i] ELSE t[i - Len(s)]
  BY <1>1, ConcatProperties
<1> HIDE DEF u
<1>4. Len(u) = 2 /\ u[1] = x /\ u[2] = y
  BY <1>1, <1>3
<1>5. \A i \in 1 .. 2 : u[i] = st[i]
  BY <1>2, <1>4
<1>6. u = st
  BY <1>2, <1>3, <1>4, <1>5, SeqEqual
<1> QED
  BY <1>1, <1>2, <1>6 DEF u, s, t, st, S

LEMMA FlattenPair ==
  ASSUME NEW S, NEW s \in Seq(S), NEW t \in Seq(S)
  PROVE  FlattenSeq(<<s, t>>) = s \o t
<1> DEFINE one == <<s>>
           nothing == <<>>
<1>1. nothing \in Seq(Seq(S)) /\ one = Append(nothing, s) /\ one \in Seq(Seq(S)) /\ <<s, t>> = Append(one, t)
  OBVIOUS
<1>2. FlattenSeq(nothing) \o s = s
  BY FlattenEmpty, ConcatEmptySeq
<1> HIDE DEF one, nothing
<1>3. FlattenSeq(Append(nothing, s)) = FlattenSeq(nothing) \o s
  BY <1>1, FlattenAppend
<1>4. FlattenSeq(Append(one, t)) = FlattenSeq(one) \o t
  BY <1>1, FlattenAppend
<1> QED
  BY <1>1, <1>2, <1>3, <1>4

\* Nothing comes of empty sequences only.
LEMMA FlattenNothing ==
  ASSUME NEW S, NEW ss \in Seq(Seq(S))
  PROVE  FlattenSeq(ss) = <<>> <=> \A i \in 1 .. Len(ss) : ss[i] = <<>>
<1> DEFINE T == {tt \in Seq(Seq(S)) : FlattenSeq(tt) = <<>> <=> \A i \in 1 .. Len(tt) : tt[i] = <<>>}
<1>1. <<>> \in T
  BY FlattenEmpty, EmptySeq
<1>2. ASSUME NEW tt \in Seq(Seq(S)), NEW s \in Seq(S), tt \in T PROVE Append(tt, s) \in T
  <2> DEFINE uu == Append(tt, s)
             n == Len(tt)
  <2>1. /\ n \in Nat /\ uu \in Seq(Seq(S)) /\ Len(uu) = n + 1
        /\ \A i \in 1 .. n : uu[i] = tt[i]
        /\ uu[n + 1] = s
    BY LenProperties, AppendProperties
  <2>2. FlattenSeq(uu) = FlattenSeq(tt) \o s /\ FlattenSeq(tt) \in Seq(S)
    BY FlattenAppend, FlattenTyped
  <2>3. FlattenSeq(tt) \o s = <<>> <=> FlattenSeq(tt) = <<>> /\ s = <<>>
    BY <2>2, ConcatEqualIffEmpty
  <2>4. FlattenSeq(tt) = <<>> <=> \A i \in 1 .. n : tt[i] = <<>>
    BY <1>2
  <2> HIDE DEF uu, n
  <2>5. (\A i \in 1 .. n + 1 : uu[i] = <<>>) <=> (\A i \in 1 .. n : tt[i] = <<>>) /\ s = <<>>
    <3>1. \A i \in 1 .. n + 1 : i \in 1 .. n \/ i = n + 1
      BY <2>1
    <3>2. n + 1 \in 1 .. n + 1 /\ \A i \in 1 .. n : i \in 1 .. n + 1
      BY <2>1
    <3> QED
      BY <2>1, <3>1, <3>2
  <2> QED
    BY <2>1, <2>2, <2>3, <2>4, <2>5 DEF uu
<1> HIDE DEF T
<1>3. Seq(Seq(S)) \subseteq T
  BY <1>1, <1>2, SeqInduction
<1> QED
  BY <1>3 DEF T

LEMMA FlattenConcat ==
  ASSUME NEW S, NEW ss \in Seq(Seq(S)), NEW tt \in Seq(Seq(S))
  PROVE  FlattenSeq(ss \o tt) = FlattenSeq(ss) \o FlattenSeq(tt)
<1> DEFINE T == {uu \in Seq(Seq(S)) : FlattenSeq(ss \o uu) = FlattenSeq(ss) \o FlattenSeq(uu)}
<1>0. FlattenSeq(ss) \in Seq(S)
  BY FlattenTyped
<1>1. <<>> \in T
  <2>1. ss \o <<>> = ss /\ FlattenSeq(ss) \o <<>> = FlattenSeq(ss)
    BY <1>0, ConcatEmptySeq
  <2> QED
    BY <2>1, FlattenEmpty, EmptySeq
<1>2. ASSUME NEW uu \in Seq(Seq(S)), NEW e \in Seq(S), uu \in T PROVE Append(uu, e) \in T
  <2> DEFINE su == ss \o uu
             x == FlattenSeq(ss)
             y == FlattenSeq(uu)
  <2>1. ss \o Append(uu, e) = Append(su, e) /\ su \in Seq(Seq(S)) /\ Append(uu, e) \in Seq(Seq(S))
    BY ConcatAppend, ConcatProperties, AppendProperties
  <2>2. FlattenSeq(su) = x \o y
    BY <1>2
  <2>3. FlattenSeq(Append(uu, e)) = y \o e
    BY FlattenAppend
  <2>4. x \in Seq(S) /\ y \in Seq(S)
    BY FlattenTyped
  <2> HIDE DEF su, x, y
  <2>5. FlattenSeq(Append(su, e)) = FlattenSeq(su) \o e
    BY <2>1, FlattenAppend
  <2>6. (x \o y) \o e = x \o (y \o e)
    BY <2>4, ConcatAssociative, SMTT(30)
  <2>7. FlattenSeq(ss \o Append(uu, e)) = x \o FlattenSeq(Append(uu, e))
    BY <2>1, <2>2, <2>3, <2>5, <2>6
  <2> QED
    BY <2>1, <2>7 DEF x
<1> HIDE DEF T
<1>3. Seq(Seq(S)) \subseteq T
  BY <1>1, <1>2, SeqInduction
<1> QED
  BY <1>3 DEF T

LEMMA HeadAndTail ==
  ASSUME NEW S, NEW s \in Seq(S), s # <<>>
  PROVE  /\ Tail(s) \in Seq(S)
         /\ s[1] \in S
         /\ s = <<s[1]>> \o Tail(s)
<1>1. Len(s) \in Nat /\ Len(s) # 0
  BY EmptySeq, LenProperties
<1>2. 1 \in 1 .. Len(s) /\ Len(s) \in 1 .. Len(s)
  BY <1>1
<1>3. SubSeq(s, 1, Len(s)) = <<s[1]>> \o SubSeq(s, 1 + 1, Len(s))
  BY <1>2, SubSeqRecursiveFirst
<1> QED
  BY <1>2, <1>3, SubSeqFull, TailIsSubSeq, HeadTailProperties, ElementOfSeq

-----------------------------------------------------------------------------
(* Opening the elements of a sequence.                                     *)

\* The elements of s, each replaced by what g has for it; and opened, where
\* that is a sequence.
Map(g, s) == [i \in DOMAIN s |-> g[s[i]]]
FlatMap(g, s) == FlattenSeq(Map(g, s))

Maps(g, S, R) == \A x \in S : g[x] \in R

\* What is known of g is known of Map and FlatMap.
LEMMA MapIs ==
  ASSUME NEW S, NEW R, NEW g, Maps(g, S, R), NEW s \in Seq(S)
  PROVE  /\ Map(g, s) \in Seq(R)
         /\ Len(Map(g, s)) = Len(s)
         /\ \A i \in 1 .. Len(s) : Map(g, s)[i] = g[s[i]]
<1>1. Len(s) \in Nat /\ DOMAIN s = 1 .. Len(s) /\ \A i \in 1 .. Len(s) : s[i] \in S
  BY LenProperties, ElementOfSeq
<1>2. Map(g, s) \in [1 .. Len(s) -> R]
  BY <1>1 DEF Map, Maps
<1>3. \A i \in 1 .. Len(s) : Map(g, s)[i] = g[s[i]]
  BY <1>1 DEF Map
<1> DEFINE m == Map(g, s)
           n == Len(s)
<1> HIDE DEF m, n
<1>4. m \in Seq(R) /\ Len(m) = n
  <2>1. n \in Nat /\ m \in [1 .. n -> R]
    BY <1>1, <1>2 DEF m, n
  <2>2. m \in Seq(R)
    BY <2>1, SeqDef
  <2> QED
    BY <2>1, <2>2, LenProperties
<1> QED
  BY <1>3, <1>4 DEF m, n

LEMMA MapAppend ==
  ASSUME NEW S, NEW R, NEW g, Maps(g, S, R), NEW s \in Seq(S), NEW e \in S
  PROVE  Map(g, Append(s, e)) = Append(Map(g, s), g[e])
<1> DEFINE n == Len(s)
           m == Map(g, s)
           t == Append(s, e)
           mt == Map(g, t)
<1>1. n \in Nat
  BY LenProperties
<1>2. m \in Seq(R) /\ Len(m) = n /\ \A i \in 1 .. n : m[i] = g[s[i]]
  BY MapIs
<1>3. /\ t \in Seq(S)
      /\ Len(t) = n + 1
      /\ \A i \in 1 .. n : t[i] = s[i]
      /\ t[n + 1] = e
  BY <1>1, AppendProperties
<1> HIDE DEF t
<1>4. mt \in Seq(R) /\ Len(mt) = n + 1 /\ \A i \in 1 .. n + 1 : mt[i] = g[t[i]]
  BY <1>3, MapIs
<1> HIDE DEF m, mt
<1>5. /\ Append(m, g[e]) \in Seq(R)
      /\ Len(Append(m, g[e])) = n + 1
      /\ \A i \in 1 .. n : Append(m, g[e])[i] = m[i]
      /\ Append(m, g[e])[n + 1] = g[e]
  <2>1. g[e] \in R
    BY DEF Maps
  <2> QED
    BY <1>2, <2>1, AppendProperties
<1>6. \A i \in 1 .. n + 1 : mt[i] = Append(m, g[e])[i]
  <2>1. \A i \in 1 .. n + 1 : i \in 1 .. n \/ i = n + 1
    BY <1>1
  <2> QED
    BY <1>2, <1>3, <1>4, <1>5, <2>1
<1>7. mt = Append(m, g[e])
  BY <1>4, <1>5, <1>6, SeqEqual
<1> QED
  BY <1>7 DEF m, mt, t

LEMMA FlatMapEmpty ==
  ASSUME NEW g
  PROVE  FlatMap(g, <<>>) = <<>>
<1>1. Map(g, <<>>) = <<>>
  BY DEF Map
<1> QED
  BY <1>1, FlattenEmpty DEF FlatMap

LEMMA FlatMapTyped ==
  ASSUME NEW S, NEW R, NEW g, Maps(g, S, Seq(R)), NEW s \in Seq(S)
  PROVE  FlatMap(g, s) \in Seq(R)
<1>1. Map(g, s) \in Seq(Seq(R))
  BY MapIs
<1> QED
  BY <1>1, FlattenTyped DEF FlatMap

LEMMA FlatMapAppend ==
  ASSUME NEW S, NEW R, NEW g, Maps(g, S, Seq(R)), NEW s \in Seq(S), NEW e \in S
  PROVE  FlatMap(g, Append(s, e)) = FlatMap(g, s) \o g[e]
<1>1. g[e] \in Seq(R)
  BY DEF Maps
<1>2. Map(g, s) \in Seq(Seq(R)) /\ Map(g, Append(s, e)) = Append(Map(g, s), g[e])
  BY MapIs, MapAppend
<1> QED
  BY <1>1, <1>2, FlattenAppend DEF FlatMap

LEMMA FlatMapConcat ==
  ASSUME NEW S, NEW R, NEW g, Maps(g, S, Seq(R)), NEW s \in Seq(S), NEW t \in Seq(S)
  PROVE  FlatMap(g, s \o t) = FlatMap(g, s) \o FlatMap(g, t)
<1> DEFINE T == {u \in Seq(S) : FlatMap(g, s \o u) = FlatMap(g, s) \o FlatMap(g, u)}
<1>0. FlatMap(g, s) \in Seq(R)
  BY FlatMapTyped
<1>1. <<>> \in T
  <2>1. s \o <<>> = s /\ FlatMap(g, s) \o <<>> = FlatMap(g, s)
    BY <1>0, ConcatEmptySeq
  <2> QED
    BY <2>1, FlatMapEmpty, EmptySeq
<1>2. ASSUME NEW u \in Seq(S), NEW e \in S, u \in T PROVE Append(u, e) \in T
  <2>1. s \o Append(u, e) = Append(s \o u, e) /\ s \o u \in Seq(S) /\ Append(u, e) \in Seq(S)
    BY ConcatAppend, ConcatProperties, AppendProperties
  <2>2. FlatMap(g, Append(s \o u, e)) = FlatMap(g, s \o u) \o g[e]
    <3> DEFINE su == s \o u
    <3> HIDE DEF su
    <3>1. su \in Seq(S)
      BY <2>1 DEF su
    <3>2. FlatMap(g, Append(su, e)) = FlatMap(g, su) \o g[e]
      BY <3>1, FlatMapAppend
    <3> QED
      BY <3>2 DEF su
  <2>3. FlatMap(g, Append(u, e)) = FlatMap(g, u) \o g[e]
    BY FlatMapAppend
  <2>4. FlatMap(g, s \o u) = FlatMap(g, s) \o FlatMap(g, u)
    BY <1>2
  <2>5. FlatMap(g, u) \in Seq(R) /\ g[e] \in Seq(R)
    BY FlatMapTyped DEF Maps
  <2>6. (FlatMap(g, s) \o FlatMap(g, u)) \o g[e] = FlatMap(g, s) \o (FlatMap(g, u) \o g[e])
    <3> DEFINE x == FlatMap(g, s)
               y == FlatMap(g, u)
               z == g[e]
    <3>1. x \in Seq(R) /\ y \in Seq(R) /\ z \in Seq(R)
      BY <1>0, <2>5
    <3> HIDE DEF x, y, z
    <3>2. (x \o y) \o z = x \o (y \o z)
      BY <3>1, ConcatAssociative, SMTT(30)
    <3> QED
      BY <3>2 DEF x, y, z
  <2> QED
    BY <2>1, <2>2, <2>3, <2>4, <2>6
<1> HIDE DEF T
<1>3. Seq(S) \subseteq T
  BY <1>1, <1>2, SeqInduction
<1> QED
  BY <1>3 DEF T

\* Opening in two steps is opening in one.
LEMMA FlatMapTwice ==
  ASSUME NEW S, NEW R, NEW Q, NEW h, Maps(h, S, Seq(R)), NEW g, Maps(g, R, Seq(Q)),
         NEW both, Maps(both, S, Seq(Q)), NEW s \in Seq(S),
         \A i \in DOMAIN s : both[s[i]] = FlatMap(g, h[s[i]])
  PROVE  FlatMap(g, FlatMap(h, s)) = FlatMap(both, s)
<1> DEFINE T == {u \in Seq(S) : (\A i \in DOMAIN u : both[u[i]] = FlatMap(g, h[u[i]]))
                                  => FlatMap(g, FlatMap(h, u)) = FlatMap(both, u)}
<1>1. <<>> \in T
  BY FlatMapEmpty, EmptySeq
<1>2. ASSUME NEW u \in Seq(S), NEW e \in S, u \in T PROVE Append(u, e) \in T
  <2> DEFINE v == Append(u, e)
  <2>1. /\ v \in Seq(S) /\ Len(v) = Len(u) + 1 /\ Len(u) \in Nat
        /\ \A i \in 1 .. Len(u) : v[i] = u[i]
        /\ v[Len(u) + 1] = e
    BY AppendProperties, LenProperties
  <2>2. DOMAIN v = 1 .. Len(u) + 1 /\ DOMAIN u = 1 .. Len(u)
    <3> HIDE DEF v
    <3> QED
      BY <2>1, LenProperties
  <2> HIDE DEF v
  <2> SUFFICES ASSUME \A i \in DOMAIN v : both[v[i]] = FlatMap(g, h[v[i]])
               PROVE  FlatMap(g, FlatMap(h, v)) = FlatMap(both, v)
    BY <2>1 DEF v
  <2>3. \A i \in DOMAIN u : both[u[i]] = FlatMap(g, h[u[i]])
    BY <2>1, <2>2
  <2>4. both[e] = FlatMap(g, h[e])
    <3>1. Len(u) + 1 \in DOMAIN v
      BY <2>1, <2>2
    <3>2. both[v[Len(u) + 1]] = FlatMap(g, h[v[Len(u) + 1]])
      BY <3>1
    <3> QED
      BY <2>1, <3>2
  <2>5. FlatMap(h, v) = FlatMap(h, u) \o h[e] /\ FlatMap(both, v) = FlatMap(both, u) \o both[e]
    <3>1. FlatMap(h, v) = FlatMap(h, u) \o h[e]
      BY FlatMapAppend DEF v
    <3>2. FlatMap(both, v) = FlatMap(both, u) \o both[e]
      BY FlatMapAppend DEF v
    <3> QED
      BY <3>1, <3>2
  <2>6. FlatMap(h, u) \in Seq(R) /\ h[e] \in Seq(R)
    BY FlatMapTyped DEF Maps
  <2>7. FlatMap(g, FlatMap(h, u) \o h[e]) = FlatMap(g, FlatMap(h, u)) \o FlatMap(g, h[e])
    <3> DEFINE x == FlatMap(h, u)
               y == h[e]
    <3>1. x \in Seq(R) /\ y \in Seq(R)
      BY <2>6
    <3> HIDE DEF x, y
    <3>2. FlatMap(g, x \o y) = FlatMap(g, x) \o FlatMap(g, y)
      BY <3>1, FlatMapConcat
    <3> QED
      BY <3>2 DEF x, y
  <2> QED
    BY <1>2, <2>3, <2>4, <2>5, <2>7
<1> HIDE DEF T
<1>3. Seq(S) \subseteq T
  BY <1>1, <1>2, SeqInduction
<1> QED
  BY <1>3 DEF T

LEMMA FlatMapOne ==
  ASSUME NEW S, NEW R, NEW g, Maps(g, S, Seq(R)), NEW e \in S
  PROVE  FlatMap(g, <<e>>) = g[e]
<1>1. <<>> \in Seq(S) /\ Append(<<>>, e) = <<e>>
  OBVIOUS
<1>2. FlatMap(g, Append(<<>>, e)) = FlatMap(g, <<>>) \o g[e]
  BY <1>1, FlatMapAppend
<1>3. g[e] \in Seq(R) /\ <<>> \o g[e] = g[e]
  BY ConcatEmptySeq DEF Maps
<1> QED
  BY <1>1, <1>2, <1>3, FlatMapEmpty
=============================================================================
