---------------------------- MODULE PortsProofs ----------------------------
(***************************************************************************)
(* Proofs about Ports, for any set of boxes and any bounds.                *)
(*                                                                         *)
(* The argument is about one vector and its list (BoxInletInv): that the   *)
(* list is exactly the vector's ports, and that these are in the order of  *)
(* their allocation, is inductive; the order is what makes the ports a     *)
(* shrinking vector frees different from those it keeps.  InletInv and     *)
(* OutletInv say it of every box.                                          *)
(***************************************************************************)
EXTENDS Ports, SequenceLemmas

-----------------------------------------------------------------------------
(* Inlets.                                                                 *)

\* The invariant of one box, over the vector and the list it has.
BoxInletInv(vector, list, allocated) ==
  /\ vector \in Seq([index : Nat, inlet : 1 .. allocated])
  /\ list = {vector[i].inlet : i \in DOMAIN vector}
  /\ \A i, j \in DOMAIN vector : i < j => vector[i].inlet < vector[j].inlet
  /\ \A i \in DOMAIN vector : vector[i].index = i - 1

LEMMA RecordFields ==
  ASSUME NEW n \in Nat, NEW v \in Seq([index : Nat, inlet : 1 .. n])
  PROVE  \A i \in 1 .. Len(v) : v[i].index \in Nat /\ v[i].inlet \in 1 .. n
<1> SUFFICES ASSUME NEW i \in 1 .. Len(v)
             PROVE  v[i].index \in Nat /\ v[i].inlet \in 1 .. n
  OBVIOUS
<1>1. v[i] \in [index : Nat, inlet : 1 .. n]
  BY ElementOfSeq
<1> QED
  BY <1>1

LEMMA ShrinkVector ==
  ASSUME NEW allocated \in Nat, NEW v, NEW l, BoxInletInv(v, l, allocated),
         NEW size \in Nat, size < Len(v)
  PROVE  BoxInletInv(SubSeq(v, 1, size), l \ {v[i].inlet : i \in size + 1 .. Len(v)}, allocated)
<1> DEFINE R == [index : Nat, inlet : 1 .. allocated]
           kept == SubSeq(v, 1, size)
<1>1. v \in Seq(R) /\ Len(v) \in Nat /\ DOMAIN v = 1 .. Len(v)
  BY LenProperties DEF BoxInletInv
<1>2. /\ kept \in Seq(R)
      /\ DOMAIN kept = 1 .. size
      /\ \A i \in 1 .. size : kept[i] = v[i]
  <2> HIDE DEF R
  <2>1. size <= Len(v)
    BY <1>1
  <2> QED
    BY <1>1, <2>1, Prefix
<1> HIDE DEF kept
<1>3. \A i \in 1 .. size : i \in DOMAIN v
  BY <1>1
<1>4. \A i \in 1 .. Len(v) : v[i].inlet \in Nat
  <2>1. \A i \in 1 .. Len(v) : v[i].inlet \in 1 .. allocated
    BY <1>1, RecordFields
  <2> QED
    BY <2>1
<1>5. \A i \in 1 .. size : \A j \in size + 1 .. Len(v) : v[i].inlet # v[j].inlet
  <2> SUFFICES ASSUME NEW i \in 1 .. size, NEW j \in size + 1 .. Len(v)
               PROVE  v[i].inlet # v[j].inlet
    OBVIOUS
  <2>1. i \in DOMAIN v /\ j \in DOMAIN v /\ i < j
    BY <1>1
  <2>2. v[i].inlet < v[j].inlet
    BY <2>1 DEF BoxInletInv
  <2> QED
    BY <1>1, <1>4, <2>1, <2>2
<1>6. l \ {v[i].inlet : i \in size + 1 .. Len(v)} = {v[i].inlet : i \in 1 .. size}
  <2>1. l = {v[i].inlet : i \in 1 .. Len(v)}
    BY <1>1 DEF BoxInletInv
  <2>2. \A i \in 1 .. Len(v) : i \in 1 .. size \/ i \in size + 1 .. Len(v)
    BY <1>1
  <2>3. \A i \in 1 .. size : i \in 1 .. Len(v)
    BY <1>1
  <2> QED
    BY <1>5, <2>1, <2>2, <2>3
<1>7. {v[i].inlet : i \in 1 .. size} = {kept[i].inlet : i \in DOMAIN kept}
  BY <1>2
<1> QED
  BY <1>2, <1>3, <1>6, <1>7 DEF BoxInletInv, kept

LEMMA GrowVector ==
  ASSUME NEW allocated \in Nat, NEW v, NEW l, BoxInletInv(v, l, allocated),
         NEW added \in Nat,
         NEW f \in [1 .. added -> [index : Nat, inlet : 1 .. allocated + added]],
         \A k \in 1 .. added : /\ f[k].index = Len(v) + k - 1
                                /\ f[k].inlet = allocated + k
  PROVE  BoxInletInv(v \o f, l \cup allocated + 1 .. allocated + added, allocated + added)
<1> DEFINE R == [index : Nat, inlet : 1 .. allocated]
           S == [index : Nat, inlet : 1 .. allocated + added]
           grown == v \o f
           old == Len(v)
<1>1. v \in Seq(R) /\ old \in Nat /\ DOMAIN v = 1 .. old
  BY LenProperties DEF BoxInletInv
<1>2. v \in Seq(S)
  <2>1. R \subseteq S
    OBVIOUS
  <2> QED
    BY <1>1, <2>1, SeqMonotonic
<1>3. /\ grown \in Seq(S)
      /\ DOMAIN grown = 1 .. old + added
      /\ \A i \in 1 .. old : grown[i] = v[i]
      /\ \A i \in old + 1 .. old + added : grown[i] = f[i - old]
  <2>1. f \in [1 .. added -> S]
    OBVIOUS
  <2> HIDE DEF S
  <2> QED
    BY <1>2, <2>1, Extension
<1> HIDE DEF grown
<1>4. \A i \in old + 1 .. old + added :
        grown[i].index = i - 1 /\ grown[i].inlet = allocated + (i - old)
  <2> SUFFICES ASSUME NEW i \in old + 1 .. old + added
               PROVE  grown[i].index = i - 1 /\ grown[i].inlet = allocated + (i - old)
    OBVIOUS
  <2>1. i - old \in 1 .. added /\ old + (i - old) - 1 = i - 1
    BY <1>1
  <2> QED
    BY <1>3, <2>1
<1>5. \A i \in 1 .. old : v[i].inlet \in 1 .. allocated /\ v[i].index = i - 1
  <2>1. \A i \in 1 .. old : v[i].inlet \in 1 .. allocated
    BY <1>1, RecordFields
  <2> QED
    BY <1>1, <2>1 DEF BoxInletInv
<1>6. l \cup allocated + 1 .. allocated + added = {grown[i].inlet : i \in DOMAIN grown}
  <2>1. l = {grown[i].inlet : i \in 1 .. old}
    BY <1>1, <1>3 DEF BoxInletInv
  <2>2. allocated + 1 .. allocated + added = {grown[i].inlet : i \in old + 1 .. old + added}
    <3>1. \A n \in allocated + 1 .. allocated + added :
            /\ n - allocated + old \in old + 1 .. old + added
            /\ grown[n - allocated + old].inlet = n
      <4> SUFFICES ASSUME NEW n \in allocated + 1 .. allocated + added
                   PROVE  /\ n - allocated + old \in old + 1 .. old + added
                          /\ grown[n - allocated + old].inlet = n
        OBVIOUS
      <4>1. n - allocated + old \in old + 1 .. old + added
        BY <1>1
      <4>2. allocated + ((n - allocated + old) - old) = n
        BY <1>1
      <4> QED
        BY <1>4, <4>1, <4>2
    <3>2. \A i \in old + 1 .. old + added : grown[i].inlet \in allocated + 1 .. allocated + added
      BY <1>1, <1>4
    <3> QED
      BY <3>1, <3>2
  <2>3. 1 .. old + added = 1 .. old \cup old + 1 .. old + added
    BY <1>1
  <2> QED
    BY <1>3, <2>1, <2>2, <2>3
<1>7. \A i, j \in DOMAIN grown : i < j => grown[i].inlet < grown[j].inlet
  <2> SUFFICES ASSUME NEW i \in 1 .. old + added, NEW j \in 1 .. old + added, i < j
               PROVE  grown[i].inlet < grown[j].inlet
    BY <1>3
  <2>1. CASE j <= old
    <3>1. i \in DOMAIN v /\ j \in DOMAIN v /\ i \in 1 .. old /\ j \in 1 .. old
      BY <1>1, <2>1
    <3> QED
      BY <1>3, <3>1 DEF BoxInletInv
  <2>2. CASE i <= old /\ j > old
    <3>1. i \in 1 .. old /\ j \in old + 1 .. old + added
      BY <1>1, <2>2
    <3>2. grown[i].inlet \in 1 .. allocated
      BY <1>3, <1>5, <3>1
    <3>3. grown[j].inlet = allocated + (j - old)
      BY <1>4, <3>1
    <3>4. allocated < allocated + (j - old)
      BY <1>1, <3>1
    <3>5. grown[i].inlet <= allocated /\ grown[i].inlet \in Int
      BY <3>2
    <3>6. allocated + (j - old) \in Int
      BY <1>1, <3>1
    <3> QED
      BY <3>3, <3>4, <3>5, <3>6
  <2>3. CASE i > old
    <3>1. i \in old + 1 .. old + added /\ j \in old + 1 .. old + added
      BY <1>1, <2>3
    <3> QED
      BY <1>1, <1>4, <3>1
  <2> QED
    BY <1>1, <2>1, <2>2, <2>3
<1>8. \A i \in DOMAIN grown : grown[i].index = i - 1
  <2>1. \A i \in 1 .. old : grown[i].index = i - 1
    BY <1>3, <1>5
  <2>2. \A i \in 1 .. old + added : i \in 1 .. old \/ i \in old + 1 .. old + added
    BY <1>1
  <2> QED
    BY <1>3, <1>4, <2>1, <2>2
<1> QED
  BY <1>3, <1>6, <1>7, <1>8 DEF BoxInletInv, grown

LEMMA WidenInlets ==
  ASSUME NEW a \in Nat, NEW b \in Nat, a <= b, NEW v, NEW l, BoxInletInv(v, l, a)
  PROVE  BoxInletInv(v, l, b)
<1> DEFINE R == [index : Nat, inlet : 1 .. a]
           S == [index : Nat, inlet : 1 .. b]
<1>1. R \subseteq S
  OBVIOUS
<1>2. v \in Seq(R)
  BY DEF BoxInletInv
<1>3. v \in Seq(S)
  <2> HIDE DEF R, S
  <2> QED
    BY <1>1, <1>2, SeqMonotonic
<1> QED
  BY <1>3 DEF BoxInletInv

LEMMA ListedInlets ==
  ASSUME NEW a \in Nat, NEW v, NEW l, BoxInletInv(v, l, a)
  PROVE  l \in SUBSET (1 .. a)
<1>1. v \in Seq([index : Nat, inlet : 1 .. a])
  BY DEF BoxInletInv
<1>2. DOMAIN v = 1 .. Len(v)
  BY <1>1, LenProperties
<1>3. \A i \in 1 .. Len(v) : v[i].inlet \in 1 .. a
  BY <1>1, RecordFields
<1> QED
  BY <1>2, <1>3 DEF BoxInletInv

InletInv ==
  /\ newInlet \in Nat
  /\ inlets \in [Box -> Seq([index : Nat, inlet : 1 .. newInlet])]
  /\ pdInlets \in [Box -> SUBSET (1 .. newInlet)]
  /\ \A x \in Box : BoxInletInv(inlets[x], pdInlets[x], newInlet)

\* One box changes, the others keep what they have.
LEMMA OneBoxOfInlets ==
  ASSUME InletInv, NEW x \in Box, NEW v, NEW l, NEW n \in Nat, newInlet <= n,
         BoxInletInv(v, l, n),
         inlets' = [inlets EXCEPT ![x] = v],
         pdInlets' = [pdInlets EXCEPT ![x] = l],
         newInlet' = n
  PROVE  InletInv'
<1>1. \A y \in Box : BoxInletInv(inlets[y], pdInlets[y], n)
  BY WidenInlets DEF InletInv
<1>2. inlets = [y \in Box |-> inlets[y]] /\ pdInlets = [y \in Box |-> pdInlets[y]]
  BY DEF InletInv
<1>3. \A y \in Box : BoxInletInv(inlets'[y], pdInlets'[y], n)
  <2> SUFFICES ASSUME NEW y \in Box
               PROVE  BoxInletInv(inlets'[y], pdInlets'[y], n)
    OBVIOUS
  <2>1. CASE y = x
    <3>1. inlets'[y] = v /\ pdInlets'[y] = l
      BY <1>2, <2>1
    <3> QED
      BY <3>1
  <2>2. CASE y # x
    <3>1. inlets'[y] = inlets[y] /\ pdInlets'[y] = pdInlets[y]
      BY <1>2, <2>2
    <3> QED
      BY <1>1, <3>1
  <2> QED
    BY <2>1, <2>2
<1>4. \A y \in Box : inlets'[y] \in Seq([index : Nat, inlet : 1 .. n])
  BY <1>3 DEF BoxInletInv
<1>5. \A y \in Box : pdInlets'[y] \in SUBSET (1 .. n)
  BY <1>3, ListedInlets
<1>6. /\ inlets' = [y \in Box |-> inlets'[y]]
      /\ pdInlets' = [y \in Box |-> pdInlets'[y]]
  BY <1>2
<1> QED
  BY <1>3, <1>4, <1>5, <1>6 DEF InletInv

LEMMA SetInletsKeepsInv ==
  ASSUME InletInv, NEW x \in Box, NEW n \in Int, SetInlets(x, n)
  PROVE  InletInv'
<1> DEFINE size == InletCount(n)
<1>0. size \in Nat
  BY DEF InletCount
<1>1. /\ newInlet \in Nat
      /\ BoxInletInv(inlets[x], pdInlets[x], newInlet)
      /\ Len(inlets[x]) \in Nat
  BY LenProperties DEF InletInv
<1> HIDE DEF size
<1>2. CASE ShrinkInlets(x, size)
  <2> DEFINE kept == SubSeq(inlets[x], 1, size)
             left == pdInlets[x] \ DroppedInlets(x, size)
  <2>1. BoxInletInv(kept, left, newInlet)
    BY <1>0, <1>1, <1>2, ShrinkVector DEF ShrinkInlets, DroppedInlets
  <2>2. /\ inlets' = [inlets EXCEPT ![x] = kept]
        /\ pdInlets' = [pdInlets EXCEPT ![x] = left]
        /\ newInlet' = newInlet
    BY <1>2 DEF ShrinkInlets
  <2>3. newInlet <= newInlet
    BY <1>1
  <2> HIDE DEF kept, left
  <2> QED
    BY <1>1, <2>1, <2>2, <2>3, OneBoxOfInlets
<1>3. CASE GrowInlets(x, size)
  <2> DEFINE old == Len(inlets[x])
             added == size - old
             f == [k \in 1 .. added |-> InletRecord(old, k)]
  <2>1. added \in Nat
    BY <1>0, <1>1, <1>3 DEF GrowInlets
  <2>2. f \in [1 .. added -> [index : Nat, inlet : 1 .. newInlet + added]]
    BY <1>1, <2>1 DEF InletRecord
  <2>3. \A k \in 1 .. added : /\ f[k].index = Len(inlets[x]) + k - 1
                               /\ f[k].inlet = newInlet + k
    BY DEF InletRecord
  <2>4. BoxInletInv(inlets[x] \o f, pdInlets[x] \cup newInlet + 1 .. newInlet + added, newInlet + added)
    <3> HIDE DEF f, added
    <3> QED
      BY <1>1, <2>1, <2>2, <2>3, GrowVector
  <2>5. /\ inlets' = [inlets EXCEPT ![x] = inlets[x] \o f]
        /\ pdInlets' = [pdInlets EXCEPT ![x] = pdInlets[x] \cup newInlet + 1 .. newInlet + added]
        /\ newInlet' = newInlet + added
    BY <1>3 DEF GrowInlets
  <2>6. newInlet + added \in Nat /\ newInlet <= newInlet + added
    BY <1>1, <2>1
  <2> HIDE DEF f, added
  <2> QED
    BY <2>4, <2>5, <2>6, OneBoxOfInlets
<1>4. CASE UNCHANGED inletVars
  BY <1>4 DEF InletInv, inletVars
<1> QED
  BY <1>2, <1>3, <1>4 DEF SetInlets, size

-----------------------------------------------------------------------------
(* Outlets: the same argument, the vector holding the ports themselves.    *)

BoxOutletInv(vector, list, allocated) ==
  /\ vector \in Seq(1 .. allocated)
  /\ list = {vector[i] : i \in DOMAIN vector}
  /\ \A i, j \in DOMAIN vector : i < j => vector[i] < vector[j]

LEMMA ShrinkOutletVector ==
  ASSUME NEW allocated \in Nat, NEW v, NEW l, BoxOutletInv(v, l, allocated),
         NEW size \in Nat, size < Len(v)
  PROVE  BoxOutletInv(SubSeq(v, 1, size), l \ {v[i] : i \in size + 1 .. Len(v)}, allocated)
<1> DEFINE kept == SubSeq(v, 1, size)
<1>1. /\ v \in Seq(1 .. allocated)
      /\ Len(v) \in Nat
      /\ DOMAIN v = 1 .. Len(v)
  BY LenProperties DEF BoxOutletInv
<1>2. /\ kept \in Seq(1 .. allocated)
      /\ DOMAIN kept = 1 .. size
      /\ \A i \in 1 .. size : kept[i] = v[i]
  <2>1. size <= Len(v)
    BY <1>1
  <2> QED
    BY <1>1, <2>1, Prefix
<1> HIDE DEF kept
<1>3. \A i \in 1 .. size : i \in DOMAIN v
  BY <1>1
<1>4. \A i \in 1 .. Len(v) : v[i] \in 1 .. allocated
  BY <1>1, ElementOfSeq
<1>5. \A i \in 1 .. size : \A j \in size + 1 .. Len(v) : v[i] # v[j]
  <2> SUFFICES ASSUME NEW i \in 1 .. size, NEW j \in size + 1 .. Len(v)
               PROVE  v[i] # v[j]
    OBVIOUS
  <2>1. i \in DOMAIN v /\ j \in DOMAIN v /\ i < j
    BY <1>1
  <2>2. v[i] < v[j]
    BY <2>1 DEF BoxOutletInv
  <2> QED
    BY <1>1, <1>4, <2>1, <2>2
<1>6. l \ {v[i] : i \in size + 1 .. Len(v)} = {v[i] : i \in 1 .. size}
  <2>1. l = {v[i] : i \in 1 .. Len(v)}
    BY <1>1 DEF BoxOutletInv
  <2>2. \A i \in 1 .. Len(v) : i \in 1 .. size \/ i \in size + 1 .. Len(v)
    BY <1>1
  <2>3. \A i \in 1 .. size : i \in 1 .. Len(v)
    BY <1>1
  <2> QED
    BY <1>5, <2>1, <2>2, <2>3
<1>7. {v[i] : i \in 1 .. size} = {kept[i] : i \in DOMAIN kept}
  BY <1>2
<1>8. \A i, j \in DOMAIN kept : i < j => kept[i] < kept[j]
  BY <1>2, <1>3 DEF BoxOutletInv
<1> QED
  BY <1>2, <1>6, <1>7, <1>8 DEF BoxOutletInv, kept

LEMMA GrowOutletVector ==
  ASSUME NEW allocated \in Nat, NEW v, NEW l, BoxOutletInv(v, l, allocated),
         NEW added \in Nat, NEW f \in [1 .. added -> 1 .. allocated + added],
         \A k \in 1 .. added : f[k] = allocated + k
  PROVE  BoxOutletInv(v \o f, l \cup allocated + 1 .. allocated + added, allocated + added)
<1> DEFINE grown == v \o f
           old == Len(v)
<1>1. v \in Seq(1 .. allocated) /\ old \in Nat /\ DOMAIN v = 1 .. old
  BY LenProperties DEF BoxOutletInv
<1>2. v \in Seq(1 .. allocated + added)
  <2>1. 1 .. allocated \subseteq 1 .. allocated + added
    OBVIOUS
  <2> QED
    BY <1>1, <2>1, SeqMonotonic
<1>3. /\ grown \in Seq(1 .. allocated + added)
      /\ DOMAIN grown = 1 .. old + added
      /\ \A i \in 1 .. old : grown[i] = v[i]
      /\ \A i \in old + 1 .. old + added : grown[i] = f[i - old]
  BY <1>2, Extension
<1> HIDE DEF grown
<1>4. \A i \in old + 1 .. old + added : grown[i] = allocated + (i - old)
  BY <1>1, <1>3
<1>5. \A i \in 1 .. old : v[i] \in 1 .. allocated
  BY <1>1, ElementOfSeq
<1>6. l \cup allocated + 1 .. allocated + added = {grown[i] : i \in DOMAIN grown}
  <2>1. l = {grown[i] : i \in 1 .. old}
    BY <1>1, <1>3 DEF BoxOutletInv
  <2>2. allocated + 1 .. allocated + added = {grown[i] : i \in old + 1 .. old + added}
    <3>1. \A n \in allocated + 1 .. allocated + added :
            /\ n - allocated + old \in old + 1 .. old + added
            /\ grown[n - allocated + old] = n
      <4> SUFFICES ASSUME NEW n \in allocated + 1 .. allocated + added
                   PROVE  /\ n - allocated + old \in old + 1 .. old + added
                          /\ grown[n - allocated + old] = n
        OBVIOUS
      <4>1. n - allocated + old \in old + 1 .. old + added
        BY <1>1
      <4>2. allocated + ((n - allocated + old) - old) = n
        BY <1>1
      <4> QED
        BY <1>4, <4>1, <4>2
    <3>2. \A i \in old + 1 .. old + added : grown[i] \in allocated + 1 .. allocated + added
      BY <1>1, <1>4
    <3> QED
      BY <3>1, <3>2
  <2>3. 1 .. old + added = 1 .. old \cup old + 1 .. old + added
    BY <1>1
  <2> QED
    BY <1>3, <2>1, <2>2, <2>3
<1>7. \A i, j \in DOMAIN grown : i < j => grown[i] < grown[j]
  <2> SUFFICES ASSUME NEW i \in 1 .. old + added, NEW j \in 1 .. old + added, i < j
               PROVE  grown[i] < grown[j]
    BY <1>3
  <2>1. CASE j <= old
    <3>1. i \in DOMAIN v /\ j \in DOMAIN v /\ i \in 1 .. old /\ j \in 1 .. old
      BY <1>1, <2>1
    <3> QED
      BY <1>3, <3>1 DEF BoxOutletInv
  <2>2. CASE i <= old /\ j > old
    <3>1. i \in 1 .. old /\ j \in old + 1 .. old + added
      BY <1>1, <2>2
    <3>2. grown[i] \in 1 .. allocated
      BY <1>3, <1>5, <3>1
    <3>3. grown[j] = allocated + (j - old)
      BY <1>4, <3>1
    <3>4. allocated < allocated + (j - old) /\ allocated + (j - old) \in Int
      BY <1>1, <3>1
    <3>5. grown[i] <= allocated /\ grown[i] \in Int
      BY <3>2
    <3> QED
      BY <3>3, <3>4, <3>5
  <2>3. CASE i > old
    <3>1. i \in old + 1 .. old + added /\ j \in old + 1 .. old + added
      BY <1>1, <2>3
    <3> QED
      BY <1>1, <1>4, <3>1
  <2> QED
    BY <1>1, <2>1, <2>2, <2>3
<1> QED
  BY <1>3, <1>6, <1>7 DEF BoxOutletInv, grown

LEMMA WidenOutlets ==
  ASSUME NEW a \in Nat, NEW b \in Nat, a <= b, NEW v, NEW l, BoxOutletInv(v, l, a)
  PROVE  BoxOutletInv(v, l, b)
<1> DEFINE R == 1 .. a
           S == 1 .. b
<1>1. R \subseteq S
  OBVIOUS
<1>2. v \in Seq(R)
  BY DEF BoxOutletInv
<1>3. v \in Seq(S)
  <2> HIDE DEF R, S
  <2> QED
    BY <1>1, <1>2, SeqMonotonic
<1> QED
  BY <1>3 DEF BoxOutletInv

LEMMA ListedOutlets ==
  ASSUME NEW a \in Nat, NEW v, NEW l, BoxOutletInv(v, l, a)
  PROVE  l \in SUBSET (1 .. a)
<1>1. v \in Seq(1 .. a)
  BY DEF BoxOutletInv
<1>2. DOMAIN v = 1 .. Len(v)
  BY <1>1, LenProperties
<1>3. \A i \in 1 .. Len(v) : v[i] \in 1 .. a
  BY <1>1, ElementOfSeq
<1> QED
  BY <1>2, <1>3 DEF BoxOutletInv

OutletInv ==
  /\ newOutlet \in Nat
  /\ outlets \in [Box -> Seq(1 .. newOutlet)]
  /\ pdOutlets \in [Box -> SUBSET (1 .. newOutlet)]
  /\ \A x \in Box : BoxOutletInv(outlets[x], pdOutlets[x], newOutlet)

\* One box changes, the others keep what they have.
LEMMA OneBoxOfOutlets ==
  ASSUME OutletInv, NEW x \in Box, NEW v, NEW l, NEW n \in Nat, newOutlet <= n,
         BoxOutletInv(v, l, n),
         outlets' = [outlets EXCEPT ![x] = v],
         pdOutlets' = [pdOutlets EXCEPT ![x] = l],
         newOutlet' = n
  PROVE  OutletInv'
<1>1. \A y \in Box : BoxOutletInv(outlets[y], pdOutlets[y], n)
  BY WidenOutlets DEF OutletInv
<1>2. outlets = [y \in Box |-> outlets[y]] /\ pdOutlets = [y \in Box |-> pdOutlets[y]]
  BY DEF OutletInv
<1>3. \A y \in Box : BoxOutletInv(outlets'[y], pdOutlets'[y], n)
  <2> SUFFICES ASSUME NEW y \in Box
               PROVE  BoxOutletInv(outlets'[y], pdOutlets'[y], n)
    OBVIOUS
  <2>1. CASE y = x
    <3>1. outlets'[y] = v /\ pdOutlets'[y] = l
      BY <1>2, <2>1
    <3> QED
      BY <3>1
  <2>2. CASE y # x
    <3>1. outlets'[y] = outlets[y] /\ pdOutlets'[y] = pdOutlets[y]
      BY <1>2, <2>2
    <3> QED
      BY <1>1, <3>1
  <2> QED
    BY <2>1, <2>2
<1>4. \A y \in Box : outlets'[y] \in Seq(1 .. n)
  BY <1>3 DEF BoxOutletInv
<1>5. \A y \in Box : pdOutlets'[y] \in SUBSET (1 .. n)
  BY <1>3, ListedOutlets
<1>6. /\ outlets' = [y \in Box |-> outlets'[y]]
      /\ pdOutlets' = [y \in Box |-> pdOutlets'[y]]
  BY <1>2
<1> QED
  BY <1>3, <1>4, <1>5, <1>6 DEF OutletInv

LEMMA SetOutletsKeepsInv ==
  ASSUME OutletInv, NEW x \in Box, NEW n \in Int, SetOutlets(x, n)
  PROVE  OutletInv'
<1> DEFINE size == OutletCount(n)
<1>0. size \in Nat
  BY DEF OutletCount
<1>1. /\ newOutlet \in Nat
      /\ BoxOutletInv(outlets[x], pdOutlets[x], newOutlet)
      /\ Len(outlets[x]) \in Nat
  BY LenProperties DEF OutletInv
<1> HIDE DEF size
<1>2. CASE ShrinkOutlets(x, size)
  <2> DEFINE kept == SubSeq(outlets[x], 1, size)
             left == pdOutlets[x] \ DroppedOutlets(x, size)
  <2>1. BoxOutletInv(kept, left, newOutlet)
    BY <1>0, <1>1, <1>2, ShrinkOutletVector DEF ShrinkOutlets, DroppedOutlets
  <2>2. /\ outlets' = [outlets EXCEPT ![x] = kept]
        /\ pdOutlets' = [pdOutlets EXCEPT ![x] = left]
        /\ newOutlet' = newOutlet
    BY <1>2 DEF ShrinkOutlets
  <2>3. newOutlet <= newOutlet
    BY <1>1
  <2> HIDE DEF kept, left
  <2> QED
    BY <1>1, <2>1, <2>2, <2>3, OneBoxOfOutlets
<1>3. CASE GrowOutlets(x, size)
  <2> DEFINE old == Len(outlets[x])
             added == size - old
             f == [k \in 1 .. added |-> newOutlet + k]
  <2>1. added \in Nat
    BY <1>0, <1>1, <1>3 DEF GrowOutlets
  <2>2. f \in [1 .. added -> 1 .. newOutlet + added]
    BY <1>1, <2>1
  <2>3. \A k \in 1 .. added : f[k] = newOutlet + k
    OBVIOUS
  <2>4. BoxOutletInv(outlets[x] \o f, pdOutlets[x] \cup newOutlet + 1 .. newOutlet + added, newOutlet + added)
    <3> HIDE DEF f, added
    <3> QED
      BY <1>1, <2>1, <2>2, <2>3, GrowOutletVector
  <2>5. /\ outlets' = [outlets EXCEPT ![x] = outlets[x] \o f]
        /\ pdOutlets' = [pdOutlets EXCEPT ![x] = pdOutlets[x] \cup newOutlet + 1 .. newOutlet + added]
        /\ newOutlet' = newOutlet + added
    BY <1>3 DEF GrowOutlets
  <2>6. newOutlet + added \in Nat /\ newOutlet <= newOutlet + added
    BY <1>1, <2>1
  <2> HIDE DEF f, added
  <2> QED
    BY <2>4, <2>5, <2>6, OneBoxOfOutlets
<1>4. CASE UNCHANGED outletVars
  BY <1>4 DEF OutletInv, outletVars
<1> QED
  BY <1>2, <1>3, <1>4 DEF SetOutlets, size

-----------------------------------------------------------------------------
(* The specification.                                                      *)

PortsInv == InletInv /\ OutletInv

LEMMA EmptyBox ==
  ASSUME NEW a \in Nat
  PROVE  BoxInletInv(<<>>, {}, a) /\ BoxOutletInv(<<>>, {}, a)
<1>1. <<>> \in Seq([index : Nat, inlet : 1 .. a]) /\ <<>> \in Seq(1 .. a)
  BY EmptySeq
<1> QED
  BY <1>1 DEF BoxInletInv, BoxOutletInv

LEMMA PortsInitInv == PortsInit => PortsInv
<1> SUFFICES ASSUME PortsInit PROVE PortsInv
  OBVIOUS
<1>1. /\ BoxInletInv(<<>>, {}, 0) /\ BoxOutletInv(<<>>, {}, 0)
      /\ <<>> \in Seq([index : Nat, inlet : 1 .. 0]) /\ <<>> \in Seq(1 .. 0)
  BY EmptyBox, EmptySeq
<1>2. InletInv
  BY <1>1 DEF PortsInit, InletInv
<1>3. OutletInv
  BY <1>1 DEF PortsInit, OutletInv
<1> QED
  BY <1>2, <1>3 DEF PortsInv

LEMMA FreePortsKeepsInv ==
  ASSUME PortsInv, NEW x \in Box, FreePorts(x)
  PROVE  PortsInv'
<1>1. newInlet \in Nat /\ newOutlet \in Nat /\ newInlet <= newInlet /\ newOutlet <= newOutlet
  BY DEF PortsInv, InletInv, OutletInv
<1>2. BoxInletInv(<<>>, {}, newInlet) /\ BoxOutletInv(<<>>, {}, newOutlet)
  BY <1>1, EmptyBox
<1>3. InletInv'
  BY <1>1, <1>2, OneBoxOfInlets DEF FreePorts, PortsInv
<1>4. OutletInv'
  BY <1>1, <1>2, OneBoxOfOutlets DEF FreePorts, PortsInv
<1> QED
  BY <1>3, <1>4 DEF PortsInv

LEMMA UnchangedPortsKeepInv ==
  /\ InletInv /\ UNCHANGED inletVars => InletInv'
  /\ OutletInv /\ UNCHANGED outletVars => OutletInv'
<1>1. InletInv /\ UNCHANGED inletVars => InletInv'
  BY DEF InletInv, inletVars
<1>2. OutletInv /\ UNCHANGED outletVars => OutletInv'
  BY DEF OutletInv, outletVars
<1> QED
  BY <1>1, <1>2

LEMMA PortsNextKeepsInv ==
  ASSUME PortsInv, [PortsNext]_portVars
  PROVE  PortsInv'
<1>1. ASSUME NEW x \in Box, ResetPorts(x) PROVE PortsInv'
  BY <1>1, SetInletsKeepsInv, SetOutletsKeepsInv DEF ResetPorts, PortsInv
<1>2. ASSUME NEW x \in Box, FreePorts(x) PROVE PortsInv'
  BY <1>2, FreePortsKeepsInv
<1>3. ASSUME NEW x \in Box, Resize(x) PROVE PortsInv'
  <2>1. PICK n \in Counts :
          \/ SetInlets(x, n) /\ UNCHANGED outletVars
          \/ SetOutlets(x, n) /\ UNCHANGED inletVars
    BY <1>3 DEF Resize
  <2>2. n \in Int
    BY PortsAssumption DEF Counts
  <2>3. CASE SetInlets(x, n) /\ UNCHANGED outletVars
    <3>1. InletInv'
      BY <2>2, <2>3, SetInletsKeepsInv DEF PortsInv
    <3>2. OutletInv'
      BY <2>3, UnchangedPortsKeepInv DEF PortsInv
    <3> QED
      BY <3>1, <3>2 DEF PortsInv
  <2>4. CASE SetOutlets(x, n) /\ UNCHANGED inletVars
    <3>1. OutletInv'
      BY <2>2, <2>4, SetOutletsKeepsInv DEF PortsInv
    <3>2. InletInv'
      BY <2>4, UnchangedPortsKeepInv DEF PortsInv
    <3> QED
      BY <3>1, <3>2 DEF PortsInv
  <2> QED
    BY <2>1, <2>3, <2>4
<1>4. CASE UNCHANGED portVars
  <2>1. UNCHANGED inletVars /\ UNCHANGED outletVars
    BY <1>4 DEF portVars, inletVars, outletVars
  <2> QED
    BY <2>1, UnchangedPortsKeepInv DEF PortsInv
<1> QED
  BY <1>1, <1>2, <1>3, <1>4 DEF PortsNext

\* PortsInv holds of the ports of any number of boxes, however they resize.
THEOREM PortsInvariant == PortsSpec => []PortsInv
<1>1. PortsInit => PortsInv
  BY PortsInitInv
<1>2. PortsInv /\ [PortsNext]_portVars => PortsInv'
  BY PortsNextKeepsInv
<1> QED
  BY <1>1, <1>2, PTL DEF PortsSpec

LEMMA PortsInvImplies ==
  PortsInv => PortsTypeOK /\ InletsMatchPd /\ OutletsMatchPd /\ InletKnowsItsPosition
<1> SUFFICES ASSUME PortsInv
             PROVE  PortsTypeOK /\ InletsMatchPd /\ OutletsMatchPd /\ InletKnowsItsPosition
  OBVIOUS
<1>1. PortsTypeOK
  BY DEF PortsInv, InletInv, OutletInv, PortsTypeOK
<1>2. \A x \in Box : BoxInletInv(inlets[x], pdInlets[x], newInlet)
  BY DEF PortsInv, InletInv
<1>3. \A x \in Box : BoxOutletInv(outlets[x], pdOutlets[x], newOutlet)
  BY DEF PortsInv, OutletInv
<1>4. InletsMatchPd /\ InletKnowsItsPosition
  BY <1>2 DEF BoxInletInv, InletsMatchPd, InletKnowsItsPosition
<1>5. OutletsMatchPd
  BY <1>3 DEF BoxOutletInv, OutletsMatchPd
<1> QED
  BY <1>1, <1>4, <1>5

\* Type correctness.
THEOREM PortsTypeCorrect == PortsSpec => []PortsTypeOK
  BY PortsInvariant, PortsInvImplies, PTL

\* Pd never draws an inlet js_set_inlets has lost, nor lacks one it holds.
THEOREM InletsAlwaysMatchPd == PortsSpec => []InletsMatchPd
  BY PortsInvariant, PortsInvImplies, PTL

\* The same of outlets.
THEOREM OutletsAlwaysMatchPd == PortsSpec => []OutletsMatchPd
  BY PortsInvariant, PortsInvImplies, PTL

\* The inlet a script is told is the one the message came by.
THEOREM InletsKnowTheirPosition == PortsSpec => []InletKnowsItsPosition
  BY PortsInvariant, PortsInvImplies, PTL

-----------------------------------------------------------------------------
(* What a step does to the vectors.                                        *)

LEMMA ComparableToItself ==
  ASSUME NEW S, NEW v \in Seq(S)
  PROVE  Comparable(v, v)
<1>1. Len(v) <= Len(v)
  BY LenProperties
<1> QED
  BY <1>1 DEF Comparable, Extends

LEMMA ComparableToPrefix ==
  ASSUME NEW S, NEW v \in Seq(S), NEW n \in Nat, n <= Len(v)
  PROVE  Comparable(v, SubSeq(v, 1, n))
<1> DEFINE kept == SubSeq(v, 1, n)
<1>1. Len(kept) = n /\ DOMAIN kept = 1 .. n /\ \A i \in 1 .. n : kept[i] = v[i]
  BY Prefix
<1> HIDE DEF kept
<1>2. Extends(kept, v)
  BY <1>1 DEF Extends
<1> QED
  BY <1>2 DEF Comparable, kept

LEMMA ComparableToExtension ==
  ASSUME NEW S, NEW v \in Seq(S), NEW n \in Nat, NEW f \in [1 .. n -> S]
  PROVE  Comparable(v, v \o f)
<1> DEFINE grown == v \o f
<1>1. Len(grown) = Len(v) + n /\ \A i \in 1 .. Len(v) : grown[i] = v[i]
  BY Extension
<1>2. Len(v) \in Nat /\ DOMAIN v = 1 .. Len(v)
  BY LenProperties
<1> HIDE DEF grown
<1>3. Len(v) <= Len(grown)
  BY <1>1, <1>2
<1>4. Extends(v, grown)
  BY <1>1, <1>2, <1>3 DEF Extends
<1> QED
  BY <1>4 DEF Comparable, grown

LEMMA ComparableToNone ==
  ASSUME NEW S, NEW v \in Seq(S)
  PROVE  Comparable(v, <<>>)
<1>1. Len(<<>>) <= Len(v) /\ DOMAIN <<>> = {}
  BY LenProperties, EmptySeq
<1> QED
  BY <1>1 DEF Comparable, Extends

InletsKept  == \A y \in Box : Comparable(inlets[y], inlets'[y])
OutletsKept == \A y \in Box : Comparable(outlets[y], outlets'[y])

\* One box's vector changes, the others stay.
LEMMA OneVectorKept ==
  ASSUME NEW S, NEW vectors \in [Box -> Seq(S)], NEW new,
         NEW x \in Box, NEW v, Comparable(vectors[x], v), new = [vectors EXCEPT ![x] = v]
  PROVE  \A y \in Box : Comparable(vectors[y], new[y])
<1> SUFFICES ASSUME NEW y \in Box PROVE Comparable(vectors[y], new[y])
  OBVIOUS
<1>1. CASE y = x
  <2>1. new[y] = v
    BY <1>1
  <2> QED
    BY <1>1, <2>1
<1>2. CASE y # x
  <2>1. new[y] = vectors[y] /\ vectors[y] \in Seq(S)
    BY <1>2
  <2> QED
    BY <2>1, ComparableToItself
<1> QED
  BY <1>1, <1>2

LEMMA SetInletsKeeps ==
  ASSUME InletInv, NEW x \in Box, NEW n \in Int, SetInlets(x, n)
  PROVE  InletsKept
<1> DEFINE size == InletCount(n)
           R == [index : Nat, inlet : 1 .. newInlet]
<1>0. size \in Nat
  BY DEF InletCount
<1>1. newInlet \in Nat /\ inlets \in [Box -> Seq(R)] /\ Len(inlets[x]) \in Nat
  BY LenProperties DEF InletInv
<1> HIDE DEF size
<1>2. CASE ShrinkInlets(x, size)
  <2> DEFINE kept == SubSeq(inlets[x], 1, size)
  <2>1. size <= Len(inlets[x]) /\ inlets' = [inlets EXCEPT ![x] = kept]
    BY <1>0, <1>1, <1>2 DEF ShrinkInlets
  <2> HIDE DEF R
  <2>2. Comparable(inlets[x], kept)
    BY <1>0, <1>1, <2>1, ComparableToPrefix
  <2> HIDE DEF kept
  <2> QED
    BY <1>1, <2>1, <2>2, OneVectorKept DEF InletsKept
<1>3. CASE GrowInlets(x, size)
  <2> DEFINE added == size - Len(inlets[x])
             f == [k \in 1 .. added |-> InletRecord(Len(inlets[x]), k)]
             S == [index : Nat, inlet : 1 .. newInlet + added]
  <2>1. added \in Nat
    BY <1>0, <1>1, <1>3 DEF GrowInlets
  <2>2. f \in [1 .. added -> S]
    BY <1>1, <2>1 DEF InletRecord
  <2>3. R \subseteq S
    BY <1>1, <2>1
  <2>4. inlets' = [inlets EXCEPT ![x] = inlets[x] \o f]
    BY <1>3 DEF GrowInlets
  <2> HIDE DEF R, S, f, added
  <2>5. inlets[x] \in Seq(S)
    BY <1>1, <2>3, SeqMonotonic
  <2>6. Comparable(inlets[x], inlets[x] \o f)
    BY <2>1, <2>2, <2>5, ComparableToExtension
  <2> QED
    BY <1>1, <2>4, <2>6, OneVectorKept DEF InletsKept
<1>4. CASE UNCHANGED inletVars
  <2>1. \A y \in Box : inlets[y] \in Seq(R) /\ inlets'[y] = inlets[y]
    BY <1>1, <1>4 DEF inletVars
  <2> HIDE DEF R
  <2> QED
    BY <2>1, ComparableToItself DEF InletsKept
<1> QED
  BY <1>2, <1>3, <1>4 DEF SetInlets, size

LEMMA SetOutletsKeeps ==
  ASSUME OutletInv, NEW x \in Box, NEW n \in Int, SetOutlets(x, n)
  PROVE  OutletsKept
<1> DEFINE size == OutletCount(n)
<1>0. size \in Nat
  BY DEF OutletCount
<1>1. newOutlet \in Nat /\ outlets \in [Box -> Seq(1 .. newOutlet)] /\ Len(outlets[x]) \in Nat
  BY LenProperties DEF OutletInv
<1> HIDE DEF size
<1>2. CASE ShrinkOutlets(x, size)
  <2> DEFINE kept == SubSeq(outlets[x], 1, size)
  <2>1. size <= Len(outlets[x]) /\ outlets' = [outlets EXCEPT ![x] = kept]
    BY <1>0, <1>1, <1>2 DEF ShrinkOutlets
  <2>2. Comparable(outlets[x], kept)
    BY <1>0, <1>1, <2>1, ComparableToPrefix
  <2> HIDE DEF kept
  <2> QED
    BY <1>1, <2>1, <2>2, OneVectorKept DEF OutletsKept
<1>3. CASE GrowOutlets(x, size)
  <2> DEFINE added == size - Len(outlets[x])
             f == [k \in 1 .. added |-> newOutlet + k]
             S == 1 .. newOutlet + added
  <2>1. added \in Nat
    BY <1>0, <1>1, <1>3 DEF GrowOutlets
  <2>2. f \in [1 .. added -> S] /\ 1 .. newOutlet \subseteq S
    BY <1>1, <2>1
  <2>3. outlets' = [outlets EXCEPT ![x] = outlets[x] \o f]
    BY <1>3 DEF GrowOutlets
  <2> HIDE DEF S, f, added
  <2>4. outlets[x] \in Seq(S)
    BY <1>1, <2>2, SeqMonotonic
  <2>5. Comparable(outlets[x], outlets[x] \o f)
    BY <2>1, <2>2, <2>4, ComparableToExtension
  <2> QED
    BY <1>1, <2>3, <2>5, OneVectorKept DEF OutletsKept
<1>4. CASE UNCHANGED outletVars
  <2>1. \A y \in Box : outlets[y] \in Seq(1 .. newOutlet) /\ outlets'[y] = outlets[y]
    BY <1>1, <1>4 DEF outletVars
  <2> QED
    BY <2>1, ComparableToItself DEF OutletsKept
<1> QED
  BY <1>2, <1>3, <1>4 DEF SetOutlets, size

LEMMA UnchangedPortsAreKept ==
  /\ InletInv /\ UNCHANGED inletVars => InletsKept
  /\ OutletInv /\ UNCHANGED outletVars => OutletsKept
<1> DEFINE R == [index : Nat, inlet : 1 .. newInlet]
<1>1. ASSUME InletInv, UNCHANGED inletVars PROVE InletsKept
  <2>1. \A y \in Box : inlets[y] \in Seq(R) /\ inlets'[y] = inlets[y]
    BY <1>1 DEF InletInv, inletVars
  <2> HIDE DEF R
  <2> QED
    BY <2>1, ComparableToItself DEF InletsKept
<1>2. ASSUME OutletInv, UNCHANGED outletVars PROVE OutletsKept
  <2>1. \A y \in Box : outlets[y] \in Seq(1 .. newOutlet) /\ outlets'[y] = outlets[y]
    BY <1>2 DEF OutletInv, outletVars
  <2> QED
    BY <2>1, ComparableToItself DEF OutletsKept
<1> QED
  BY <1>1, <1>2

LEMMA FreePortsKeeps ==
  ASSUME PortsInv, NEW x \in Box, FreePorts(x)
  PROVE  InletsKept /\ OutletsKept
<1> DEFINE R == [index : Nat, inlet : 1 .. newInlet]
<1>1. inlets \in [Box -> Seq(R)] /\ outlets \in [Box -> Seq(1 .. newOutlet)]
  BY DEF PortsInv, InletInv, OutletInv
<1>2. inlets' = [inlets EXCEPT ![x] = <<>>] /\ outlets' = [outlets EXCEPT ![x] = <<>>]
  BY DEF FreePorts
<1> HIDE DEF R
<1>3. Comparable(inlets[x], <<>>) /\ Comparable(outlets[x], <<>>)
  BY <1>1, ComparableToNone
<1>4. InletsKept
  BY <1>1, <1>2, <1>3, OneVectorKept DEF InletsKept
<1>5. OutletsKept
  BY <1>1, <1>2, <1>3, OneVectorKept DEF OutletsKept
<1> QED
  BY <1>4, <1>5

LEMMA PortsNextKeeps ==
  ASSUME PortsInv, PortsNext
  PROVE  InletsKept /\ OutletsKept
<1>1. PICK x \in Box : ResetPorts(x) \/ FreePorts(x) \/ Resize(x)
  BY DEF PortsNext
<1>2. CASE ResetPorts(x)
  BY <1>2, SetInletsKeeps, SetOutletsKeeps DEF ResetPorts, PortsInv
<1>3. CASE FreePorts(x)
  BY <1>3, FreePortsKeeps
<1>4. CASE Resize(x)
  <2>1. PICK n \in Counts : \/ SetInlets(x, n) /\ UNCHANGED outletVars
                            \/ SetOutlets(x, n) /\ UNCHANGED inletVars
    BY <1>4 DEF Resize
  <2>2. n \in Int
    BY PortsAssumption DEF Counts
  <2>3. CASE SetInlets(x, n) /\ UNCHANGED outletVars
    BY <2>2, <2>3, SetInletsKeeps, UnchangedPortsAreKept DEF PortsInv
  <2>4. CASE SetOutlets(x, n) /\ UNCHANGED inletVars
    BY <2>2, <2>4, SetOutletsKeeps, UnchangedPortsAreKept DEF PortsInv
  <2> QED
    BY <2>1, <2>3, <2>4
<1> QED
  BY <1>1, <1>2, <1>3, <1>4

\* However a box is resized, reset or deleted, a port that stays is the same
\* port: the vector before and after the step agree as far as both go.
THEOREM SurvivorsAreAlwaysKept == PortsSpec => SurvivorsAreKept
<1>1. PortsInv /\ [PortsNext]_portVars => [SurvivorsStay]_portVars
  BY PortsNextKeeps DEF InletsKept, OutletsKept, SurvivorsStay
<1> QED
  BY <1>1, PortsInvariant, PTL DEF PortsSpec, SurvivorsAreKept
=============================================================================
