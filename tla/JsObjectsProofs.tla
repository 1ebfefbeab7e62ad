-------------------------- MODULE JsObjectsProofs --------------------------
(***************************************************************************)
(* Proofs about JsObjects, for any objects, addresses and depth of calls.  *)
(*                                                                         *)
(* A reference resolves because its object has a handle and no other       *)
(* object has the same.  For the references of a call in progress that     *)
(* follows from the call's own V8 handles: what it sends it has, and what  *)
(* it has is in the heap (CallSound).  For stored references it follows    *)
(* from their objects having been made before (StoredSound): no object is  *)
(* made twice, so a reference to a dead object does not come to life.      *)
(***************************************************************************)
EXTENDS JsObjects, SequenceLemmas

CallSet ==
  [kind : {"handler", "marshal", "send"}, roots : SUBSET Object, atoms : SUBSET Reference]

CallSound(call) ==
  /\ call.roots \subseteq heap
  /\ \A r \in call.atoms : r.meant \in call.roots /\ Resolves(r)

CallsSound == \A i \in DOMAIN calls : CallSound(calls[i])

StoredSound ==
  \A r \in stored : r.meant \in born /\ (r.meant \in heap => Resolves(r))

IInv ==
  /\ Typed
  /\ RegistryIsSound
  /\ OneHandlePerObject
  /\ CallsSound
  /\ StoredSound

LEMMA Implied ==
  IInv => /\ TypeOK /\ RegistryIsSound /\ OneHandlePerObject
          /\ SendsResolve /\ StoredResolveWhileAlive
<1> SUFFICES ASSUME IInv PROVE Rooted \subseteq heap /\ SendsResolve /\ StoredResolveWhileAlive
  BY DEF IInv, TypeOK
<1>3. Rooted \subseteq heap
  BY DEF IInv, CallsSound, CallSound, Rooted
<1>1. SendsResolve
  BY DEF IInv, CallsSound, CallSound, SendsResolve
<1>2. StoredResolveWhileAlive
  BY DEF IInv, StoredSound, StoredResolveWhileAlive
<1> QED
  BY <1>1, <1>2, <1>3

-----------------------------------------------------------------------------
(* The calls in progress.                                                  *)

LEMMA CallsTyped ==
  ASSUME IInv
  PROVE  /\ calls \in Seq(CallSet)
         /\ Len(calls) \in Nat
         /\ DOMAIN calls = 1 .. Len(calls)
         /\ \A i \in 1 .. Len(calls) : calls[i] \in CallSet /\ CallSound(calls[i])
<1>1. calls \in Seq(CallSet)
  BY DEF IInv, Typed, CallSet
<1> HIDE DEF CallSet
<1>2. Len(calls) \in Nat /\ DOMAIN calls = 1 .. Len(calls)
  BY <1>1, LenProperties
<1>3. \A i \in 1 .. Len(calls) : calls[i] \in CallSet
  BY <1>1, ElementOfSeq
<1>4. \A i \in 1 .. Len(calls) : CallSound(calls[i])
  BY <1>2 DEF IInv, CallsSound
<1> QED
  BY <1>1, <1>2, <1>3, <1>4

LEMMA TopSound ==
  ASSUME IInv, calls # <<>>
  PROVE  /\ Len(calls) \in 1 .. Len(calls)
         /\ Top \in CallSet
         /\ CallSound(Top)
         /\ Top.roots \subseteq Object
         /\ Top.atoms \subseteq Reference
<1>1. calls \in Seq(CallSet)
  BY CallsTyped
<1>2. Len(calls) \in 1 .. Len(calls)
  <2> HIDE DEF CallSet
  <2> QED
    BY <1>1, EmptySeq, LenProperties
<1>3. Top \in CallSet /\ CallSound(Top)
  BY <1>2, CallsTyped DEF Top
<1> QED
  BY <1>2, <1>3 DEF CallSet

\* Enter, Outlet, Deliver.
LEMMA PushKeepsIInv ==
  ASSUME IInv, NEW call \in CallSet, CallSound(call), Push(call),
         UNCHANGED <<heap, held, born, jsobjects, handle, stored>>
  PROVE  IInv'
<1>1. calls' = Append(calls, call) /\ calls \in Seq(CallSet)
  BY CallsTyped DEF Push
<1>2. /\ calls' \in Seq(CallSet)
      /\ Len(calls') = Len(calls) + 1
      /\ \A i \in 1 .. Len(calls) : calls'[i] = calls[i]
      /\ calls'[Len(calls) + 1] = call
  <2> HIDE DEF CallSet
  <2> QED
    BY <1>1, AppendProperties
<1>3. DOMAIN calls' = 1 .. Len(calls) + 1
  <2> HIDE DEF CallSet
  <2> QED
    BY <1>2, LenProperties
<1>4. \A i \in DOMAIN calls' : (i \in 1 .. Len(calls) /\ calls'[i] = calls[i]) \/ calls'[i] = call
  BY <1>2, <1>3, CallsTyped
<1>5. \A i \in DOMAIN calls' : CallSound(calls'[i])
  BY <1>4, CallsTyped
<1>6. CallsSound'
  BY <1>5 DEF CallsSound, CallSound, Resolves
<1>7. Typed'
  BY <1>2 DEF IInv, Typed, CallSet
<1> QED
  BY <1>6, <1>7 DEF IInv, RegistryIsSound, OneHandlePerObject, StoredSound, Resolves

LEMMA ReturnKeepsIInv ==
  ASSUME IInv, Return
  PROVE  IInv'
<1>1. calls # <<>> /\ calls \in Seq(CallSet) /\ calls' = Below
  BY CallsTyped DEF Return
<1>2. Len(calls) - 1 \in Nat /\ Len(calls) - 1 <= Len(calls)
  BY <1>1, TopSound, CallsTyped
<1>3. /\ calls' \in Seq(CallSet)
      /\ DOMAIN calls' = 1 .. Len(calls) - 1
      /\ \A i \in 1 .. Len(calls) - 1 : calls'[i] = calls[i]
  <2> HIDE DEF CallSet
  <2> QED
    BY <1>1, <1>2, Prefix DEF Below
<1>4. \A i \in DOMAIN calls' : i \in 1 .. Len(calls) /\ calls'[i] = calls[i]
  BY <1>2, <1>3
<1>5. CallsSound'
  BY <1>4, CallsTyped DEF CallsSound, CallSound, Resolves, Return
<1>6. Typed'
  BY <1>3 DEF IInv, Typed, CallSet, Return
<1> QED
  BY <1>5, <1>6 DEF IInv, RegistryIsSound, OneHandlePerObject, StoredSound, Resolves, Return

\* Send, FindHandle, MakeHandle, ReadElement and ReadArgument change the running
\* call only.  What they do to the handles must leave the other calls sound.
LEMMA TopChangeKeepsCalls ==
  ASSUME IInv, calls # <<>>, NEW call \in CallSet,
         calls' = [calls EXCEPT ![Len(calls)] = call],
         CallSound(call)',
         \A c \in CallSet : CallSound(c) => CallSound(c)'
  PROVE  calls' \in Seq(CallSet) /\ CallsSound'
<1>1. /\ calls' \in Seq(CallSet)
      /\ Len(calls') = Len(calls)
      /\ \A i \in 1 .. Len(calls) : calls'[i] = IF i = Len(calls) THEN call ELSE calls[i]
  <2>1. calls \in Seq(CallSet) /\ Len(calls) \in 1 .. Len(calls)
    BY CallsTyped, TopSound
  <2> HIDE DEF CallSet
  <2> QED
    BY <2>1, ExceptSeq
<1>2. DOMAIN calls' = 1 .. Len(calls)
  <2> HIDE DEF CallSet
  <2> QED
    BY <1>1, LenProperties
<1>3. \A i \in DOMAIN calls' : calls'[i] = call \/ (calls'[i] \in CallSet /\ CallSound(calls'[i]))
  BY <1>1, <1>2, CallsTyped
<1>4. ASSUME NEW i \in DOMAIN calls'
      PROVE  /\ calls'[i].roots \subseteq heap'
             /\ \A r \in calls'[i].atoms : r.meant \in calls'[i].roots /\ Resolves(r)'
  <2>1. CASE calls'[i] = call
    BY <2>1 DEF CallSound
  <2>2. CASE calls'[i] \in CallSet /\ CallSound(calls'[i])
    <3> DEFINE c == calls'[i]
    <3>1. c \in CallSet /\ CallSound(c)
      BY <2>2
    <3>2. PICK d \in CallSet : d = c /\ CallSound(d)
      BY <3>1
    <3>3. CallSound(d)'
      BY <3>2
    <3> QED
      BY <3>2, <3>3 DEF CallSound
  <2> QED
    BY <1>3, <2>1, <2>2
<1>5. CallsSound'
  BY <1>4 DEF CallsSound, CallSound
<1> QED
  BY <1>1, <1>5

LEMMA SendKeepsIInv ==
  ASSUME IInv, Send
  PROVE  IInv'
<1>1. calls # <<>> /\ UNCHANGED <<heap, held, born, jsobjects, handle, stored>>
  BY DEF Send, Running
<1>2. Top \in CallSet /\ CallSound(Top)
  BY <1>1, TopSound
<1>3. PICK call \in CallSet : /\ call = [Top EXCEPT !.kind = "send"]
                              /\ call.roots = Top.roots
                              /\ call.atoms = Top.atoms
  <2> DEFINE sent == [Top EXCEPT !.kind = "send"]
  <2>1. sent \in CallSet
    BY <1>2 DEF CallSet
  <2>2. sent.roots = Top.roots /\ sent.atoms = Top.atoms
    BY <1>2 DEF CallSet
  <2>3. sent = [Top EXCEPT !.kind = "send"]
    OBVIOUS
  <2> HIDE DEF sent
  <2> QED
    BY <2>1, <2>2, <2>3
<1>4. calls' = [calls EXCEPT ![Len(calls)] = call]
  BY <1>3 DEF Send, Top
<1>5. CallSound(call)
  BY <1>2, <1>3 DEF CallSound
<1>6. CallSound(call)' /\ \A c : CallSound(c) => CallSound(c)'
  BY <1>1, <1>5 DEF CallSound, Resolves
<1>7. calls' \in Seq(CallSet) /\ CallsSound'
  BY <1>1, <1>4, <1>6, TopChangeKeepsCalls
<1>8. Typed'
  BY <1>1, <1>7 DEF IInv, Typed, CallSet
<1> QED
  BY <1>1, <1>7, <1>8 DEF IInv, RegistryIsSound, OneHandlePerObject, StoredSound, Resolves

\* The running call with one more atom.
LEMMA AtomAdded ==
  ASSUME IInv, calls # <<>>, NEW o \in Top.roots, NEW a \in Address, AddAtom(a, o)
  PROVE  \E call \in CallSet :
           /\ calls' = [calls EXCEPT ![Len(calls)] = call]
           /\ call.roots = Top.roots
           /\ call.atoms = Top.atoms \cup {[address |-> a, meant |-> o]}
<1> DEFINE r == [address |-> a, meant |-> o]
           call == [Top EXCEPT !.atoms = Top.atoms \cup {r}]
<1>1. Top \in CallSet /\ Top.roots \subseteq Object /\ Top.atoms \subseteq Reference
  BY TopSound
<1>2. r \in Reference
  BY <1>1 DEF Reference
<1>3. call.roots = Top.roots /\ call.atoms = Top.atoms \cup {r}
  BY <1>1 DEF CallSet
<1>4. call \in CallSet
  <2>1. Top.atoms \cup {r} \in SUBSET Reference
    BY <1>1, <1>2
  <2> HIDE DEF r
  <2> QED
    BY <1>1, <2>1 DEF CallSet
<1>5. calls' = [calls EXCEPT ![Len(calls)] = call]
  BY DEF AddAtom, Top
<1> QED
  BY <1>3, <1>4, <1>5

LEMMA FindHandleKeepsIInv ==
  ASSUME IInv, NEW o \in Object, FindHandle(o)
  PROVE  IInv'
<1>1. /\ calls # <<>> /\ o \in Top.roots
      /\ UNCHANGED <<heap, held, born, jsobjects, handle, stored>>
  BY DEF FindHandle, Running
<1>2. PICK a \in HandlesOf(o) : AddAtom(a, o)
  BY DEF FindHandle
<1>3. a \in Address /\ a \in jsobjects /\ handle[a] = o
  BY <1>2 DEF HandlesOf, IInv, Typed
<1>4. PICK call \in CallSet :
        /\ calls' = [calls EXCEPT ![Len(calls)] = call]
        /\ call.roots = Top.roots
        /\ call.atoms = Top.atoms \cup {[address |-> a, meant |-> o]}
  BY <1>1, <1>2, <1>3, AtomAdded
<1>5. CallSound(call)
  <2>1. CallSound(Top)
    BY <1>1, TopSound
  <2>2. Resolves([address |-> a, meant |-> o])
    BY <1>3 DEF Resolves
  <2> QED
    BY <1>1, <1>4, <2>1, <2>2 DEF CallSound
<1>6. CallSound(call)' /\ \A c : CallSound(c) => CallSound(c)'
  BY <1>1, <1>5 DEF CallSound, Resolves
<1>7. calls' \in Seq(CallSet) /\ CallsSound'
  BY <1>1, <1>4, <1>6, TopChangeKeepsCalls
<1>8. Typed'
  BY <1>1, <1>7 DEF IInv, Typed, CallSet
<1> QED
  BY <1>1, <1>7, <1>8 DEF IInv, RegistryIsSound, OneHandlePerObject, StoredSound, Resolves

LEMMA MakeHandleKeepsIInv ==
  ASSUME IInv, NEW o \in Object, NEW a \in Address, MakeHandle(o, a)
  PROVE  IInv'
<1>1. /\ calls # <<>> /\ o \in Top.roots /\ HandlesOf(o) = {} /\ a \notin DOMAIN handle
      /\ jsobjects' = jsobjects \cup {a}
      /\ handle' = [b \in DOMAIN handle \cup {a} |-> IF b = a THEN o ELSE handle[b]]
      /\ AddAtom(a, o)
      /\ UNCHANGED <<heap, held, born, stored>>
  BY DEF MakeHandle, Running
<1>2. CallSound(Top)
  BY <1>1, TopSound
<1>3. jsobjects = DOMAIN handle /\ \A b \in DOMAIN handle : handle[b] \in heap
  BY DEF IInv, RegistryIsSound
<1>4. o \in heap
  BY <1>1, <1>2 DEF CallSound
<1>5. /\ DOMAIN handle' = DOMAIN handle \cup {a}
      /\ handle'[a] = o
      /\ \A b \in DOMAIN handle : handle'[b] = handle[b] /\ b # a
  BY <1>1
<1>6. \A r : Resolves(r) => Resolves(r)'
  BY <1>1, <1>3, <1>5 DEF Resolves
<1>7. RegistryIsSound'
  BY <1>1, <1>3, <1>4, <1>5 DEF RegistryIsSound
<1>8. OneHandlePerObject'
  <2>1. \A b \in DOMAIN handle : handle[b] # o
    BY <1>1, <1>3 DEF HandlesOf
  <2> QED
    BY <1>5, <2>1 DEF IInv, OneHandlePerObject
<1>9. PICK call \in CallSet :
        /\ calls' = [calls EXCEPT ![Len(calls)] = call]
        /\ call.roots = Top.roots
        /\ call.atoms = Top.atoms \cup {[address |-> a, meant |-> o]}
  BY <1>1, AtomAdded
<1>10. CallSound(call)'
  <2>1. Resolves([address |-> a, meant |-> o])'
    BY <1>1, <1>5 DEF Resolves
  <2> QED
    BY <1>1, <1>2, <1>6, <1>9, <2>1 DEF CallSound
<1>11. \A c : CallSound(c) => CallSound(c)'
  BY <1>1, <1>6 DEF CallSound
<1>12. calls' \in Seq(CallSet) /\ CallsSound'
  BY <1>1, <1>9, <1>10, <1>11, TopChangeKeepsCalls
<1>13. StoredSound'
  BY <1>1, <1>6 DEF IInv, StoredSound
<1>14. Typed'
  BY <1>1, <1>5, <1>12 DEF IInv, Typed, CallSet
<1> QED
  BY <1>7, <1>8, <1>12, <1>13, <1>14 DEF IInv

\* The running call comes to have o as well.
LEMMA HavingKeepsIInv ==
  ASSUME IInv, calls # <<>>, NEW o \in Object, o \in heap,
         calls' = [calls EXCEPT ![Len(calls)].roots = @ \cup {o}],
         UNCHANGED <<heap, held, born, jsobjects, handle, stored>>
  PROVE  IInv'
<1>1. Top \in CallSet /\ CallSound(Top) /\ Top.roots \subseteq Object
  BY TopSound
<1>2. PICK call \in CallSet : /\ call = [Top EXCEPT !.roots = Top.roots \cup {o}]
                              /\ call.roots = Top.roots \cup {o}
                              /\ call.atoms = Top.atoms
  <2> DEFINE reads == [Top EXCEPT !.roots = Top.roots \cup {o}]
  <2>1. Top.roots \cup {o} \in SUBSET Object
    BY <1>1
  <2>2. reads \in CallSet
    BY <1>1, <2>1 DEF CallSet
  <2>3. reads.roots = Top.roots \cup {o} /\ reads.atoms = Top.atoms
    BY <1>1 DEF CallSet
  <2>4. reads = [Top EXCEPT !.roots = Top.roots \cup {o}]
    OBVIOUS
  <2> HIDE DEF reads
  <2> QED
    BY <2>2, <2>3, <2>4
<1>3. calls' = [calls EXCEPT ![Len(calls)] = call]
  BY <1>2 DEF Top
<1>4. CallSound(call)
  BY <1>1, <1>2 DEF CallSound
<1>5. CallSound(call)' /\ \A c : CallSound(c) => CallSound(c)'
  BY <1>4 DEF CallSound, Resolves
<1>6. calls' \in Seq(CallSet) /\ CallsSound'
  BY <1>3, <1>5, TopChangeKeepsCalls
<1>7. Typed'
  BY <1>6 DEF IInv, Typed, CallSet
<1> QED
  BY <1>6, <1>7 DEF IInv, RegistryIsSound, OneHandlePerObject, StoredSound, Resolves

\* js_get: what a script reads from its arguments is in the table, hence alive.
LEMMA ReadArgumentKeepsIInv ==
  ASSUME IInv, NEW r \in Reference, ReadArgument(r)
  PROVE  IInv'
<1>1. /\ calls # <<>> /\ r.address \in jsobjects
      /\ UNCHANGED <<heap, held, born, jsobjects, handle, stored>>
  BY DEF ReadArgument, Running
<1>2. PICK o : o = handle[r.address]
  OBVIOUS
<1>3. o \in heap /\ o \in Object
  BY <1>1, <1>2 DEF IInv, RegistryIsSound, Typed
<1>4. calls' = [calls EXCEPT ![Len(calls)].roots = @ \cup {o}]
  BY <1>2 DEF ReadArgument
<1> QED
  BY <1>1, <1>3, <1>4, HavingKeepsIInv

\* js_unmarshal_arg: what an accessor returns a script holds.
LEMMA ReadElementKeepsIInv ==
  ASSUME IInv, NEW o \in Object, ReadElement(o)
  PROVE  IInv'
<1>1. /\ calls # <<>> /\ o \in heap
      /\ calls' = [calls EXCEPT ![Len(calls)].roots = @ \cup {o}]
      /\ UNCHANGED <<heap, held, born, jsobjects, handle, stored>>
  BY DEF ReadElement, Running, IInv, Typed
<1> QED
  BY <1>1, HavingKeepsIInv

-----------------------------------------------------------------------------
(* The heap and the patch.                                                 *)

\* New, Keep, Drop: more objects, or others in reach of the scripts.
LEMMA HeapGrowsKeepsIInv ==
  ASSUME IInv, NEW o \in Object,
         \/ o \notin born /\ heap' = heap \cup {o} /\ born' = born \cup {o}
         \/ heap' = heap /\ born' = born,
         held' \subseteq heap',
         UNCHANGED <<jsobjects, handle, calls, stored>>
  PROVE  IInv'
<1>1. \A r : Resolves(r)' <=> Resolves(r)
  BY DEF Resolves
<1>2. heap \subseteq heap'
  OBVIOUS
<1>3. Typed'
  BY DEF IInv, Typed
<1>4. RegistryIsSound' /\ OneHandlePerObject'
  BY <1>2 DEF IInv, RegistryIsSound, OneHandlePerObject
<1>5. CallsSound'
  BY <1>1, <1>2 DEF IInv, CallsSound, CallSound
<1>6. StoredSound'
  <2> SUFFICES ASSUME NEW r \in stored
               PROVE  r.meant \in born' /\ (r.meant \in heap' => Resolves(r)')
    BY DEF StoredSound
  <2>1. r.meant \in born /\ (r.meant \in heap => Resolves(r))
    BY DEF IInv, StoredSound
  <2> QED
    BY <1>1, <2>1
<1> QED
  BY <1>3, <1>4, <1>5, <1>6 DEF IInv

LEMMA ScriptKeepsIInv ==
  ASSUME IInv, NEW o \in Object, New(o) \/ Keep(o) \/ Drop(o)
  PROVE  IInv'
<1>1. held \subseteq heap
  BY DEF IInv, Typed
<1>2. CASE New(o)
  BY <1>1, <1>2, HeapGrowsKeepsIInv DEF New
<1>3. CASE Keep(o)
  <2>1. Top.roots \subseteq heap
    BY <1>3, TopSound DEF Keep, Running, CallSound
  <2> QED
    BY <1>1, <1>3, <2>1, HeapGrowsKeepsIInv DEF Keep
<1>4. CASE Drop(o)
  BY <1>1, <1>4, HeapGrowsKeepsIInv DEF Drop
<1> QED
  BY <1>2, <1>3, <1>4

LEMMA PatchKeepsIInv ==
  ASSUME IInv, NEW r \in Reference, Store(r) \/ Unstore(r)
  PROVE  IInv'
<1>1. UNCHANGED <<heap, held, born, jsobjects, handle, calls>>
  BY DEF Store, Unstore
<1>2. stored' \subseteq stored \cup {r}
  BY DEF Store, Unstore
<1>3. r \in stored' => r.meant \in born /\ (r.meant \in heap => Resolves(r))
  <2>1. CASE Store(r)
    <3>1. calls # <<>> /\ r \in Top.atoms
      BY <2>1 DEF Store, Running
    <3>2. CallSound(Top)
      BY <3>1, TopSound
    <3>3. r.meant \in heap /\ Resolves(r)
      BY <3>1, <3>2 DEF CallSound
    <3> QED
      BY <3>3 DEF IInv, Typed
  <2>2. CASE Unstore(r)
    BY <2>2 DEF Unstore
  <2> QED
    BY <2>1, <2>2
<1>4. StoredSound'
  BY <1>1, <1>2, <1>3 DEF IInv, StoredSound, Resolves
<1>5. Typed'
  BY <1>1, <1>2 DEF IInv, Typed
<1> QED
  BY <1>1, <1>4, <1>5 DEF IInv, RegistryIsSound, OneHandlePerObject, CallsSound, CallSound, Resolves

\* The weak callback of an object that neither a script nor a call holds.
LEMMA CollectKeepsIInv ==
  ASSUME IInv, NEW o \in Object, Collect(o)
  PROVE  IInv'
<1>1. /\ o \notin held /\ o \notin Rooted
      /\ heap' = heap \ {o}
      /\ jsobjects' = jsobjects \ HandlesOf(o)
      /\ handle' = [a \in DOMAIN handle \ HandlesOf(o) |-> handle[a]]
      /\ UNCHANGED <<held, born, calls, stored>>
  BY DEF Collect, WeakCallback
<1>2. /\ jsobjects = DOMAIN handle
      /\ \A a \in DOMAIN handle : handle[a] \in heap
      /\ HandlesOf(o) \subseteq jsobjects
      /\ \A a \in jsobjects : a \in HandlesOf(o) <=> handle[a] = o
  BY DEF IInv, RegistryIsSound, HandlesOf
<1>3. /\ DOMAIN handle' = DOMAIN handle \ HandlesOf(o)
      /\ \A a \in DOMAIN handle' : handle'[a] = handle[a] /\ handle[a] # o
  BY <1>1, <1>2
<1>4. RegistryIsSound'
  BY <1>1, <1>2, <1>3 DEF RegistryIsSound
<1>5. OneHandlePerObject'
  BY <1>3 DEF IInv, OneHandlePerObject
<1>6. \A r : Resolves(r) /\ r.meant # o => Resolves(r)'
  BY <1>1, <1>2, <1>3 DEF Resolves
<1>7. CallsSound'
  <2> SUFFICES ASSUME NEW i \in DOMAIN calls
               PROVE  /\ calls[i].roots \subseteq heap'
                      /\ \A r \in calls[i].atoms : r.meant \in calls[i].roots /\ Resolves(r)'
    BY <1>1 DEF CallsSound, CallSound
  <2>1. /\ calls[i].roots \subseteq heap
        /\ \A r \in calls[i].atoms : r.meant \in calls[i].roots /\ Resolves(r)
    BY DEF IInv, CallsSound, CallSound
  <2>2. o \notin calls[i].roots
    BY <1>1 DEF Rooted
  <2> QED
    BY <1>1, <1>6, <2>1, <2>2
<1>8. StoredSound'
  BY <1>1, <1>6 DEF IInv, StoredSound
<1>9. Typed'
  BY <1>1, <1>2, <1>3 DEF IInv, Typed
<1> QED
  BY <1>4, <1>5, <1>7, <1>8, <1>9 DEF IInv

-----------------------------------------------------------------------------
(* The specification.                                                      *)

LEMMA EnterKeepsIInv ==
  ASSUME IInv, Enter
  PROVE  IInv'
<1>1. Call("handler", {}, {}) \in CallSet /\ CallSound(Call("handler", {}, {}))
  BY DEF Call, CallSet, CallSound
<1> QED
  BY <1>1, PushKeepsIInv DEF Enter

LEMMA OutletKeepsIInv ==
  ASSUME IInv, NEW objects \in SUBSET Object, Outlet(objects)
  PROVE  IInv'
<1>1. objects \subseteq heap
  <2>1. held \subseteq heap
    BY DEF IInv, Typed
  <2>2. Top.roots \subseteq heap
    BY TopSound DEF Outlet, Running, CallSound
  <2> QED
    BY <2>1, <2>2 DEF Outlet
<1>2. Call("marshal", objects, {}) \in CallSet /\ CallSound(Call("marshal", objects, {}))
  BY <1>1 DEF Call, CallSet, CallSound
<1> QED
  BY <1>2, PushKeepsIInv DEF Outlet

LEMMA DeliverKeepsIInv ==
  ASSUME IInv, NEW r \in Reference, Deliver(r)
  PROVE  IInv'
<1>1. r.address \in DOMAIN handle
  BY DEF Deliver, IInv, RegistryIsSound
<1>2. PICK o : o = handle[r.address]
  OBVIOUS
<1>3. o \in heap /\ o \in Object
  BY <1>1, <1>2 DEF IInv, RegistryIsSound, Typed
<1>4. Call("handler", {o}, {}) \in CallSet /\ CallSound(Call("handler", {o}, {}))
  BY <1>3 DEF Call, CallSet, CallSound
<1>5. Push(Call("handler", {o}, {}))
  BY <1>2 DEF Deliver
<1> QED
  BY <1>4, <1>5, PushKeepsIInv DEF Deliver

\* The invariant holds whatever scripts, patch and collector do.
THEOREM JsObjectsInvariant == Spec => []IInv
<1>1. Init => IInv
  <2> SUFFICES ASSUME Init PROVE IInv
    OBVIOUS
  <2>1. calls \in Seq(CallSet) /\ DOMAIN calls = {} /\ DOMAIN handle = {}
    <3> HIDE DEF CallSet
    <3> QED
      BY EmptySeq DEF Init
  <2>2. Typed
    BY <2>1 DEF Init, Typed, CallSet
  <2> QED
    BY <2>1, <2>2 DEF Init, IInv, RegistryIsSound, OneHandlePerObject, CallsSound, StoredSound
<1>2. IInv /\ [Next]_vars => IInv'
  <2> SUFFICES ASSUME IInv, [Next]_vars PROVE IInv'
    OBVIOUS
  <2>1. CASE UNCHANGED vars
    BY <2>1 DEF vars, IInv, Typed, RegistryIsSound, OneHandlePerObject, CallsSound, CallSound,
                StoredSound, Resolves
  <2>2. CASE Enter \/ Send \/ Return
    BY <2>2, EnterKeepsIInv, SendKeepsIInv, ReturnKeepsIInv
  <2>3. ASSUME NEW o \in Object,
               \/ New(o) \/ Keep(o) \/ Drop(o)
               \/ ReadElement(o) \/ FindHandle(o) \/ Collect(o)
        PROVE  IInv'
    BY <2>3, ScriptKeepsIInv, ReadElementKeepsIInv, FindHandleKeepsIInv, CollectKeepsIInv
  <2>4. ASSUME NEW o \in Object, NEW a \in Address, MakeHandle(o, a) PROVE IInv'
    BY <2>4, MakeHandleKeepsIInv
  <2>5. ASSUME NEW objects \in SUBSET Object, Outlet(objects) PROVE IInv'
    BY <2>5, OutletKeepsIInv
  <2>6. ASSUME NEW r \in Reference, Store(r) \/ Unstore(r) \/ Deliver(r) \/ ReadArgument(r)
        PROVE  IInv'
    BY <2>6, PatchKeepsIInv, DeliverKeepsIInv, ReadArgumentKeepsIInv
  <2> QED
    BY <2>1, <2>2, <2>3, <2>4, <2>5, <2>6 DEF Next
<1> QED
  BY <1>1, <1>2, PTL DEF Spec

\* Type correctness.
THEOREM JsObjectsTypeCorrect == Spec => []TypeOK
  BY JsObjectsInvariant, Implied, PTL

\* js_marshal_object never follows the address of a handle that was deleted,
\* and finds a living object behind it.
THEOREM RegistryIsAlwaysSound == Spec => []RegistryIsSound
  BY JsObjectsInvariant, Implied, PTL

\* An object never has two addresses.
THEOREM OneHandleAlways == Spec => []OneHandlePerObject
  BY JsObjectsInvariant, Implied, PTL

\* What outlet sends arrives, however often the collector runs on the way.
THEOREM SendsAlwaysResolve == Spec => []SendsResolve
  BY JsObjectsInvariant, Implied, PTL

\* A stored reference is good for as long as its object lives.
THEOREM StoredAlwaysResolve == Spec => []StoredResolveWhileAlive
  BY JsObjectsInvariant, Implied, PTL

-----------------------------------------------------------------------------
(* JsObjects implements Binding: with the addresses forgotten, every step   *)
(* is a step of Binding or changes nothing there.  The invariant carries    *)
(* the two steps where an address is turned back into an object; the rest   *)
(* is about calls, which both modules keep in a sequence, the one with      *)
(* atoms, the other with objects.                                           *)

AbstractSet ==
  [kind : {"handler", "marshal", "send"}, has : SUBSET Object, sends : SUBSET Object]

Image(s) == [i \in DOMAIN s |-> AbstractCall(s[i])]

LEMMA AbstractTyped ==
  ASSUME NEW call \in CallSet
  PROVE  AbstractCall(call) \in AbstractSet
<1>1. {r.meant : r \in call.atoms} \in SUBSET Object
  BY DEF CallSet, Reference
<1> QED
  BY <1>1 DEF AbstractCall, AbstractSet, CallSet

LEMMA ImageTyped ==
  ASSUME NEW s \in Seq(CallSet)
  PROVE  /\ Image(s) \in Seq(AbstractSet)
         /\ Len(Image(s)) = Len(s)
         /\ \A i \in 1 .. Len(s) : Image(s)[i] = AbstractCall(s[i])
<1> HIDE DEF CallSet, AbstractSet
<1>1. Len(s) \in Nat /\ DOMAIN s = 1 .. Len(s) /\ \A i \in 1 .. Len(s) : s[i] \in CallSet
  BY LenProperties, ElementOfSeq
<1>2. Image(s) \in [1 .. Len(s) -> AbstractSet]
  BY <1>1, AbstractTyped DEF Image
<1>3. Image(s) \in Seq(AbstractSet)
  BY <1>1, <1>2, SeqDef
<1>4. Len(Image(s)) = Len(s)
  BY <1>1, <1>2, <1>3, LenProperties
<1> QED
  BY <1>1, <1>3, <1>4 DEF Image

LEMMA ImageOfAppend ==
  ASSUME NEW s \in Seq(CallSet), NEW call \in CallSet
  PROVE  Image(Append(s, call)) = Append(Image(s), AbstractCall(call))
<1> DEFINE t == Append(s, call)
           u == Append(Image(s), AbstractCall(call))
<1> HIDE DEF CallSet, AbstractSet
<1>1. /\ t \in Seq(CallSet) /\ Len(t) = Len(s) + 1 /\ Len(s) \in Nat
      /\ \A i \in 1 .. Len(s) : t[i] = s[i]
      /\ t[Len(s) + 1] = call
  BY AppendProperties, LenProperties
<1>2. Image(s) \in Seq(AbstractSet) /\ Len(Image(s)) = Len(s)
      /\ \A i \in 1 .. Len(s) : Image(s)[i] = AbstractCall(s[i])
  BY ImageTyped
<1>3. AbstractCall(call) \in AbstractSet
  BY AbstractTyped
<1>4. /\ u \in Seq(AbstractSet) /\ Len(u) = Len(s) + 1
      /\ \A i \in 1 .. Len(s) : u[i] = Image(s)[i]
      /\ u[Len(s) + 1] = AbstractCall(call)
  BY <1>2, <1>3, AppendProperties
<1> HIDE DEF t, u
<1>5. Image(t) \in Seq(AbstractSet) /\ Len(Image(t)) = Len(t)
      /\ \A i \in 1 .. Len(t) : Image(t)[i] = AbstractCall(t[i])
  BY <1>1, ImageTyped
<1>6. Len(Image(t)) = Len(u) /\ \A i \in 1 .. Len(Image(t)) : Image(t)[i] = u[i]
  <2>1. Len(Image(t)) = Len(s) + 1 /\ Len(u) = Len(s) + 1
    BY <1>1, <1>4, <1>5
  <2>2. ASSUME NEW i \in 1 .. Len(s) PROVE Image(t)[i] = u[i]
    <3>1. Image(t)[i] = AbstractCall(t[i]) /\ t[i] = s[i]
      BY <1>1, <1>5
    <3>2. u[i] = AbstractCall(s[i])
      BY <1>2, <1>4
    <3> QED
      BY <3>1, <3>2
  <2>3. Image(t)[Len(s) + 1] = u[Len(s) + 1]
    <3>1. Image(t)[Len(s) + 1] = AbstractCall(t[Len(s) + 1])
      BY <1>1, <1>5
    <3> QED
      BY <1>1, <1>4, <3>1
  <2>4. \A i \in 1 .. Len(s) + 1 : i \in 1 .. Len(s) \/ i = Len(s) + 1
    BY <1>1
  <2> QED
    BY <2>1, <2>2, <2>3, <2>4
<1>7. Image(t) = u
  BY <1>4, <1>5, <1>6, SeqEqual
<1> QED
  BY <1>7 DEF t, u

LEMMA ImageOfBelow ==
  ASSUME NEW s \in Seq(CallSet), s # <<>>
  PROVE  /\ SubSeq(s, 1, Len(s) - 1) \in Seq(CallSet)
         /\ Image(SubSeq(s, 1, Len(s) - 1)) = SubSeq(Image(s), 1, Len(Image(s)) - 1)
<1> DEFINE t == SubSeq(s, 1, Len(s) - 1)
           u == SubSeq(Image(s), 1, Len(s) - 1)
<1> HIDE DEF CallSet, AbstractSet
<1>1. Len(s) - 1 \in Nat /\ Len(s) - 1 <= Len(s)
  BY EmptySeq, LenProperties
<1>2. t \in Seq(CallSet) /\ Len(t) = Len(s) - 1 /\ \A i \in 1 .. Len(s) - 1 : t[i] = s[i]
  BY <1>1, Prefix
<1>3. Image(s) \in Seq(AbstractSet) /\ Len(Image(s)) = Len(s)
      /\ \A i \in 1 .. Len(s) : Image(s)[i] = AbstractCall(s[i])
  BY ImageTyped
<1>4. u \in Seq(AbstractSet) /\ Len(u) = Len(s) - 1
      /\ \A i \in 1 .. Len(s) - 1 : u[i] = Image(s)[i]
  BY <1>1, <1>3, Prefix
<1> HIDE DEF t, u
<1>5. Image(t) \in Seq(AbstractSet) /\ Len(Image(t)) = Len(t)
      /\ \A i \in 1 .. Len(t) : Image(t)[i] = AbstractCall(t[i])
  BY <1>2, ImageTyped
<1>6. ASSUME NEW i \in 1 .. Len(s) - 1 PROVE Image(t)[i] = u[i]
  <2>1. i \in 1 .. Len(s)
    BY <1>1
  <2>2. Image(t)[i] = AbstractCall(t[i]) /\ t[i] = s[i]
    BY <1>2, <1>5
  <2>3. u[i] = AbstractCall(s[i])
    BY <1>3, <1>4, <2>1
  <2> QED
    BY <2>2, <2>3
<1>7. Image(t) = u
  <2>1. Len(Image(t)) = Len(u) /\ \A i \in 1 .. Len(Image(t)) : Image(t)[i] = u[i]
    BY <1>2, <1>4, <1>5, <1>6
  <2> QED
    BY <1>4, <1>5, <2>1, SeqEqual
<1> QED
  BY <1>2, <1>3, <1>7 DEF t, u

\* The running call in both modules.
LEMMA AbstractTop ==
  ASSUME IInv
  PROVE  /\ AbstractCalls = Image(calls)
         /\ AbstractCalls = <<>> <=> calls = <<>>
         /\ Len(AbstractCalls) = Len(calls)
         /\ calls # <<>> => /\ Abstract!Top = AbstractCall(Top)
                            /\ Abstract!Top.kind = Top.kind
                            /\ Abstract!Top.has = Top.roots
                            /\ Abstract!Top.sends = {r.meant : r \in Top.atoms}
<1>1. AbstractCalls = Image(calls)
  BY DEF AbstractCalls, Image
<1>2. calls \in Seq(CallSet)
  BY CallsTyped
<1>3. /\ Image(calls) \in Seq(AbstractSet) /\ Len(Image(calls)) = Len(calls)
      /\ \A i \in 1 .. Len(calls) : Image(calls)[i] = AbstractCall(calls[i])
  BY <1>2, ImageTyped
<1>4. Image(calls) = <<>> <=> calls = <<>>
  <2> HIDE DEF CallSet, AbstractSet
  <2> QED
    BY <1>2, <1>3, EmptySeq
<1>5. ASSUME calls # <<>> PROVE Abstract!Top = AbstractCall(Top)
  BY <1>1, <1>3, <1>5, TopSound DEF Abstract!Top, Top
<1> QED
  BY <1>1, <1>3, <1>4, <1>5 DEF AbstractCall

LEMMA AbstractBelow ==
  ASSUME IInv, calls # <<>>
  PROVE  Below \in Seq(CallSet) /\ Image(Below) = Abstract!Below
<1>1. calls \in Seq(CallSet) /\ AbstractCalls = Image(calls)
  BY CallsTyped, AbstractTop
<1> QED
  BY <1>1, ImageOfBelow DEF Below, Abstract!Below

\* A push, and a change of the running call, seen without the addresses.
LEMMA PushIsPush ==
  ASSUME IInv, NEW call \in CallSet, Push(call)
  PROVE  Abstract!Push(AbstractCall(call))
<1>1. Len(calls) < MaxDepth /\ calls' = Append(calls, call) /\ calls \in Seq(CallSet)
  BY CallsTyped DEF Push
<1>2. AbstractCalls' = Image(calls')
  BY DEF AbstractCalls, Image
<1>3. AbstractCalls' = Append(AbstractCalls, AbstractCall(call))
  BY <1>1, <1>2, ImageOfAppend, AbstractTop
<1> QED
  BY <1>1, <1>3, AbstractTop DEF Abstract!Push

LEMMA ChangeIsChange ==
  ASSUME IInv, calls # <<>>, NEW call \in CallSet,
         calls' = [calls EXCEPT ![Len(calls)] = call]
  PROVE  AbstractCalls' = Append(Abstract!Below, AbstractCall(call))
<1>1. calls \in Seq(CallSet) /\ Len(calls) \in 1 .. Len(calls) /\ Below \in Seq(CallSet)
  BY CallsTyped, TopSound, AbstractBelow
<1>2. calls' = Append(Below, call)
  <2> HIDE DEF CallSet
  <2>1. /\ calls' \in Seq(CallSet) /\ Len(calls') = Len(calls)
        /\ \A i \in 1 .. Len(calls) : calls'[i] = IF i = Len(calls) THEN call ELSE calls[i]
    BY <1>1, ExceptSeq
  <2>2. Len(calls) - 1 \in Nat /\ Len(calls) - 1 <= Len(calls)
    BY <1>1, LenProperties
  <2>3. Len(Below) = Len(calls) - 1 /\ \A i \in 1 .. Len(calls) - 1 : Below[i] = calls[i]
    BY <1>1, <2>2, Prefix DEF Below
  <2>4. /\ Append(Below, call) \in Seq(CallSet) /\ Len(Append(Below, call)) = Len(calls)
        /\ \A i \in 1 .. Len(Below) : Append(Below, call)[i] = Below[i]
        /\ Append(Below, call)[Len(calls)] = call
    BY <1>1, <2>2, <2>3, AppendProperties
  <2>5. /\ Len(calls') = Len(Append(Below, call))
        /\ \A i \in 1 .. Len(calls') : calls'[i] = Append(Below, call)[i]
    <3>1. \A i \in 1 .. Len(calls) : i \in 1 .. Len(calls) - 1 \/ i = Len(calls)
      BY <1>1
    <3> QED
      BY <2>1, <2>2, <2>3, <2>4, <3>1
  <2> QED
    BY <2>1, <2>4, <2>5, SeqEqual
<1>3. AbstractCalls' = Image(calls')
  BY DEF AbstractCalls, Image
<1> QED
  BY <1>1, <1>2, <1>3, ImageOfAppend, AbstractBelow
-----------------------------------------------------------------------------
(* The steps.                                                              *)

Meant(references) == {r.meant : r \in references}

LEMMA MeantOfOneMore ==
  ASSUME NEW references, NEW r, NEW o, r.meant = o
  PROVE  Meant(references \cup {r}) = Meant(references) \cup {o}
  BY DEF Meant

LEMMA FieldChanged ==
  ASSUME NEW kind, NEW has, NEW sends, NEW call,
         call = [kind |-> kind, has |-> has, sends |-> sends]
  PROVE  /\ \A k : [call EXCEPT !.kind = k] = [kind |-> k, has |-> has, sends |-> sends]
         /\ \A o : [call EXCEPT !.has = @ \cup {o}]
                   = [kind |-> kind, has |-> has \cup {o}, sends |-> sends]
         /\ \A o : [call EXCEPT !.sends = @ \cup {o}]
                   = [kind |-> kind, has |-> has, sends |-> sends \cup {o}]
<1>1. ASSUME NEW k
      PROVE  [call EXCEPT !.kind = k] = [kind |-> k, has |-> has, sends |-> sends]
  OBVIOUS
<1>2. ASSUME NEW h
      PROVE  [call EXCEPT !.has = h] = [kind |-> kind, has |-> h, sends |-> sends]
  OBVIOUS
<1>3. ASSUME NEW x
      PROVE  [call EXCEPT !.sends = x] = [kind |-> kind, has |-> has, sends |-> x]
  OBVIOUS
<1>4. call.has = has /\ call.sends = sends
  OBVIOUS
<1>5. ASSUME NEW o
      PROVE  /\ [call EXCEPT !.has = call.has \cup {o}]
                = [kind |-> kind, has |-> has \cup {o}, sends |-> sends]
             /\ [call EXCEPT !.sends = call.sends \cup {o}]
                = [kind |-> kind, has |-> has, sends |-> sends \cup {o}]
  BY <1>2, <1>3, <1>4, Zenon
<1> QED
  BY <1>1, <1>5, Zenon

LEMMA AbstractCallIs ==
  ASSUME NEW call
  PROVE  AbstractCall(call) = [kind |-> call.kind, has |-> call.roots, sends |-> Meant(call.atoms)]
  BY DEF AbstractCall, Meant

LEMMA Unchanged ==
  /\ UNCHANGED calls => UNCHANGED AbstractCalls
  /\ UNCHANGED stored => UNCHANGED Meant(stored)
<1>1. ASSUME UNCHANGED calls PROVE UNCHANGED AbstractCalls
  BY <1>1 DEF AbstractCalls
<1>2. ASSUME UNCHANGED stored PROVE UNCHANGED Meant(stored)
  BY <1>2 DEF Meant
<1> QED
  BY <1>1, <1>2

\* Scripts make objects, keep them and drop them.
LEMMA ScriptRefines ==
  ASSUME IInv, NEW o \in Object, New(o) \/ Keep(o) \/ Drop(o)
  PROVE  Abstract!New(o) \/ Abstract!Keep(o) \/ Abstract!Drop(o)
<1>1. UNCHANGED AbstractCalls /\ UNCHANGED Meant(stored)
  BY Unchanged DEF New, Keep, Drop
<1>2. Running("handler") /\ Abstract!Running("handler")
  BY AbstractTop DEF New, Keep, Drop, Running, Abstract!Running
<1>3. Abstract!Top.has = Top.roots
  BY <1>2, AbstractTop DEF Running
<1>4. CASE New(o)
  BY <1>1, <1>2, <1>4 DEF New, Abstract!New, Meant
<1>5. CASE Keep(o)
  BY <1>1, <1>2, <1>3, <1>5 DEF Keep, Abstract!Keep, Meant
<1>6. CASE Drop(o)
  BY <1>1, <1>2, <1>6 DEF Drop, Abstract!Drop, Meant
<1> QED
  BY <1>4, <1>5, <1>6

LEMMA EnterRefines ==
  ASSUME IInv, Enter
  PROVE  Abstract!Enter
<1> DEFINE call == Call("handler", {}, {})
<1>1. call \in CallSet /\ AbstractCall(call) = Abstract!Call("handler", {}, {})
  BY DEF Call, CallSet, AbstractCall, Abstract!Call
<1>2. Abstract!Push(Abstract!Call("handler", {}, {}))
  BY <1>1, PushIsPush DEF Enter
<1>3. AbstractCalls # <<>> => Abstract!Top.kind # "handler"
  BY AbstractTop DEF Enter
<1>4. UNCHANGED Meant(stored)
  BY Unchanged DEF Enter
<1> QED
  BY <1>2, <1>3, <1>4 DEF Enter, Abstract!Enter, Meant

LEMMA OutletRefines ==
  ASSUME IInv, NEW objects \in SUBSET Object, Outlet(objects)
  PROVE  Abstract!Outlet(objects)
<1> DEFINE call == Call("marshal", objects, {})
<1>1. call \in CallSet /\ AbstractCall(call) = Abstract!Call("marshal", objects, {})
  BY DEF Call, CallSet, AbstractCall, Abstract!Call
<1>2. Abstract!Push(Abstract!Call("marshal", objects, {}))
  BY <1>1, PushIsPush DEF Outlet
<1>3. Abstract!Running("handler") /\ Abstract!Top.has = Top.roots
  BY AbstractTop DEF Outlet, Running, Abstract!Running
<1>4. UNCHANGED Meant(stored)
  BY Unchanged DEF Outlet
<1> QED
  BY <1>2, <1>3, <1>4 DEF Outlet, Abstract!Outlet, Meant

\* An atom more, with an address that is found or made.
LEMMA AtomRefines ==
  ASSUME IInv, Running("marshal"), NEW o \in Top.roots, NEW a \in Address, AddAtom(a, o),
         UNCHANGED <<heap, held, born, stored>>
  PROVE  Abstract!Refer(o)
<1> DEFINE atom == [address |-> a, meant |-> o]
<1>1. PICK call \in CallSet : /\ calls' = [calls EXCEPT ![Len(calls)] = call]
                              /\ call = [Top EXCEPT !.atoms = Top.atoms \cup {atom}]
  <2> DEFINE next == [Top EXCEPT !.atoms = Top.atoms \cup {atom}]
  <2>1. Top \in CallSet /\ Top.roots \subseteq Object /\ Top.atoms \subseteq Reference
    BY TopSound DEF Running
  <2>2. Top.atoms \cup {atom} \in SUBSET Reference
    BY <2>1 DEF Reference
  <2>3. next \in CallSet
    <3> HIDE DEF atom
    <3> QED
      BY <2>1, <2>2 DEF CallSet
  <2>4. calls' = [calls EXCEPT ![Len(calls)] = next]
    BY DEF AddAtom, Top
  <2> QED
    BY <2>3, <2>4
<1>2. AbstractCalls' = Append(Abstract!Below, AbstractCall(call))
  BY <1>1, ChangeIsChange DEF Running
<1>3. Abstract!Top = AbstractCall(Top) /\ Abstract!Running("marshal") /\ o \in Abstract!Top.has
  BY AbstractTop DEF Running, Abstract!Running
<1>4. AbstractCall(call) = [Abstract!Top EXCEPT !.sends = @ \cup {o}]
  <2>1. Top \in CallSet
    BY TopSound DEF Running
  <2>2. call.kind = Top.kind /\ call.roots = Top.roots /\ call.atoms = Top.atoms \cup {atom}
    BY <1>1, <2>1 DEF CallSet
  <2>3. Meant(call.atoms) = Meant(Top.atoms) \cup {o}
    <3>1. atom.meant = o
      OBVIOUS
    <3> HIDE DEF atom
    <3> QED
      BY <2>2, <3>1, MeantOfOneMore
  <2> QED
    <3>1. Abstract!Top = [kind |-> Top.kind, has |-> Top.roots, sends |-> Meant(Top.atoms)]
      BY <1>3, AbstractCallIs
    <3>2. AbstractCall(call)
          = [kind |-> Top.kind, has |-> Top.roots, sends |-> Meant(Top.atoms) \cup {o}]
      BY <2>2, <2>3, AbstractCallIs
    <3>3. PICK top, sends : top = Abstract!Top /\ sends = Meant(Top.atoms)
      OBVIOUS
    <3> HIDE DEF atom
    <3>4. [top EXCEPT !.sends = @ \cup {o}]
          = [kind |-> Top.kind, has |-> Top.roots, sends |-> sends \cup {o}]
      BY <3>1, <3>3, FieldChanged
    <3> QED
      BY <3>2, <3>3, <3>4
<1>5. UNCHANGED Meant(stored)
  BY Unchanged
<1> QED
  BY <1>2, <1>3, <1>4, <1>5 DEF Abstract!Refer, Meant

LEMMA HandleRefines ==
  ASSUME IInv, NEW o \in Object, NEW a \in Address, FindHandle(o) \/ MakeHandle(o, a)
  PROVE  Abstract!Refer(o)
<1>1. CASE FindHandle(o)
  <2>1. PICK b \in HandlesOf(o) : AddAtom(b, o)
    BY <1>1 DEF FindHandle
  <2>2. b \in Address
    BY <2>1 DEF HandlesOf, IInv, Typed
  <2> QED
    BY <1>1, <2>1, <2>2, AtomRefines DEF FindHandle
<1>2. CASE MakeHandle(o, a)
  BY <1>2, AtomRefines DEF MakeHandle
<1> QED
  BY <1>1, <1>2

LEMMA SendRefines ==
  ASSUME IInv, Send
  PROVE  Abstract!Send
<1>1. calls # <<>> /\ Running("marshal")
  BY DEF Send, Running
<1>2. PICK call \in CallSet : /\ calls' = [calls EXCEPT ![Len(calls)] = call]
                              /\ call = [Top EXCEPT !.kind = "send"]
  <2> DEFINE next == [Top EXCEPT !.kind = "send"]
  <2>1. next \in CallSet
    BY <1>1, TopSound DEF CallSet
  <2>2. calls' = [calls EXCEPT ![Len(calls)] = next]
    BY DEF Send, Top
  <2> QED
    BY <2>1, <2>2
<1>3. AbstractCalls' = Append(Abstract!Below, AbstractCall(call))
  BY <1>1, <1>2, ChangeIsChange
<1>4. Abstract!Top = AbstractCall(Top) /\ Abstract!Running("marshal")
  BY <1>1, AbstractTop DEF Running, Abstract!Running
<1>5. AbstractCall(call) = [Abstract!Top EXCEPT !.kind = "send"]
  <2>1. call.kind = "send" /\ call.roots = Top.roots /\ call.atoms = Top.atoms
    BY <1>1, <1>2, TopSound DEF CallSet
  <2>2. Abstract!Top = [kind |-> Top.kind, has |-> Top.roots, sends |-> Meant(Top.atoms)]
    BY <1>4, AbstractCallIs
  <2>3. AbstractCall(call) = [kind |-> "send", has |-> Top.roots, sends |-> Meant(Top.atoms)]
    BY <2>1, AbstractCallIs
  <2>4. PICK top : top = Abstract!Top
    OBVIOUS
  <2>5. [top EXCEPT !.kind = "send"] = AbstractCall(call)
    BY <2>2, <2>3, <2>4, FieldChanged
  <2> QED
    BY <2>4, <2>5
<1>6. UNCHANGED Meant(stored)
  BY Unchanged DEF Send
<1> QED
  BY <1>3, <1>4, <1>5, <1>6 DEF Send, Abstract!Send, Meant

LEMMA ReturnRefines ==
  ASSUME IInv, Return
  PROVE  Abstract!Return
<1>1. calls # <<>> /\ calls' = Below
  BY DEF Return
<1>2. AbstractCalls' = Abstract!Below
  <2>1. AbstractCalls' = Image(calls')
    BY DEF AbstractCalls, Image
  <2> QED
    BY <1>1, <2>1, AbstractBelow
<1>3. AbstractCalls # <<>>
  BY <1>1, AbstractTop
<1>4. UNCHANGED Meant(stored)
  BY Unchanged DEF Return
<1> QED
  BY <1>2, <1>3, <1>4 DEF Return, Abstract!Return, Meant

\* The patch keeps a reference.  It forgets one: as long as it has another to
\* the same object, that changes nothing.
LEMMA PatchRefines ==
  ASSUME IInv, NEW r \in Reference, Store(r) \/ Unstore(r)
  PROVE  \/ Abstract!Store(r.meant)
         \/ Abstract!Unstore(r.meant)
         \/ UNCHANGED <<heap, held, born, AbstractCalls, Meant(stored)>>
<1>1. UNCHANGED AbstractCalls /\ UNCHANGED <<heap, held, born>>
  BY Unchanged DEF Store, Unstore
<1>2. CASE Store(r)
  <2>1. calls # <<>> /\ Top.kind = "send" /\ r \in Top.atoms
    BY <1>2 DEF Store, Running
  <2>2. Abstract!Running("send") /\ Abstract!Top.sends = {q.meant : q \in Top.atoms}
    BY <2>1, AbstractTop DEF Abstract!Running
  <2>3. Meant(stored)' = Meant(stored) \cup {r.meant}
    BY <1>2 DEF Store, Meant
  <2> QED
    BY <1>1, <2>1, <2>2, <2>3 DEF Abstract!Store, Meant
<1>3. CASE Unstore(r)
  <2>1. Abstract!PdHasControl
    BY <1>3, AbstractTop DEF Unstore, PdHasControl, Abstract!PdHasControl
  <2>2. stored' = stored \ {r} /\ r \in stored
    BY <1>3 DEF Unstore
  <2>3. Meant(stored)' = Meant(stored) \ {r.meant} \/ Meant(stored)' = Meant(stored)
    <3>1. CASE \E q \in stored \ {r} : q.meant = r.meant
      BY <2>2, <3>1 DEF Meant
    <3>2. CASE ~ \E q \in stored \ {r} : q.meant = r.meant
      BY <2>2, <3>2 DEF Meant
    <3> QED
      BY <3>1, <3>2
  <2> QED
    BY <1>1, <2>1, <2>3 DEF Abstract!Unstore, Meant
<1> QED
  BY <1>2, <1>3

\* What a reference gives: the object it was made for if that lives, because
\* it resolves then, and a living object in any case.
LEMMA GivesWhatItMay ==
  ASSUME IInv, NEW r \in Reference, r.address \in jsobjects,
         r.meant \in heap => Resolves(r)
  PROVE  /\ handle[r.address] \in Abstract!MayGive(r.meant)
         /\ handle[r.address] \in Object
<1>1. handle[r.address] \in heap /\ handle[r.address] \in Object
  BY DEF IInv, RegistryIsSound, Typed
<1> QED
  BY <1>1 DEF Abstract!MayGive, Resolves

LEMMA DeliverRefines ==
  ASSUME IInv, NEW r \in Reference, Deliver(r)
  PROVE  Abstract!Deliver(r.meant)
<1>1. r.meant \in heap => Resolves(r)
  <2>1. CASE r \in stored
    BY <2>1 DEF IInv, StoredSound
  <2>2. CASE calls # <<>> /\ r \in Top.atoms
    BY <2>2, TopSound DEF CallSound
  <2> QED
    BY <2>1, <2>2 DEF Deliver
<1>2. PICK o : o = handle[r.address]
  OBVIOUS
<1>3. o \in Abstract!MayGive(r.meant) /\ o \in Object
  BY <1>1, <1>2, GivesWhatItMay DEF Deliver
<1> DEFINE call == Call("handler", {o}, {})
<1>4. call \in CallSet /\ AbstractCall(call) = Abstract!Call("handler", {o}, {})
  BY <1>3 DEF Call, CallSet, AbstractCall, Abstract!Call
<1>5. Abstract!Push(Abstract!Call("handler", {o}, {}))
  BY <1>2, <1>4, PushIsPush DEF Deliver
<1>6. Abstract!PdHasControl
  BY AbstractTop DEF Deliver, PdHasControl, Abstract!PdHasControl
<1>7. r.meant \in IF AbstractCalls = <<>> THEN Meant(stored)
                                          ELSE Meant(stored) \cup Abstract!Top.sends
  BY AbstractTop DEF Deliver, Meant
<1>8. UNCHANGED Meant(stored)
  BY Unchanged DEF Deliver
<1> QED
  BY <1>3, <1>5, <1>6, <1>7, <1>8 DEF Deliver, Abstract!Deliver, Meant

LEMMA HavingRefines ==
  ASSUME IInv, calls # <<>>, NEW o \in Object,
         calls' = [calls EXCEPT ![Len(calls)].roots = @ \cup {o}]
  PROVE  AbstractCalls' = Append(Abstract!Below, [Abstract!Top EXCEPT !.has = @ \cup {o}])
<1>1. PICK call \in CallSet : /\ calls' = [calls EXCEPT ![Len(calls)] = call]
                              /\ call = [Top EXCEPT !.roots = Top.roots \cup {o}]
  <2> DEFINE next == [Top EXCEPT !.roots = Top.roots \cup {o}]
  <2>1. next \in CallSet
    <3>1. Top.roots \cup {o} \in SUBSET Object
      BY TopSound
    <3> QED
      BY <3>1, TopSound DEF CallSet
  <2>2. calls' = [calls EXCEPT ![Len(calls)] = next]
    BY DEF Top
  <2> QED
    BY <2>1, <2>2
<1>2. AbstractCalls' = Append(Abstract!Below, AbstractCall(call))
  BY <1>1, ChangeIsChange
<1>3. Abstract!Top = AbstractCall(Top)
  BY AbstractTop
<1>4. AbstractCall(call) = [Abstract!Top EXCEPT !.has = @ \cup {o}]
  <2>1. call.kind = Top.kind /\ call.roots = Top.roots \cup {o} /\ call.atoms = Top.atoms
    BY <1>1, TopSound DEF CallSet
  <2>2. Abstract!Top = [kind |-> Top.kind, has |-> Top.roots, sends |-> Meant(Top.atoms)]
    BY <1>3, AbstractCallIs
  <2>3. AbstractCall(call)
        = [kind |-> Top.kind, has |-> Top.roots \cup {o}, sends |-> Meant(Top.atoms)]
    BY <2>1, AbstractCallIs
  <2>4. PICK top : top = Abstract!Top
    OBVIOUS
  <2>5. PICK kind, roots, sends : kind = Top.kind /\ roots = Top.roots /\ sends = Meant(Top.atoms)
    OBVIOUS
  <2>6. top = [kind |-> kind, has |-> roots, sends |-> sends]
    BY <2>2, <2>4, <2>5
  <2>7. ASSUME NEW has
        PROVE  [top EXCEPT !.has = has] = [kind |-> kind, has |-> has, sends |-> sends]
    BY <2>6
  <2>8. top.has = roots
    BY <2>6
  <2> QED
    BY <2>3, <2>4, <2>5, <2>7, <2>8
<1> QED
  BY <1>2, <1>4

LEMMA ReadArgumentRefines ==
  ASSUME IInv, NEW r \in Reference, ReadArgument(r)
  PROVE  Abstract!ReadArgument(r.meant)
<1>1. calls # <<>> /\ r \in stored /\ r.address \in jsobjects
  BY DEF ReadArgument, Running
<1>2. PICK o : o = handle[r.address]
  OBVIOUS
<1>3. o \in Abstract!MayGive(r.meant) /\ o \in Object
  BY <1>1, <1>2, GivesWhatItMay DEF IInv, StoredSound
<1>4. calls' = [calls EXCEPT ![Len(calls)].roots = @ \cup {o}]
  BY <1>2 DEF ReadArgument
<1>5. AbstractCalls' = Append(Abstract!Below, [Abstract!Top EXCEPT !.has = @ \cup {o}])
  BY <1>1, <1>3, <1>4, HavingRefines
<1>6. Abstract!Running("handler")
  BY <1>1, AbstractTop DEF ReadArgument, Running, Abstract!Running
<1>7. UNCHANGED Meant(stored) /\ r.meant \in Meant(stored)
  BY <1>1, Unchanged DEF ReadArgument, Meant
<1> QED
  BY <1>3, <1>5, <1>6, <1>7 DEF ReadArgument, Abstract!ReadArgument, Meant

LEMMA ReadElementRefines ==
  ASSUME IInv, NEW o \in Object, ReadElement(o)
  PROVE  Abstract!ReadElement(o)
<1>1. calls # <<>> /\ o \in held /\ calls' = [calls EXCEPT ![Len(calls)].roots = @ \cup {o}]
  BY DEF ReadElement, Running
<1>2. AbstractCalls' = Append(Abstract!Below, [Abstract!Top EXCEPT !.has = @ \cup {o}])
  BY <1>1, HavingRefines
<1>3. Abstract!Running("marshal")
  BY <1>1, AbstractTop DEF ReadElement, Running, Abstract!Running
<1>4. UNCHANGED Meant(stored)
  BY Unchanged DEF ReadElement
<1> QED
  BY <1>1, <1>2, <1>3, <1>4 DEF ReadElement, Abstract!ReadElement, Meant

\* What is sent is among what the call that sends it has.
LEMMA CollectRefines ==
  ASSUME IInv, NEW o \in Object, Collect(o)
  PROVE  Abstract!Collect(o)
<1>1. o \notin held /\ o \notin Rooted /\ heap' = heap \ {o} /\ UNCHANGED <<held, born>>
  BY DEF Collect, WeakCallback
<1>2. DOMAIN AbstractCalls = DOMAIN calls
  BY DEF AbstractCalls
<1>3. ASSUME NEW i \in DOMAIN calls
      PROVE  o \notin AbstractCalls[i].has \cup AbstractCalls[i].sends
  <2>1. /\ AbstractCalls[i].has = calls[i].roots
        /\ AbstractCalls[i].sends = {r.meant : r \in calls[i].atoms}
    BY DEF AbstractCalls, AbstractCall
  <2>2. o \notin calls[i].roots
    BY <1>1 DEF Rooted
  <2>3. \A r \in calls[i].atoms : r.meant \in calls[i].roots
    BY DEF IInv, CallsSound, CallSound
  <2> QED
    BY <2>1, <2>2, <2>3
<1>4. UNCHANGED AbstractCalls /\ UNCHANGED Meant(stored)
  BY Unchanged DEF Collect, WeakCallback
<1> QED
  BY <1>1, <1>2, <1>3, <1>4 DEF Abstract!Collect, Meant

\* JsObjects implements Binding: to scripts and to the patch, the weak
\* handles, their addresses and the table are as good as messages that carry
\* the objects themselves.
THEOREM JsObjectsImplementsBinding == Spec => BindingSpec
<1>1. Init => Abstract!Init
  BY DEF Init, Abstract!Init, AbstractCalls
<1>2. IInv /\ [Next]_vars => [Abstract!Next]_(Abstract!vars)
  <2> SUFFICES ASSUME IInv, [Next]_vars PROVE Abstract!Next \/ UNCHANGED Abstract!vars
    OBVIOUS
  <2>1. CASE UNCHANGED vars
    BY <2>1, Unchanged DEF vars, Abstract!vars, Meant
  <2>2. CASE Enter \/ Send \/ Return
    BY <2>2, EnterRefines, SendRefines, ReturnRefines DEF Abstract!Next
  <2>3. ASSUME NEW o \in Object, New(o) \/ Keep(o) \/ Drop(o) \/ ReadElement(o) \/ Collect(o)
        PROVE  Abstract!Next
    BY <2>3, ScriptRefines, ReadElementRefines, CollectRefines DEF Abstract!Next
  <2>4. ASSUME NEW o \in Object, FindHandle(o) PROVE Abstract!Next
    <3>1. PICK a \in Address : TRUE
      BY <2>4 DEF FindHandle, HandlesOf, IInv, Typed
    <3> QED
      BY <2>4, <3>1, HandleRefines DEF Abstract!Next
  <2>5. ASSUME NEW o \in Object, NEW a \in Address, MakeHandle(o, a) PROVE Abstract!Next
    BY <2>5, HandleRefines DEF Abstract!Next
  <2>6. ASSUME NEW objects \in SUBSET Object, Outlet(objects) PROVE Abstract!Next
    BY <2>6, OutletRefines DEF Abstract!Next
  <2>7. ASSUME NEW r \in Reference, Store(r) \/ Unstore(r) \/ Deliver(r) \/ ReadArgument(r)
        PROVE  Abstract!Next \/ UNCHANGED Abstract!vars
    <3>1. r.meant \in Object
      BY DEF Reference
    <3>2. CASE Store(r) \/ Unstore(r)
      BY <3>1, <3>2, PatchRefines DEF Abstract!Next, Abstract!vars, Meant
    <3>3. CASE Deliver(r) \/ ReadArgument(r)
      BY <3>1, <3>3, DeliverRefines, ReadArgumentRefines DEF Abstract!Next
    <3> QED
      BY <2>7, <3>2, <3>3
  <2> QED
    BY <2>1, <2>2, <2>3, <2>4, <2>5, <2>6, <2>7 DEF Next
<1> QED
  BY <1>1, <1>2, JsObjectsInvariant, PTL DEF Spec, BindingSpec, Abstract!Spec
=============================================================================
