----------------------------- MODULE JsObjects -----------------------------
(***************************************************************************)
(* JavaScript objects in Pd messages: the set jsobjects of weak handles    *)
(* (js_unmarshal_string, js_marshal_object) under V8's garbage collector.  *)
(*                                                                         *)
(* An object leaves a script as the two symbols "jsobject" and the address *)
(* of a v8::Persistent that refers to it weakly.  The address comes back   *)
(* in a message, at once or after the patch has stored it, and is looked   *)
(* up in jsobjects.  The collector erases the handle of an object nothing  *)
(* else refers to, and operator new may use its address again.             *)
(*                                                                         *)
(* Calls nest as in Dispatch; what a call has in V8 handles of its own     *)
(* (its arguments, the values it has read) survives until it returns.      *)
(***************************************************************************)
EXTENDS Integers, Sequences

CONSTANTS
  Object,    (* the JavaScript objects scripts ever make                   *)
  Address,   (* what operator new may return for a Persistent              *)
  MaxDepth   (* bound: calls in progress                                   *)

ASSUME JsObjectsAssumption == MaxDepth \in Nat

VARIABLES
  heap,       (* the objects in V8's heap                                  *)
  held,       (* those a script can reach from its globals                 *)
  born,       (* the objects made so far                                   *)
  jsobjects,  (* the addresses in the set jsobjects                        *)
  handle,     (* handle[a]: the object the Persistent at a refers to       *)
  calls,      (* the calls in progress, the running one last               *)
  stored      (* the references the patch has kept, also in a box's        *)
              (* arguments                                                 *)

vars == <<heap, held, born, jsobjects, handle, calls, stored>>

\* A reference is an address; meant is the object it was made for, which
\* the program does not record.
Reference == [address : Address, meant : Object]

\* "handler": a script runs.  "marshal": js_unmarshal_args collects atoms for
\* outlet or messnamed.  "send": Pd delivers them.
Call(kind, roots, atoms) == [kind |-> kind, roots |-> roots, atoms |-> atoms]

Top   == calls[Len(calls)]
Below == SubSeq(calls, 1, Len(calls) - 1)
Running(kind) == calls # <<>> /\ Top.kind = kind

\* Pd runs: no script does, or one waits in outlet_anything.
PdHasControl == calls # <<>> => Top.kind = "send"

Push(call) == Len(calls) < MaxDepth /\ calls' = Append(calls, call)

\* The objects in handles of the calls in progress.
Rooted == UNION {calls[i].roots : i \in DOMAIN calls}

-----------------------------------------------------------------------------
(* Scripts.                                                                *)

\* Pd calls a script, with no object among the arguments; a script's accessor
\* is called while a value is marshalled.
Enter ==
  /\ calls # <<>> => Top.kind # "handler"
  /\ Push(Call("handler", {}, {}))
  /\ UNCHANGED <<heap, held, born, jsobjects, handle, stored>>

\* The running script makes an object.
New(o) ==
  /\ Running("handler")
  /\ o \notin born
  /\ born' = born \cup {o}
  /\ heap' = heap \cup {o}
  /\ held' = held \cup {o}
  /\ UNCHANGED <<jsobjects, handle, calls, stored>>

\* It keeps an argument, or drops an object.
Keep(o) ==
  /\ Running("handler")
  /\ o \in Top.roots \ held
  /\ held' = held \cup {o}
  /\ UNCHANGED <<heap, born, jsobjects, handle, calls, stored>>

Drop(o) ==
  /\ Running("handler")
  /\ o \in held
  /\ held' = held \ {o}
  /\ UNCHANGED <<heap, born, jsobjects, handle, calls, stored>>

\* It calls outlet or messnamed with objects it can reach: V8 keeps the
\* arguments alive for the call.
Outlet(objects) ==
  /\ Running("handler")
  /\ objects \subseteq held \cup Top.roots
  /\ Push(Call("marshal", objects, {}))
  /\ UNCHANGED <<heap, held, born, jsobjects, handle, stored>>

-----------------------------------------------------------------------------
(* js_unmarshal_string, js_marshal_object and the weak callback.           *)

\* An array element is read, and an accessor may return any object scripts
\* hold: it is in a handle of the call from now on.
ReadElement(o) ==
  /\ Running("marshal")
  /\ o \in held \ Top.roots
  /\ calls' = [calls EXCEPT ![Len(calls)].roots = @ \cup {o}]
  /\ UNCHANGED <<heap, held, born, jsobjects, handle, stored>>

\* The atoms of the running call, with one for o.
AddAtom(a, o) ==
  calls' = [calls EXCEPT ![Len(calls)].atoms = @ \cup {[address |-> a, meant |-> o]}]

\* The loop over jsobjects that looks for a handle to o.
HandlesOf(o) == {a \in jsobjects : handle[a] = o}

\* o has a handle: its address is used again.
FindHandle(o) ==
  /\ Running("marshal")
  /\ o \in Top.roots
  /\ \E a \in HandlesOf(o) : AddAtom(a, o)
  /\ UNCHANGED <<heap, held, born, jsobjects, handle, stored>>

\* Faulty variant of MakeHandle: no search for a handle the object has.
AlwaysMakeHandle(o, a) ==
  /\ Running("marshal")
  /\ o \in Top.roots
  /\ a \notin DOMAIN handle
  /\ jsobjects' = jsobjects \cup {a}
  /\ handle' = [b \in DOMAIN handle \cup {a} |-> IF b = a THEN o ELSE handle[b]]
  /\ AddAtom(a, o)
  /\ UNCHANGED <<heap, held, born, stored>>

\* o has none: a weak handle is made, at an address no handle has.
MakeHandle(o, a) ==
  /\ Running("marshal")
  /\ o \in Top.roots
  /\ HandlesOf(o) = {}
  /\ a \notin DOMAIN handle
  /\ jsobjects' = jsobjects \cup {a}
  /\ handle' = [b \in DOMAIN handle \cup {a} |-> IF b = a THEN o ELSE handle[b]]
  /\ AddAtom(a, o)
  /\ UNCHANGED <<heap, held, born, stored>>

\* outlet_anything, pd_typedmess.
Send ==
  /\ Running("marshal")
  /\ calls' = [calls EXCEPT ![Len(calls)].kind = "send"]
  /\ UNCHANGED <<heap, held, born, jsobjects, handle, stored>>

\* The patch keeps a reference it was sent (in a message box, a symbol, ...).
Store(r) ==
  /\ Running("send")
  /\ r \in Top.atoms \ stored
  /\ stored' = stored \cup {r}
  /\ UNCHANGED <<heap, held, born, jsobjects, handle, calls>>

\* It may forget it.
Unstore(r) ==
  /\ PdHasControl
  /\ r \in stored
  /\ stored' = stored \ {r}
  /\ UNCHANGED <<heap, held, born, jsobjects, handle, calls>>

\* A message brings a reference to a box.  js_marshal_object finds its address
\* in the set, and the script is called with the object.
Deliver(r) ==
  /\ PdHasControl
  /\ r \in IF calls = <<>> THEN stored ELSE stored \cup Top.atoms
  /\ r.address \in jsobjects
  /\ Push(Call("handler", {handle[r.address]}, {}))
  /\ UNCHANGED <<heap, held, born, jsobjects, handle, stored>>

\* js_get on "jsarguments": a running script reads a reference that is among
\* the arguments of its box.
ReadArgument(r) ==
  /\ Running("handler")
  /\ r \in stored
  /\ r.address \in jsobjects
  /\ calls' = [calls EXCEPT ![Len(calls)].roots = @ \cup {handle[r.address]}]
  /\ UNCHANGED <<heap, held, born, jsobjects, handle, stored>>

\* Faulty variant of Return: the handles a call made or found go with it.
ReturnAndForget ==
  /\ calls # <<>>
  /\ calls' = Below
  /\ LET gone == {r.address : r \in Top.atoms}
     IN  /\ jsobjects' = jsobjects \ gone
         /\ handle' = [a \in DOMAIN handle \ gone |-> handle[a]]
  /\ UNCHANGED <<heap, held, born, stored>>

\* The script returns, the message is delivered, or there is nothing to send.
Return ==
  /\ calls # <<>>
  /\ calls' = Below
  /\ UNCHANGED <<heap, held, born, jsobjects, handle, stored>>

\* The weak callback: V8 drops o, and the callback erases the address of its
\* handle from the set and deletes the Persistent.
WeakCallback(o) ==
  /\ heap' = heap \ {o}
  /\ jsobjects' = jsobjects \ HandlesOf(o)
  /\ handle' = [a \in DOMAIN handle \ HandlesOf(o) |-> handle[a]]
  /\ UNCHANGED <<held, born, calls, stored>>

\* Faulty variants of Collect: the callback leaves the address in the set; a
\* HandleScope ends before the call does, and its objects are not kept.
CollectListed(o) ==
  /\ o \in heap \ (held \cup Rooted)
  /\ heap' = heap \ {o}
  /\ handle' = [a \in DOMAIN handle \ HandlesOf(o) |-> handle[a]]
  /\ UNCHANGED <<held, born, jsobjects, calls, stored>>

CollectRooted(o) == o \in heap \ held /\ WeakCallback(o)

\* V8 collects an object that neither a script nor a call refers to.
Collect(o) == o \in heap \ (held \cup Rooted) /\ WeakCallback(o)

-----------------------------------------------------------------------------
Init ==
  /\ heap = {} /\ held = {} /\ born = {}
  /\ jsobjects = {} /\ handle = <<>>
  /\ calls = <<>> /\ stored = {}

Next ==
  \/ Enter
  \/ Send
  \/ Return
  \/ \E o \in Object : New(o) \/ Keep(o) \/ Drop(o)
  \/ \E o \in Object : ReadElement(o) \/ FindHandle(o) \/ Collect(o)
  \/ \E o \in Object, a \in Address : MakeHandle(o, a)
  \/ \E objects \in SUBSET Object : Outlet(objects)
  \/ \E r \in Reference : Store(r) \/ Unstore(r) \/ Deliver(r) \/ ReadArgument(r)

Spec == Init /\ [][Next]_vars
-----------------------------------------------------------------------------
(* Properties.                                                             *)

Typed ==
  /\ born \subseteq Object
  /\ heap \subseteq born
  /\ held \subseteq heap
  /\ jsobjects \subseteq Address
  /\ DOMAIN handle \subseteq Address
  /\ \A a \in DOMAIN handle : handle[a] \in Object
  /\ calls \in Seq([kind : {"handler", "marshal", "send"},
                    roots : SUBSET Object, atoms : SUBSET Reference])
  /\ stored \subseteq Reference

\* Values are of their types; what scripts reach is in V8's heap, and so are the
\* values that js_anything and the host functions have read and still work with.
TypeOK == Typed /\ Rooted \subseteq heap

\* js_marshal_object never follows a dangling pointer: the set holds exactly
\* the Persistents that exist, and they refer to objects that exist.
RegistryIsSound ==
  /\ jsobjects = DOMAIN handle
  /\ \A a \in DOMAIN handle : handle[a] \in heap

\* An object is known to the patch by one address: two boxes that are sent
\* the same object can tell.
OneHandlePerObject ==
  \A a, b \in DOMAIN handle : handle[a] = handle[b] => a = b

Resolves(r) == r.address \in jsobjects /\ handle[r.address] = r.meant

\* While outlet or messnamed has not returned, its atoms stand for the very
\* objects it was called with, whatever the receivers do and however often
\* the collector runs, and even if no script holds them.
SendsResolve ==
  \A i \in DOMAIN calls : \A r \in calls[i].atoms : Resolves(r)

\* A reference the patch stored goes on resolving to its object for as long
\* as the object lives, through any number of later sends.
StoredResolveWhileAlive ==
  \A r \in stored : r.meant \in heap => Resolves(r)

\* References without their addresses.
AbstractCall(call) ==
  [kind |-> call.kind, has |-> call.roots, sends |-> {r.meant : r \in call.atoms}]

AbstractCalls == [i \in DOMAIN calls |-> AbstractCall(calls[i])]

Abstract == INSTANCE Binding WITH
  calls  <- AbstractCalls,
  stored <- {r.meant : r \in stored}

\* The table, the addresses and the weak handles together behave as Binding
\* says: a reference to an object is as good as the object for as long as that
\* lives, whenever the collector runs and whatever addresses are used again.
BindingSpec == Abstract!Spec

\* README: references to objects can be passed across instances: one that
\* resolves gives the object it was made for.
ReferencesAreFaithful ==
  \A r \in stored : r.address \in jsobjects => Resolves(r)
=============================================================================
