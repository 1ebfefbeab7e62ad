------------------------------ MODULE Binding ------------------------------
(***************************************************************************)
(* What references to objects in Pd messages promise: a message carries    *)
(* the object itself.  There are no addresses here and no table: whoever   *)
(* is sent a reference to an object that lives gets that object, at once   *)
(* or from where the patch has kept it, and what is on its way is not      *)
(* collected.  Nothing is promised of a reference to an object that was    *)
(* collected: it may give nothing, or any object that lives.               *)
(*                                                                         *)
(* JsObjects implements this with weak handles and their addresses.        *)
(***************************************************************************)
EXTENDS Integers, Sequences

CONSTANTS
  Object,    (* the JavaScript objects scripts ever make                   *)
  MaxDepth   (* bound: calls in progress                                   *)

VARIABLES
  heap,    (* the objects that live                                        *)
  held,    (* those a script can reach from its globals                    *)
  born,    (* the objects made so far                                      *)
  calls,   (* the calls in progress: what each has, and what it sends      *)
  stored   (* the objects the patch has kept a reference to                *)

vars == <<heap, held, born, calls, stored>>

Call(kind, has, sends) == [kind |-> kind, has |-> has, sends |-> sends]

Top   == calls[Len(calls)]
Below == SubSeq(calls, 1, Len(calls) - 1)
Running(kind) == calls # <<>> /\ Top.kind = kind
PdHasControl  == calls # <<>> => Top.kind = "send"

Push(call) == Len(calls) < MaxDepth /\ calls' = Append(calls, call)

\* What a reference that was made for o gives.
MayGive(o) == IF o \in heap THEN {o} ELSE heap

-----------------------------------------------------------------------------
\* A script is called, makes objects, keeps them and drops them.
Enter ==
  /\ calls # <<>> => Top.kind # "handler"
  /\ Push(Call("handler", {}, {}))
  /\ UNCHANGED <<heap, held, born, stored>>

New(o) ==
  /\ Running("handler")
  /\ o \notin born
  /\ born' = born \cup {o}
  /\ heap' = heap \cup {o}
  /\ held' = held \cup {o}
  /\ UNCHANGED <<calls, stored>>

Keep(o) ==
  /\ Running("handler")
  /\ o \in Top.has
  /\ held' = held \cup {o}
  /\ UNCHANGED <<heap, born, calls, stored>>

Drop(o) ==
  /\ Running("handler")
  /\ held' = held \ {o}
  /\ UNCHANGED <<heap, born, calls, stored>>

\* It sends some: one after the other they are put into the message, and
\* with them what the elements of an array turn out to be.
Outlet(objects) ==
  /\ Running("handler")
  /\ objects \subseteq held \cup Top.has
  /\ Push(Call("marshal", objects, {}))
  /\ UNCHANGED <<heap, held, born, stored>>

ReadElement(o) ==
  /\ Running("marshal")
  /\ o \in held
  /\ calls' = Append(Below, [Top EXCEPT !.has = @ \cup {o}])
  /\ UNCHANGED <<heap, held, born, stored>>

Refer(o) ==
  /\ Running("marshal")
  /\ o \in Top.has
  /\ calls' = Append(Below, [Top EXCEPT !.sends = @ \cup {o}])
  /\ UNCHANGED <<heap, held, born, stored>>

Send ==
  /\ Running("marshal")
  /\ calls' = Append(Below, [Top EXCEPT !.kind = "send"])
  /\ UNCHANGED <<heap, held, born, stored>>

\* The patch keeps and forgets references.
Store(o) ==
  /\ Running("send")
  /\ o \in Top.sends
  /\ stored' = stored \cup {o}
  /\ UNCHANGED <<heap, held, born, calls>>

Unstore(o) ==
  /\ PdHasControl
  /\ stored' = stored \ {o}
  /\ UNCHANGED <<heap, held, born, calls>>

\* A reference to o reaches a script that is called, or that reads its box's
\* arguments.
Deliver(o) ==
  /\ PdHasControl
  /\ o \in IF calls = <<>> THEN stored ELSE stored \cup Top.sends
  /\ \E p \in MayGive(o) : Push(Call("handler", {p}, {}))
  /\ UNCHANGED <<heap, held, born, stored>>

ReadArgument(o) ==
  /\ Running("handler")
  /\ o \in stored
  /\ \E p \in MayGive(o) : calls' = Append(Below, [Top EXCEPT !.has = @ \cup {p}])
  /\ UNCHANGED <<heap, held, born, stored>>

Return ==
  /\ calls # <<>>
  /\ calls' = Below
  /\ UNCHANGED <<heap, held, born, stored>>

\* An object goes when no script and no call has it and no message that is
\* being delivered refers to it.
Collect(o) ==
  /\ o \notin held
  /\ \A i \in DOMAIN calls : o \notin calls[i].has \cup calls[i].sends
  /\ heap' = heap \ {o}
  /\ UNCHANGED <<held, born, calls, stored>>

-----------------------------------------------------------------------------
Init == heap = {} /\ held = {} /\ born = {} /\ calls = <<>> /\ stored = {}

Next ==
  \/ Enter \/ Send \/ Return
  \/ \E o \in Object :
       \/ New(o) \/ Keep(o) \/ Drop(o) \/ ReadElement(o) \/ Refer(o)
       \/ Store(o) \/ Unstore(o) \/ Deliver(o) \/ ReadArgument(o) \/ Collect(o)
  \/ \E objects \in SUBSET Object : Outlet(objects)

Spec == Init /\ [][Next]_vars
=============================================================================
