----------------------------- MODULE Exceptions -----------------------------
(***************************************************************************)
(* Where exceptions of scripts go: the two TryCatch of js.cpp (in js_load  *)
(* and in js_anything), the calls into V8 that have none, and the texts    *)
(* that js_post, js_cpost, js_error and js_get_exception_msg make of       *)
(* values.                                                                 *)
(*                                                                         *)
(* stack alternates between C++ functions of js.cpp and the scripts they   *)
(* call; a script may call a host function, and Pd may call js_anything    *)
(* from inside outlet_anything.  An operation of V8 that reads a property, *)
(* makes a number or a text of a value or calls a function may run a       *)
(* script, and the script may throw.  If no TryCatch is in scope, V8       *)
(* schedules the exception for the script further down that is waiting for *)
(* a host function, and drops it if there is none.  "When an exception has *)
(* been scheduled it is illegal to invoke any JavaScript operation"        *)
(* (v8.h:8831): undefined says that the code did it, and nothing follows.  *)
(***************************************************************************)
EXTENDS Integers, Sequences

CONSTANTS
  MaxDepth,   (* bound: calls in progress                                  *)
  MaxReads    (* bound: values a host function has still to read           *)

ASSUME ExceptionsAssumption == MaxDepth \in Nat /\ MaxReads \in Nat

VARIABLES
  stack,      (* the calls in progress, the running one last               *)
  scheduled,  (* V8 has an exception for the script that waits             *)
  undefined   (* "none", "scheduled" (see above) or "null string"          *)

vars == <<stack, scheduled, undefined>>

\* What a C++ function does next that may run a script:
\*   load      js_load: runs the file (js_new, compile, include, require)
\*   require   js_require: reads exports
\*   lookup    js_anything: reads the global of the message's name,
\*   fallback  then "anything",
\*   private   then the function's private,
\*   call      and calls it
\*   property  js_anything: sets, gets or deletes a global
\*   argument  outlet, messnamed, inlets, outlets: a number or name to use
\*   convert   js_unmarshal_args: reads the elements of arrays, and makes
\*             strings of String objects
\*   text      post, cpost, error: texts of the arguments
\*   report    js_get_exception_msg: the text of the exception,
\*   trace     then its stack
\* "send" is inside outlet_anything or pd_typedmess, "done" only returns.
Operations ==
  {"load", "require", "lookup", "fallback", "private", "call", "property",
   "argument", "convert", "text", "report", "trace"}
Kinds == Operations \cup {"script", "send", "done"}

\* left: the values convert and text have still to read.  cut: the read of one
\* has failed, and the message goes without it.
Frame(kind, left) == [kind |-> kind, left |-> left, cut |-> FALSE]

Top == stack[Len(stack)]
Below(n) == SubSeq(stack, 1, Len(stack) - n)
Running(kinds) == undefined = "none" /\ stack # <<>> /\ Top.kind \in kinds

Push(frames) ==
  /\ Len(stack) + Len(frames) <= MaxDepth
  /\ stack' = stack \o frames

ScriptIn(frames) == \E i \in DOMAIN frames : frames[i].kind = "script"

-----------------------------------------------------------------------------
(* The C++ functions.                                                      *)

\* Faulty variant of Guarded: a TryCatch is put around the marshalling, and what
\* it catches is not passed on.
GuardedConversions == {"load", "private", "call", "report", "trace", "text", "convert"}

\* What runs while a TryCatch is in scope: that of js_load, of js_anything
\* from x->inlet on, and of String::Utf8Value.
Guarded == {"load", "private", "call", "report", "trace", "text"}

\* What an operation is followed by: the exits of js_anything when there is no
\* such function, a private one, or nothing to send; getprop goes on to
\* marshal, as do outlet and messnamed.
Following ==
  [load |-> {"done"}, require |-> {"done"},
   lookup |-> {"private", "fallback", "done"}, fallback |-> {"private", "done"},
   private |-> {"call", "done"}, call |-> {"done"},
   property |-> {"convert", "done"}, argument |-> {"convert", "done"},
   report |-> {"trace", "done"}, trace |-> {"done"}]

\* The same if it throws.  A function whose private cannot be read is called.
FollowingThrow ==
  [load |-> {"report"}, require |-> {"done"},
   lookup |-> {"fallback", "done"}, fallback |-> {"done"},
   private |-> {"call"}, call |-> {"report"},
   property |-> {"done"}, argument |-> {"done"}, trace |-> {"done"}]

\* Those with a loop over values.
Counted == {"convert", "text"}

\* f has an operation to do.
Operates(f) == f.kind \in Operations /\ (f.kind \in Counted => f.left > 0)

Frames(kind) ==
  {Frame(kind, n) : n \in IF kind \in Counted THEN 0 .. MaxReads ELSE {0}}

\* Faulty variants of AfterRead: a read that failed is tried again; all values
\* are skipped behind one that failed, by one too many.
RetryFailedRead(f, thrown) ==
  [f EXCEPT !.left = IF thrown THEN @ ELSE @ - 1, !.cut = @ \/ thrown]

SkipFailedRead(f, thrown) ==
  [f EXCEPT !.left = IF thrown THEN @ - 2 ELSE @ - 1, !.cut = @ \/ thrown]

\* The loops over arguments and array elements: what cannot be read is left
\* out, and the loop goes on.
AfterRead(f, thrown) == [f EXCEPT !.left = @ - 1, !.cut = @ \/ thrown]

\* What f may become when its operation ends.
After(f, thrown) ==
  IF f.kind \in Counted THEN {AfterRead(f, thrown)}
  ELSE UNION {Frames(k) : k \in (IF thrown THEN FollowingThrow ELSE Following)[f.kind]}

\* The operation runs no script, or V8 must not be asked for it.
Operate ==
  /\ Running(Operations) /\ Operates(Top)
  /\ IF scheduled
       THEN undefined' = "scheduled" /\ UNCHANGED stack
       ELSE /\ \E g \in After(Top, FALSE) : stack' = Append(Below(1), g)
            /\ UNCHANGED undefined
  /\ UNCHANGED scheduled

\* It calls a script: an accessor, toString or valueOf, the function, the file.
RunScript ==
  /\ Running(Operations) /\ Operates(Top)
  /\ ~scheduled
  /\ Push(<<Frame("script", 0)>>)
  /\ UNCHANGED <<scheduled, undefined>>

\* All values are read.  Nothing is sent for no atoms, or to a name that is
\* not bound.
Finished ==
  /\ Running(Counted) /\ ~Operates(Top)
  /\ \E k \in IF Top.kind = "convert" THEN {"send", "done"} ELSE {"done"} :
       stack' = Append(Below(1), [Top EXCEPT !.kind = k])
  /\ UNCHANGED <<scheduled, undefined>>

\* The C++ function returns to its caller; outlet_anything returns.
Leave ==
  /\ Running({"done", "send"})
  /\ stack' = Below(1)
  /\ UNCHANGED <<scheduled, undefined>>

\* Pd calls js_anything or js_new: from outside or for what is being sent.
Deliver(kind) ==
  /\ undefined = "none"
  /\ stack # <<>> => Top.kind = "send"
  /\ \E f \in Frames(kind) : Push(<<f>>)
  /\ UNCHANGED <<scheduled, undefined>>

-----------------------------------------------------------------------------
(* Scripts, and V8 between them and the C++ functions.                     *)

\* The script calls a host function.
CallHost(kind) ==
  /\ Running({"script"}) /\ ~scheduled
  /\ \E f \in Frames(kind) : Push(<<f>>)
  /\ UNCHANGED <<scheduled, undefined>>

\* js_require calls js_load and reads exports when that has returned.
Require ==
  /\ Running({"script"}) /\ ~scheduled
  /\ Push(<<Frame("require", 0), Frame("load", 0)>>)
  /\ UNCHANGED <<scheduled, undefined>>

\* An array that is being marshalled gets longer or shorter: array->Length()
\* is read again for each element.  The element that is being read counts.
Resize(i, n) ==
  /\ Running({"script"}) /\ ~scheduled
  /\ stack[i].kind = "convert"
  /\ n # stack[i].left
  /\ stack' = [stack EXCEPT ![i].left = n]
  /\ UNCHANGED <<scheduled, undefined>>

Grow ==
  \E i \in DOMAIN stack, n \in 1 .. MaxReads : n > stack[i].left /\ Resize(i, n)

Return ==
  /\ Running({"script"}) /\ ~scheduled
  /\ \E g \in After(stack[Len(stack) - 1], FALSE) : stack' = Append(Below(2), g)
  /\ UNCHANGED <<scheduled, undefined>>

\* The script throws, or does not catch what was scheduled for it.  A text
\* that cannot be made is a null pointer, which post, cpost, error and
\* js_get_exception_msg print; js_object_to_string, which convert uses for a
\* String object, makes the empty string of it.
Throw ==
  /\ Running({"script"})
  /\ LET f == stack[Len(stack) - 1]
     IN  \/ /\ f.kind \in {"text", "report"}
            /\ undefined' = "null string"
            /\ UNCHANGED <<stack, scheduled>>
         \/ /\ f.kind = "convert"
            /\ stack' = Append(Below(2), AfterRead(f, FALSE))
            /\ scheduled' = FALSE
            /\ UNCHANGED undefined
         \/ /\ f.kind \notin {"text", "report"}
            /\ \E g \in After(f, TRUE) : stack' = Append(Below(2), g)
            /\ scheduled' = (f.kind \notin Guarded /\ ScriptIn(Below(2)))
            /\ UNCHANGED undefined

\* The script catches what was scheduled for it.
Catch ==
  /\ Running({"script"}) /\ scheduled
  /\ scheduled' = FALSE
  /\ UNCHANGED <<stack, undefined>>

-----------------------------------------------------------------------------
Init == stack = <<>> /\ scheduled = FALSE /\ undefined = "none"

Next ==
  \/ Operate \/ RunScript \/ Finished \/ Leave
  \/ \E kind \in {"load", "lookup", "property"} : Deliver(kind)
  \/ \E kind \in {"argument", "text", "load"} : CallHost(kind)
  \/ Require \/ Return \/ Throw \/ Catch
  \/ \E i \in DOMAIN stack, n \in 1 .. MaxReads : Resize(i, n)

\* Pd's thread goes on as long as C++ runs, and V8 as long as an exception
\* waits.  A script calls host functions and resizes arrays a finite number of
\* times, and the patch answers a message with finitely many: each call at each
\* depth is left in the end.
Continue == Operate \/ RunScript \/ Finished \/ Leave \/ Return \/ Throw

LeaveAt(depth) == Len(stack) = depth /\ (Leave \/ Return \/ Throw)

Fairness ==
  /\ WF_vars(Continue)
  /\ \A depth \in 1 .. MaxDepth : SF_vars(LeaveAt(depth))

Spec == Init /\ [][Next]_vars /\ Fairness

-----------------------------------------------------------------------------
(* Properties.                                                             *)

\* Values are of their types.
ExceptionsTypeOK ==
  /\ stack \in Seq([kind : Kinds, left : 0 .. MaxReads, cut : BOOLEAN])
  /\ scheduled \in BOOLEAN
  /\ undefined \in {"none", "scheduled", "null string"}

\* A message that goes without a value that could not be read is sent on
\* behalf of a script that will be told: the exception waits for it until
\* outlet or messnamed returns.  (getprop from Pd is told nothing.)
CutMessagesAreNoticed ==
  \A i \in DOMAIN stack :
    stack[i].kind = "send" /\ stack[i].cut /\ ScriptIn(SubSeq(stack, 1, i)) => scheduled

\* js_anything and js_new return to Pd, with or without exceptions, unless a
\* script goes on appending to an array that is being marshalled.
EveryMessageEnds ==
  <>[][~Grow]_vars => []<>(stack = <<>> \/ undefined # "none")
=============================================================================
