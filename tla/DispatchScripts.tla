-------------------------- MODULE DispatchScripts --------------------------
(***************************************************************************)
(* Proofs about Dispatch: which script a call in progress runs, and which  *)
(* file a box remembers.                                                   *)
(*                                                                         *)
(* What any step does to the calls and to the contexts is said once, as    *)
(* two actions (CallsInherit, ContextsStay), and proved of every step.     *)
(* The invariants follow from those two and from IInv after the step, and  *)
(* not from the steps themselves: a call a box starts for itself takes the *)
(* context the box has, and that context only ever becomes a newer one of  *)
(* the same box.                                                           *)
(***************************************************************************)
EXTENDS DispatchProofs

\* The calls a box starts for itself: the context is the box's own.
OwnKinds == Choosing \cup {"include"}

OwnContexts ==
  \A i \in DOMAIN stack :
    stack[i].kind \in OwnKinds => contexts[stack[i].ctx].box = stack[i].box

\* PathIsLastFound of one box, whether it exists or not.
LastFound(x) ==
  IF Loaded(x) = {} THEN path[x] = NoFile
  ELSE \E c \in Loaded(x) : (\A d \in Loaded(x) : d <= c) /\ contexts[c].file = path[x]

LastFoundInv == \A x \in Box : LastFound(x)

ScriptsInv ==
  /\ IInv
  /\ OwnContexts
  /\ NestedCallsMeetNewerScripts
  /\ LastFoundInv

-----------------------------------------------------------------------------
(* What a step does to the calls in progress.                              *)

\* The j-th call after the step was there before it, for the same box and in
\* the same context; and did not become one that a box starts for itself.
Kept(j) ==
  /\ j \in DOMAIN stack
  /\ stack'[j].box = stack[j].box
  /\ stack'[j].ctx = stack[j].ctx
  /\ stack'[j].kind \in Choosing => stack[j].kind \in Choosing
  /\ stack'[j].kind \in OwnKinds => stack[j].kind \in OwnKinds

\* It is new, and runs what its box runs, if it is the box's own.
Started(j) ==
  /\ \A i \in DOMAIN stack' : i <= j
  /\ stack'[j].kind \in OwnKinds =>
       /\ stack'[j].ctx = context'[stack'[j].box]
       /\ status'[stack'[j].box] \in {"creating", "live"}

CallsInherit == \A j \in DOMAIN stack' : Kept(j) \/ Started(j)

LEMMA UnchangedCalls ==
  ASSUME stack' = stack
  PROVE  CallsInherit
  BY DEF CallsInherit, Kept

LEMMA PushInherits ==
  ASSUME NEW S, stack \in Seq(S), NEW call, Push(call),
         call.kind \in OwnKinds => /\ call.ctx = context'[call.box]
                                   /\ status'[call.box] \in {"creating", "live"}
  PROVE  CallsInherit
<1> DEFINE T == S \cup {call}
<1>1. S \subseteq T /\ call \in T
  OBVIOUS
<1> HIDE DEF T
<1>2. stack \in Seq(T)
  BY <1>1, SeqMonotonic
<1>3. /\ Len(stack) \in Nat
      /\ DOMAIN stack = 1 .. Len(stack)
      /\ DOMAIN stack' = 1 .. Len(stack) + 1
      /\ \A i \in 1 .. Len(stack) : stack'[i] = stack[i]
      /\ stack'[Len(stack) + 1] = call
  BY <1>1, <1>2, Pushed
<1>4. \A j \in 1 .. Len(stack) : Kept(j)
  BY <1>3 DEF Kept
<1>5. Started(Len(stack) + 1)
  BY <1>3 DEF Started
<1>6. \A j \in DOMAIN stack' : j \in 1 .. Len(stack) \/ j = Len(stack) + 1
  BY <1>3
<1> QED
  BY <1>4, <1>5, <1>6 DEF CallsInherit

LEMMA ReplaceInherits ==
  ASSUME NEW S, stack \in Seq(S), stack # <<>>, NEW call \in S, Replace(call),
         call.box = Top.box, call.ctx = Top.ctx,
         call.kind \in Choosing => Top.kind \in Choosing,
         call.kind \in OwnKinds => Top.kind \in OwnKinds
  PROVE  CallsInherit
<1>1. /\ Len(stack) \in Nat \ {0}
      /\ DOMAIN stack = 1 .. Len(stack)
      /\ DOMAIN stack' = 1 .. Len(stack)
      /\ \A i \in 1 .. Len(stack) - 1 : stack'[i] = stack[i]
      /\ stack'[Len(stack)] = call
  BY Replaced
<1>2. \A j \in 1 .. Len(stack) - 1 : Kept(j)
  BY <1>1 DEF Kept
<1>3. Kept(Len(stack))
  BY <1>1 DEF Kept, Top
<1>4. \A j \in DOMAIN stack' : j \in 1 .. Len(stack) - 1 \/ j = Len(stack)
  BY <1>1
<1> QED
  BY <1>2, <1>3, <1>4 DEF CallsInherit

LEMMA PopInherits ==
  ASSUME NEW S, stack \in Seq(S), stack # <<>>, Pop
  PROVE  CallsInherit
<1>1. /\ Len(stack) \in Nat \ {0}
      /\ DOMAIN stack = 1 .. Len(stack)
      /\ DOMAIN Below = 1 .. Len(stack) - 1
      /\ \A i \in 1 .. Len(stack) - 1 : Below[i] = stack[i]
  BY Popped
<1>2. stack' = Below
  BY DEF Pop
<1>3. \A j \in DOMAIN stack' : j \in DOMAIN stack /\ stack'[j] = stack[j]
  BY <1>1, <1>2
<1> QED
  BY <1>3 DEF CallsInherit, Kept

\* js_load with a context of its own.
LEMMA LoadInherits ==
  ASSUME IInv, NEW x \in Box, NEW file, NEW runs \in BOOLEAN, NEW kind,
         RunInNewContext(kind, x, file, runs), runs => status'[x] \in {"creating", "live"}
  PROVE  CallsInherit
<1>1. CASE ~runs
  BY <1>1, UnchangedCalls DEF RunInNewContext
<1>2. CASE runs
  <2> DEFINE call == Call(kind, x, Len(contexts) + 1, 0, NoMessage)
  <2>1. Push(call) /\ stack \in Seq(Calls)
    BY <1>2, PathTyped DEF RunInNewContext
  <2>2. context' = [context EXCEPT ![x] = Len(contexts) + 1] /\ context \in [Box -> 0 .. Len(contexts)]
    BY DEF RunInNewContext, IInv, DispatchTypeOK
  <2>3. call.ctx = context'[call.box] /\ status'[call.box] \in {"creating", "live"}
    BY <1>2, <2>2 DEF Call
  <2> HIDE DEF call, Calls
  <2> QED
    BY <2>1, <2>3, PushInherits
<1> QED
  BY <1>1, <1>2

LEMMA BoxStepInherits ==
  ASSUME IInv, NEW x \in Box, BoxStep(x)
  PROVE  CallsInherit
<1>0. stack \in Seq(Calls)
  BY PathTyped
<1>1. CASE Free(x) \/ SetPropPorts(x)
  BY <1>1, UnchangedCalls DEF Free, SetPropPorts, callVars
<1>2. CASE Loadbang(x)
  <2> DEFINE call == Call("lookup", x, context[x], 0, [inlet |-> 0, name |-> "loadbang"])
  <2>1. Push(call) /\ context' = context
    BY <1>2 DEF Loadbang, boxVars
  <2>2. call.ctx = context'[call.box] /\ status'[call.box] \in {"creating", "live"}
    BY <1>2, <2>1 DEF Call, Loadbang, boxVars
  <2> HIDE DEF call, Calls
  <2> QED
    BY <1>0, <2>1, <2>2, PushInherits
<1>3. CASE SetProp(x)
  <2>1. PICK c : Push(Call("function", x, c, 0, NoMessage))
    BY <1>3 DEF SetProp
  <2> DEFINE call == Call("function", x, c, 0, NoMessage)
  <2>2. call.kind \notin OwnKinds
    BY DEF Call, OwnKinds, Choosing
  <2> HIDE DEF call, Calls
  <2> QED
    BY <1>0, <2>1, <2>2, PushInherits DEF call
<1>4. CASE GetProp(x)
  <2> DEFINE call == Call("getprop", x, context[x], 0, NoMessage)
  <2>1. Push(call) /\ context' = context
    BY <1>4 DEF GetProp, boxVars
  <2>2. call.ctx = context'[call.box] /\ status'[call.box] \in {"creating", "live"}
    BY <1>4, <2>1, ReceivesMeans DEF Call, GetProp, boxVars
  <2> HIDE DEF call, Calls
  <2> QED
    BY <1>0, <2>1, <2>2, PushInherits
<1>5. ASSUME NEW i, NEW name, Message(x, i, name) PROVE CallsInherit
  <2> DEFINE call == Call("lookup", x, context[x], 0, [inlet |-> inlets[x][i].index, name |-> name])
  <2>1. Push(call) /\ context' = context
    BY <1>5 DEF Message, boxVars
  <2>2. call.ctx = context'[call.box] /\ status'[call.box] \in {"creating", "live"}
    BY <1>5, <2>1, ReceivesMeans DEF Call, Message, boxVars
  <2> HIDE DEF call, Calls
  <2> QED
    BY <1>0, <2>1, <2>2, PushInherits
<1>6. ASSUME NEW runs \in BOOLEAN, Recompile(x, runs) PROVE CallsInherit
  BY <1>6, ReceivesMeans, LoadInherits DEF Recompile
<1>7. ASSUME NEW f, NEW found, NEW runs \in BOOLEAN, CompileNamed(x, f, found, runs)
      PROVE  CallsInherit
  <2>1. status'[x] = "live"
    BY <1>7, ReceivesMeans DEF CompileNamed
  <2> QED
    BY <1>7, <2>1, LoadInherits DEF CompileNamed, LoadNamed
<1>8. ASSUME NEW f, NEW found, NEW runs \in BOOLEAN, Create(x, f, found, runs)
      PROVE  CallsInherit
  <2>1. status'[x] \in {"creating", "live"}
    BY <1>8, PathTyped DEF Create
  <2> QED
    BY <1>8, <2>1, LoadInherits DEF Create, LoadNamed
<1> QED
  BY <1>1, <1>2, <1>3, <1>4, <1>5, <1>6, <1>7, <1>8 DEF BoxStep

LEMMA HostStepInherits ==
  ASSUME IInv, HostStep
  PROVE  CallsInherit
<1>0. stack \in Seq(Calls)
  BY PathTyped
<1>1. CASE FunctionFound
  <2> DEFINE call == [Top EXCEPT !.kind = "noted"]
  <2>0. Reach("freed box") \/ Replace(call)
    BY <1>1 DEF FunctionFound, Using
  <2>1. Running({"lookup"})
    BY <1>1 DEF FunctionFound
  <2>2. stack # <<>> /\ Top \in Calls /\ Top.kind = "lookup"
    BY <2>1, RunningCall
  <2>3. call \in Calls /\ call.box = Top.box /\ call.ctx = Top.ctx
    BY <2>2 DEF Calls, HostKinds
  <2>4. Top.kind \in Choosing /\ Top.kind \in OwnKinds
    BY <2>2 DEF Choosing, OwnKinds
  <2> HIDE DEF call, Calls
  <2> QED
    BY <1>0, <2>0, <2>2, <2>3, <2>4, ReplaceInherits, UnchangedCalls DEF Reach
<1>2. CASE CallFunction
  <2>0. PICK c \in FunctionsAt(Top.ctx) : Replace([Top EXCEPT !.kind = "handler", !.realm = c])
    BY <1>2 DEF CallFunction
  <2> DEFINE call == [Top EXCEPT !.kind = "handler", !.realm = c]
  <2>1. Running({"noted"}) /\ Replace(call)
    BY <1>2, <2>0 DEF CallFunction
  <2>2. stack # <<>> /\ Top \in Calls /\ Top.kind = "noted" /\ Top.ctx \in 1 .. Len(contexts)
    BY <2>1, RunningCall
  <2>3. call \in Calls /\ call.box = Top.box /\ call.ctx = Top.ctx
    BY <2>0, <2>2, Typed DEF Calls, ScriptKinds, FunctionsAt, WithScript
  <2>4. Top.kind \in Choosing /\ Top.kind \in OwnKinds
    BY <2>2 DEF Choosing, OwnKinds
  <2> HIDE DEF call, Calls
  <2> QED
    BY <1>0, <2>1, <2>2, <2>3, <2>4, ReplaceInherits
<1>3. CASE AnswerProp
  <2> DEFINE call == Call("marshal", Top.box, Top.ctx, outlets[Top.box][1], NoMessage)
  <2>0. Reach("freed box") \/ Replace(call)
    BY <1>3 DEF AnswerProp, Using
  <2>1. Running({"getprop"})
    BY <1>3 DEF AnswerProp
  <2>2. stack # <<>> /\ Top.kind = "getprop"
    BY <2>1, RunningCall
  <2>3. call.box = Top.box /\ call.ctx = Top.ctx
    BY DEF Call
  <2>4. Top.kind \in Choosing /\ Top.kind \in OwnKinds
    BY <2>2 DEF Choosing, OwnKinds
  <2> HIDE DEF call, Calls
  <2> DEFINE S == Calls \cup {call}
  <2>5. Calls \subseteq S /\ call \in S
    OBVIOUS
  <2> HIDE DEF S
  <2>6. stack \in Seq(S)
    BY <1>0, <2>5, SeqMonotonic
  <2> QED
    BY <2>0, <2>2, <2>3, <2>4, <2>5, <2>6, ReplaceInherits, UnchangedCalls DEF Reach
<1>4. CASE Send
  <2> DEFINE call == [Top EXCEPT !.kind = "send"]
  <2>1. Running({"marshal"})
    BY <1>4 DEF Send
  <2>2. stack # <<>> /\ Top \in Calls
    BY <2>1, RunningCall
  <2>3. call \in Calls /\ call.box = Top.box /\ call.ctx = Top.ctx /\ call.kind = "send"
    BY <2>2 DEF Calls, HostKinds
  <2>4. call.kind \notin Choosing /\ call.kind \notin OwnKinds
    BY <2>3 DEF Choosing, OwnKinds
  <2>5. CASE Reach("freed outlet")
    BY <2>5, UnchangedCalls DEF Reach
  <2>6. CASE Replace(call)
    <3> HIDE DEF call, Calls
    <3> QED
      BY <1>0, <2>2, <2>3, <2>4, <2>6, ReplaceInherits
  <2> QED
    BY <1>4, <2>5, <2>6 DEF Send
<1>5. CASE Finish
  <2>1. stack # <<>> /\ Pop
    BY <1>5 DEF Finish, Running
  <2> HIDE DEF Calls
  <2> QED
    BY <1>0, <2>1, PopInherits
<1>6. ASSUME NEW c, CallBack(c) PROVE CallsInherit
  <2> DEFINE call == Call("function", Top.box, c, 0, NoMessage)
  <2>1. Push(call) /\ call.kind \notin OwnKinds
    BY <1>6 DEF CallBack, Call, OwnKinds, Choosing
  <2> HIDE DEF call, Calls
  <2> QED
    BY <1>0, <2>1, PushInherits
<1> QED
  BY <1>1, <1>2, <1>3, <1>4, <1>5, <1>6 DEF HostStep

LEMMA ScriptStepInherits ==
  ASSUME IInv, ScriptStep
  PROVE  CallsInherit
<1>0. stack \in Seq(Calls)
  BY PathTyped
<1>1. CASE Return
  <2>1. stack # <<>> /\ Pop
    BY <1>1 DEF Return, Running
  <2> HIDE DEF Calls
  <2> QED
    BY <1>0, <2>1, PopInherits
<1>2. CASE Messnamed
  <2> DEFINE call == Call("marshal", Owner, Top.realm, 0, NoMessage)
  <2>1. Reach("freed box") \/ Push(call)
    BY <1>2 DEF Messnamed, Using
  <2>2. call.kind \notin OwnKinds
    BY DEF Call, OwnKinds, Choosing
  <2> HIDE DEF call, Calls
  <2> QED
    BY <1>0, <2>1, <2>2, PushInherits, UnchangedCalls DEF Reach
<1>3. CASE Include
  <2> DEFINE call == Call("include", Owner, context[Owner], 0, NoMessage)
  <2>1. CASE ~Exists(Owner)
    BY <1>3, <2>1, UnchangedCalls DEF Include, Using, Reach
  <2>2. CASE Exists(Owner)
    <3>1. Push(call) /\ context' = context /\ status' = status
      BY <1>3, <2>2 DEF Include, Using
    <3>2. call.ctx = context'[call.box] /\ status'[call.box] \in {"creating", "live"}
      BY <2>2, <3>1 DEF Call, Exists
    <3> HIDE DEF call, Calls
    <3> QED
      BY <1>0, <3>1, <3>2, PushInherits
  <2> QED
    BY <2>1, <2>2
<1>4. CASE ReadState
  BY <1>4, UnchangedCalls DEF ReadState, Reach
<1>5. CASE ResizePorts
  BY <1>5, UnchangedCalls DEF ResizePorts, Using, Reach, callVars
<1>6. ASSUME NEW n, Outlet(n) PROVE CallsInherit
  <2> DEFINE call == Call("marshal", Owner, Top.realm, outlets[Owner][n + 1], NoMessage)
  <2>1. Reach("freed box") \/ Reach("no such outlet") \/ Push(call)
    BY <1>6 DEF Outlet, Using
  <2>2. call.kind \notin OwnKinds
    BY DEF Call, OwnKinds, Choosing
  <2> HIDE DEF call, Calls
  <2> QED
    BY <1>0, <2>1, <2>2, PushInherits, UnchangedCalls DEF Reach
<1>7. ASSUME NEW c, CallShared(c) PROVE CallsInherit
  <2> DEFINE call == Call("function", Top.box, c, 0, NoMessage)
  <2>1. Push(call) /\ call.kind \notin OwnKinds
    BY <1>7 DEF CallShared, Call, OwnKinds, Choosing
  <2> HIDE DEF call, Calls
  <2> QED
    BY <1>0, <2>1, PushInherits
<1> QED
  BY <1>1, <1>2, <1>3, <1>4, <1>5, <1>6, <1>7 DEF ScriptStep

\* Every step: only a box's own context is chosen anew.
LEMMA NextInherits ==
  ASSUME IInv, [Next]_vars
  PROVE  CallsInherit
<1>1. CASE UNCHANGED vars
  BY <1>1, UnchangedCalls DEF vars, callVars
<1> QED
  BY <1>1, BoxStepInherits, HostStepInherits, ScriptStepInherits DEF Next

-----------------------------------------------------------------------------
(* What a step does to the contexts and to the paths.                      *)

\* A context keeps its box and its file.
ContextsStay ==
  /\ DOMAIN contexts \subseteq DOMAIN contexts'
  /\ \A c \in DOMAIN contexts : /\ contexts'[c].box = contexts[c].box
                                /\ contexts'[c].file = contexts[c].file

\* The path changes to the file of a new context, and with every new context
\* that has a file.
PathsFollow ==
  \A x \in Box :
    \/ Loaded(x)' = Loaded(x) /\ path'[x] = path[x]
    \/ \E c \in Loaded(x)' : /\ \A d \in Loaded(x)' : d <= c
                            /\ contexts'[c].file = path'[x]

ContextsFollow == ContextsStay /\ PathsFollow

LEMMA SameContextsFollow ==
  ASSUME contexts' = contexts, path' = path
  PROVE  ContextsFollow
  BY DEF ContextsFollow, ContextsStay, PathsFollow, Loaded, ContextsOf

\* js_load with a context of its own.
LEMMA LoadFollows ==
  ASSUME IInv, NEW x \in Box, NEW file \in File \cup {NoFile}, NEW runs \in BOOLEAN, NEW kind,
         RunInNewContext(kind, x, file, runs),
         path' = [path EXCEPT ![x] = IF file = NoFile THEN path[x] ELSE file]
  PROVE  ContextsFollow
<1> DEFINE n == Len(contexts) + 1
           added == [box |-> x, file |-> file, ran |-> runs]
<1>1. /\ Len(contexts) \in Nat
      /\ DOMAIN contexts' = 1 .. n
      /\ DOMAIN contexts = 1 .. Len(contexts)
      /\ \A c \in DOMAIN contexts : contexts'[c] = contexts[c]
      /\ contexts'[n] = added
  BY NewContextTyped
<1>2. added.box = x /\ added.file = file
  OBVIOUS
<1> HIDE DEF added
<1>3. /\ n \in Nat
      /\ n \in 1 .. n
      /\ \A c \in 1 .. n : c <= n /\ (c \in 1 .. Len(contexts) \/ c = n)
      /\ \A c \in 1 .. Len(contexts) : c \in 1 .. n
  BY <1>1
<1> HIDE DEF n
<1>4. ContextsStay
  BY <1>1, <1>3 DEF ContextsStay
<1>5. ASSUME NEW y \in Box, y # x \/ file = NoFile
      PROVE  Loaded(y)' = Loaded(y) /\ path'[y] = path[y]
  <2>1. \A c \in Loaded(y)' : c \in Loaded(y)
    BY <1>1, <1>2, <1>3, <1>5 DEF Loaded, ContextsOf
  <2>2. \A c \in Loaded(y) : c \in Loaded(y)'
    BY <1>1, <1>3 DEF Loaded, ContextsOf
  <2>3. path'[y] = path[y]
    BY <1>5, PathTyped
  <2> QED
    BY <2>1, <2>2, <2>3
<1>6. ASSUME file # NoFile
      PROVE  /\ n \in Loaded(x)'
             /\ \A d \in Loaded(x)' : d <= n
             /\ contexts'[n].file = path'[x]
  <2>1. path'[x] = file
    BY <1>6, PathTyped
  <2>2. \A d \in Loaded(x)' : d \in 1 .. n
    BY <1>1 DEF Loaded, ContextsOf
  <2> QED
    BY <1>1, <1>2, <1>3, <1>6, <2>1, <2>2 DEF Loaded, ContextsOf
<1>7. PathsFollow
  BY <1>5, <1>6 DEF PathsFollow
<1> QED
  BY <1>4, <1>7 DEF ContextsFollow

\* include: a context is noted to have had a script.
LEMMA IncludeFollows ==
  ASSUME IInv, Include
  PROVE  ContextsFollow
<1>0. Owner \in Box
  BY RunningCall DEF Include
<1>1. CASE ~Exists(Owner)
  BY <1>1, SameContextsFollow DEF Include, Using, Reach, boxVars
<1>2. CASE Exists(Owner)
  <2> DEFINE k == context[Owner]
  <2>1. contexts' = [contexts EXCEPT ![k].ran = TRUE] /\ path' = path
    BY <1>2 DEF Include, Using
  <2>2. \A c \in DOMAIN contexts : contexts[c] \in Contexts
    <3>1. contexts \in Seq(Contexts)
      BY DEF IInv, DispatchTypeOK, Contexts
    <3>2. DOMAIN contexts = 1 .. Len(contexts)
      BY Typed
    <3> HIDE DEF Contexts
    <3> QED
      BY <3>1, <3>2, ElementOfSeq
  <2>3. DOMAIN contexts' = DOMAIN contexts
    BY <2>1
  <2>4. \A c \in DOMAIN contexts : /\ contexts'[c].box = contexts[c].box
                                   /\ contexts'[c].file = contexts[c].file
    BY <2>1, <2>2 DEF Contexts
  <2>5. \A x \in Box : Loaded(x)' = Loaded(x)
    BY <2>3, <2>4 DEF Loaded, ContextsOf
  <2> QED
    BY <2>1, <2>3, <2>4, <2>5 DEF ContextsFollow, ContextsStay, PathsFollow
<1> QED
  BY <1>1, <1>2

LEMMA BoxStepFollows ==
  ASSUME IInv, NEW x \in Box, BoxStep(x)
  PROVE  ContextsFollow
<1>1. CASE Free(x) \/ SetPropPorts(x) \/ Loadbang(x) \/ SetProp(x) \/ GetProp(x)
  BY <1>1, SameContextsFollow DEF Free, SetPropPorts, Loadbang, SetProp, GetProp, boxVars
<1>2. ASSUME NEW i, NEW name, Message(x, i, name) PROVE ContextsFollow
  BY <1>2, SameContextsFollow DEF Message, boxVars
<1>3. ASSUME NEW runs \in BOOLEAN, Recompile(x, runs) PROVE ContextsFollow
  <2>1. RunInNewContext("load", x, path[x], runs) /\ path' = path
    BY <1>3 DEF Recompile
  <2>2. path[x] \in File \cup {NoFile}
    BY PathTyped
  <2>3. path' = [path EXCEPT ![x] = IF path[x] = NoFile THEN path[x] ELSE path[x]]
    BY <2>1, PathTyped
  <2> QED
    BY <2>1, <2>2, <2>3, LoadFollows
<1>4. ASSUME NEW f \in File \cup {NoFile}, NEW found \in BOOLEAN, NEW runs \in BOOLEAN, NEW kind,
             found => f # NoFile, LoadNamed(kind, x, f, found, runs)
      PROVE  ContextsFollow
  <2> DEFINE file == IF found THEN f ELSE NoFile
  <2>1. RunInNewContext(kind, x, file, runs) /\ file \in File \cup {NoFile}
    BY <1>4 DEF LoadNamed
  <2>2. path' = [path EXCEPT ![x] = IF file = NoFile THEN path[x] ELSE file]
    <3>1. CASE found
      BY <1>4, <3>1 DEF LoadNamed
    <3>2. CASE ~found
      BY <1>4, <3>2, PathTyped DEF LoadNamed
    <3> QED
      BY <3>1, <3>2
  <2> HIDE DEF file
  <2> QED
    BY <2>1, <2>2, LoadFollows
<1>5. ASSUME NEW f \in File, NEW found \in BOOLEAN, NEW runs \in BOOLEAN,
             CompileNamed(x, f, found, runs)
      PROVE  ContextsFollow
  <2>1. f # NoFile
    BY DispatchAssumption
  <2> QED
    BY <1>4, <1>5, <2>1 DEF CompileNamed
<1>6. ASSUME NEW f \in File \cup {NoFile}, NEW found \in BOOLEAN, NEW runs \in BOOLEAN,
             Create(x, f, found, runs)
      PROVE  ContextsFollow
  BY <1>4, <1>6 DEF Create
<1> QED
  BY <1>1, <1>2, <1>3, <1>5, <1>6 DEF BoxStep

LEMMA NextFollows ==
  ASSUME IInv, [Next]_vars
  PROVE  ContextsFollow
<1>1. CASE HostStep
  BY <1>1, SameContextsFollow
     DEF HostStep, FunctionFound, CallFunction, AnswerProp, Send, Finish, CallBack, Using, Reach, boxVars
<1>2. CASE ScriptStep
  <2>1. CASE Return \/ Messnamed \/ ReadState \/ ResizePorts
    BY <2>1, SameContextsFollow DEF Return, Messnamed, ReadState, ResizePorts, Using, Reach, boxVars
  <2>2. ASSUME NEW n, Outlet(n) PROVE ContextsFollow
    BY <2>2, SameContextsFollow DEF Outlet, Using, Reach, boxVars
  <2>3. ASSUME NEW c, CallShared(c) PROVE ContextsFollow
    BY <2>3, SameContextsFollow DEF CallShared, boxVars
  <2> QED
    BY <1>2, <2>1, <2>2, <2>3, IncludeFollows DEF ScriptStep
<1>3. CASE UNCHANGED vars
  BY <1>3, SameContextsFollow DEF vars, boxVars
<1> QED
  BY <1>1, <1>2, <1>3, BoxStepFollows DEF Next

-----------------------------------------------------------------------------
(* The invariant.                                                          *)

LEMMA CallsAreNumbered ==
  ASSUME NEW S, NEW s \in Seq(S)
  PROVE  DOMAIN s = 1 .. Len(s) /\ Len(s) \in Nat /\ \A i \in DOMAIN s : s[i] \in S
  BY LenProperties, ElementOfSeq

\* A box that exists has the newest context of its own.
HasNewest(x) ==
  status[x] \in {"creating", "live"} =>
    /\ contexts[context[x]].box = x
    /\ \A c \in DOMAIN contexts : contexts[c].box = x => c <= context[x]

LEMMA BoxesHaveNewestNow == IInv => \A i \in DOMAIN stack : HasNewest(stack[i].box)
<1> SUFFICES ASSUME IInv, NEW i \in DOMAIN stack PROVE HasNewest(stack[i].box)
  OBVIOUS
<1>1. stack[i].box \in Box
  BY PathTyped, CallsAreTyped
<1> QED
  BY <1>1 DEF HasNewest, Exists, IInv, NewestScriptAnswers, ContextsOf

LEMMA BoxesHaveNewestNext == IInv' => (\A i \in DOMAIN stack : HasNewest(stack[i].box))'
  BY BoxesHaveNewestNow, PTL

LEMMA CallsHaveContexts ==
  ASSUME IInv, NEW i \in DOMAIN stack
  PROVE  stack[i].ctx \in DOMAIN contexts
<1>1. stack[i] \in Calls
  <2>1. stack \in Seq(Calls)
    BY PathTyped
  <2> HIDE DEF Calls
  <2> QED
    BY <2>1, CallsAreNumbered
<1> QED
  BY <1>1, Typed DEF Calls

LEMMA KeepsOwnContexts ==
  ASSUME IInv, IInv', OwnContexts, CallsInherit, ContextsStay
  PROVE  OwnContexts'
<1> SUFFICES ASSUME NEW j \in DOMAIN stack', stack'[j].kind \in OwnKinds
             PROVE  contexts'[stack'[j].ctx].box = stack'[j].box
  BY DEF OwnContexts
<1>1. CASE Kept(j)
  <2>1. /\ j \in DOMAIN stack
        /\ stack'[j].box = stack[j].box
        /\ stack'[j].ctx = stack[j].ctx
        /\ stack[j].kind \in OwnKinds
    BY <1>1 DEF Kept
  <2>2. stack[j].ctx \in DOMAIN contexts
    BY <2>1, CallsHaveContexts
  <2> QED
    BY <2>1, <2>2 DEF OwnContexts, ContextsStay
<1>2. CASE Started(j)
  <2>1. /\ stack'[j].ctx = context'[stack'[j].box]
        /\ status'[stack'[j].box] \in {"creating", "live"}
    BY <1>2 DEF Started
  <2>2. contexts'[context'[stack'[j].box]].box = stack'[j].box
    BY <2>1, BoxesHaveNewestNext DEF HasNewest
  <2> QED
    BY <2>1, <2>2
<1> QED
  BY <1>1, <1>2 DEF CallsInherit

LEMMA KeepsNestedCalls ==
  ASSUME IInv, IInv', OwnContexts, NestedCallsMeetNewerScripts, CallsInherit, ContextsStay
  PROVE  NestedCallsMeetNewerScripts'
<1> SUFFICES ASSUME NEW i \in DOMAIN stack', NEW j \in DOMAIN stack', i < j,
                    stack'[i].kind \in Choosing, stack'[j].kind \in Choosing,
                    stack'[i].box = stack'[j].box
             PROVE  stack'[i].ctx <= stack'[j].ctx
  BY DEF NestedCallsMeetNewerScripts
<1>0. DOMAIN stack' = 1 .. Len(stack')
  <2>1. stack' \in Seq(Calls')
    BY DEF IInv, DispatchTypeOK
  <2> HIDE DEF Calls
  <2> QED
    BY <2>1, CallsAreNumbered
<1>1. Kept(i)
  <2>1. ~(j <= i)
    BY <1>0
  <2> QED
    BY <2>1 DEF CallsInherit, Started
<1>2. /\ i \in DOMAIN stack
      /\ stack'[i].box = stack[i].box
      /\ stack'[i].ctx = stack[i].ctx
      /\ stack[i].kind \in Choosing
  BY <1>1 DEF Kept
<1>3. CASE Kept(j)
  <2>1. /\ j \in DOMAIN stack
        /\ stack'[j].box = stack[j].box
        /\ stack'[j].ctx = stack[j].ctx
        /\ stack[j].kind \in Choosing
    BY <1>3 DEF Kept
  <2> QED
    BY <1>2, <2>1 DEF NestedCallsMeetNewerScripts
<1>4. CASE Started(j)
  <2>1. /\ stack'[j].ctx = context'[stack'[j].box]
        /\ status'[stack'[j].box] \in {"creating", "live"}
    BY <1>4 DEF Started, OwnKinds
  <2>2. stack[i].ctx \in DOMAIN contexts
    BY <1>2, CallsHaveContexts
  <2>3. contexts[stack[i].ctx].box = stack[i].box
    BY <1>2 DEF OwnContexts, OwnKinds
  <2>4. stack'[i].ctx \in DOMAIN contexts' /\ contexts'[stack'[i].ctx].box = stack'[j].box
    BY <1>2, <2>2, <2>3 DEF ContextsStay
  <2>5. \A c \in DOMAIN contexts' : contexts'[c].box = stack'[j].box => c <= context'[stack'[j].box]
    BY <2>1, BoxesHaveNewestNext DEF HasNewest
  <2> QED
    BY <2>1, <2>4, <2>5
<1> QED
  BY <1>3, <1>4 DEF CallsInherit

LEMMA KeepsLastFound ==
  ASSUME LastFoundInv, ContextsFollow
  PROVE  LastFoundInv'
<1> SUFFICES ASSUME NEW x \in Box PROVE LastFound(x)'
  BY DEF LastFoundInv
<1>1. CASE Loaded(x)' = Loaded(x) /\ path'[x] = path[x]
  <2>1. LastFound(x)
    BY DEF LastFoundInv
  <2>2. CASE Loaded(x) = {}
    BY <1>1, <2>1, <2>2 DEF LastFound
  <2>3. CASE Loaded(x) # {}
    <3>1. PICK c \in Loaded(x) : (\A d \in Loaded(x) : d <= c) /\ contexts[c].file = path[x]
      BY <2>1, <2>3 DEF LastFound
    <3>2. contexts'[c].file = path'[x]
      BY <1>1, <3>1 DEF ContextsFollow, ContextsStay, Loaded, ContextsOf
    <3>3. \E d \in Loaded(x)' : (\A e \in Loaded(x)' : e <= d) /\ contexts'[d].file = path'[x]
      BY <1>1, <3>1, <3>2
    <3> QED
      BY <1>1, <2>3, <3>3 DEF LastFound
  <2> QED
    BY <2>2, <2>3
<1>2. CASE \E c \in Loaded(x)' : (\A d \in Loaded(x)' : d <= c) /\ contexts'[c].file = path'[x]
  BY <1>2 DEF LastFound
<1> QED
  BY <1>1, <1>2 DEF ContextsFollow, PathsFollow

LEMMA InitEstablishesScriptsInv == Init => ScriptsInv
<1> SUFFICES ASSUME Init PROVE ScriptsInv
  OBVIOUS
<1>1. stack = <<>> /\ contexts = <<>> /\ DOMAIN stack = {} /\ DOMAIN contexts = {}
  BY DEF Init
<1>2. OwnContexts /\ NestedCallsMeetNewerScripts
  BY <1>1 DEF OwnContexts, NestedCallsMeetNewerScripts
<1>3. LastFoundInv
  BY <1>1 DEF Init, LastFoundInv, LastFound, Loaded, ContextsOf
<1> QED
  BY <1>2, <1>3, InitEstablishesIInv DEF ScriptsInv

LEMMA NextKeepsScriptsInv ==
  ASSUME ScriptsInv, IInv', [Next]_vars
  PROVE  ScriptsInv'
<1>1. IInv /\ OwnContexts /\ NestedCallsMeetNewerScripts /\ LastFoundInv
  BY DEF ScriptsInv
<1>2. CallsInherit /\ ContextsFollow
  BY <1>1, NextInherits, NextFollows
<1>3. ContextsStay
  BY <1>2 DEF ContextsFollow
<1>4. OwnContexts'
  BY <1>1, <1>2, <1>3, KeepsOwnContexts
<1>5. NestedCallsMeetNewerScripts'
  BY <1>1, <1>2, <1>3, KeepsNestedCalls
<1>6. LastFoundInv'
  BY <1>1, <1>2, KeepsLastFound
<1> QED
  BY <1>4, <1>5, <1>6 DEF ScriptsInv

\* The invariant holds of any number of boxes, files and contexts.
THEOREM ScriptsInvariant == Spec => []ScriptsInv
<1>1. Init => ScriptsInv
  BY InitEstablishesScriptsInv
<1>2. ScriptsInv /\ IInv' /\ [Next]_vars => ScriptsInv'
  BY NextKeepsScriptsInv
<1> QED
  BY <1>1, <1>2, DispatchInvariant, PTL DEF Spec

\* However a script recompiles its box while it runs, and however deep the
\* calls nest, an inner call of a box never runs an older script than an outer.
THEOREM NestedCallsAlwaysMeetNewerScripts == Spec => []NestedCallsMeetNewerScripts
  BY ScriptsInvariant, PTL DEF ScriptsInv

LEMMA LastFoundIsPath == LastFoundInv => PathIsLastFound
  BY DEF LastFoundInv, LastFound, PathIsLastFound

\* A box remembers the file js_load found for it last, which "compile" without
\* a name loads again: no file that was not found, and none that was included,
\* takes its place.
THEOREM PathIsAlwaysLastFound == Spec => []PathIsLastFound
  BY ScriptsInvariant, LastFoundIsPath, PTL DEF ScriptsInv

=============================================================================
