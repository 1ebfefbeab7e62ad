--------------------------- MODULE DispatchProofs ---------------------------
(***************************************************************************)
(* Proofs about Dispatch, for any boxes, files, names and bounds.          *)
(*                                                                         *)
(* The inductive invariant adds to the types and to NewestScriptAnswers    *)
(* the invariant of the ports; that a box that exists has an inlet:        *)
(* without it a message could not be said to have come by one, and a       *)
(* resize would not be a step of Ports; and what makes                     *)
(* ConstructionIsUndisturbed inductive: a box under construction has one   *)
(* js_new in progress, no lookup, and no include from before; and a box    *)
(* that js_new has not returned was told of no message.                    *)
(***************************************************************************)
EXTENDS Dispatch, PortsProofs

BoxesHaveInlets ==
  \A x \in Box : /\ Len(inlets[x]) <= MaxPorts
                 /\ Exists(x) => inlets[x] # <<>>

\* What a call in progress says of the box it works for.
CallFits(call) ==
  /\ call.kind = "new" => status[call.box] = "creating" /\ context[call.box] = call.ctx
  /\ call.kind = "include" =>
       /\ status[call.box] # "absent"
       /\ status[call.box] = "creating" => context[call.box] = call.ctx
  /\ call.kind = "lookup" => status[call.box] \in {"live", "freed"}

\* The same after a step, of a call that was in progress before it or is after.
FitsNext(call) ==
  /\ call.kind = "new" => status'[call.box] = "creating" /\ context'[call.box] = call.ctx
  /\ call.kind = "include" =>
       /\ status'[call.box] # "absent"
       /\ status'[call.box] = "creating" => context'[call.box] = call.ctx
  /\ call.kind = "lookup" => status'[call.box] \in {"live", "freed"}

OneConstruction ==
  \A i, j \in DOMAIN stack :
    (stack[i].kind = "new" /\ stack[j].kind = "new" /\ stack[i].box = stack[j].box) => i = j

Uninformed == \A x \in Box : status[x] \in {"absent", "creating"} => current[x] = NoMessage

StackInv ==
  /\ \A i \in DOMAIN stack : CallFits(stack[i])
  /\ OneConstruction
  /\ Uninformed

IInv ==
  /\ PortsInv
  /\ DispatchTypeOK
  /\ BoxesHaveInlets
  /\ NewestScriptAnswers
  /\ StackInv

-----------------------------------------------------------------------------
(* The calls in progress.                                                  *)

LEMMA TopIsCall ==
  ASSUME NEW S, stack \in Seq(S), stack # <<>>
  PROVE  Top \in S /\ Below \in Seq(S)
<1>1. Len(stack) \in Nat /\ Len(stack) # 0
  BY EmptySeq, LenProperties
<1>2. Top \in S
  BY <1>1, ElementOfSeq DEF Top
<1>3. Below \in Seq(S)
  <2>1. Len(stack) - 1 \in Nat /\ Len(stack) - 1 <= Len(stack)
    BY <1>1
  <2> QED
    BY <2>1, Prefix DEF Below
<1> QED
  BY <1>2, <1>3

LEMMA PushOrReplace ==
  ASSUME NEW S, stack \in Seq(S), NEW call \in S
  PROVE  /\ Push(call) => stack' \in Seq(S)
         /\ stack # <<>> /\ Replace(call) => stack' \in Seq(S)
         /\ stack # <<>> /\ Pop => stack' \in Seq(S)
<1>1. Push(call) => stack' \in Seq(S)
  BY AppendProperties DEF Push
<1>2. stack # <<>> /\ Replace(call) => stack' \in Seq(S)
  BY TopIsCall, AppendProperties DEF Replace
<1>3. stack # <<>> /\ Pop => stack' \in Seq(S)
  BY TopIsCall DEF Pop
<1> QED
  BY <1>1, <1>2, <1>3

\* More contexts and more outlets leave the calls what they are.
LEMMA CallsGrow ==
  ASSUME Len(contexts) \in Nat, Len(contexts)' \in Nat, Len(contexts) <= Len(contexts)',
         newOutlet \in Nat, newOutlet' \in Nat, newOutlet <= newOutlet'
  PROVE  Calls \subseteq Calls'
<1>1. 1 .. Len(contexts) \subseteq 1 .. Len(contexts)' /\ 0 .. newOutlet \subseteq 0 .. newOutlet'
  OBVIOUS
<1> QED
  BY <1>1 DEF Calls, Messages

LEMMA CallTyped ==
  ASSUME NEW kind \in ScriptKinds \cup HostKinds, NEW x \in Box,
         NEW c \in 1 .. Len(contexts), NEW port \in 0 .. newOutlet,
         NEW message \in Messages
  PROVE  Call(kind, x, c, port, message) \in Calls
  BY DEF Call, Calls

LEMMA NoMessageTyped == NoMessage \in Messages
  BY PortsAssumption DEF NoMessage, Messages

LEMMA MessageTyped ==
  ASSUME NEW k \in 0 .. MaxPorts - 1, NEW s \in Name \cup {"loadbang", ""}
  PROVE  [inlet |-> k, name |-> s] \in Messages
  BY DEF Messages

LEMMA Typed ==
  ASSUME IInv
  PROVE  /\ newOutlet \in Nat
         /\ Len(contexts) \in Nat
         /\ DOMAIN contexts = 1 .. Len(contexts)
         /\ \A c \in DOMAIN contexts : contexts[c].box \in Box
         /\ \A x \in Box : Len(inlets[x]) \in Nat /\ DOMAIN inlets[x] = 1 .. Len(inlets[x])
         /\ \A x \in Box : Exists(x) => context[x] \in 1 .. Len(contexts)
<1>1. newOutlet \in Nat
  BY DEF IInv, PortsInv, OutletInv
<1>2. contexts \in Seq([box : Box, file : File \cup {NoFile}, ran : BOOLEAN])
  BY DEF IInv, DispatchTypeOK
<1>3. Len(contexts) \in Nat /\ DOMAIN contexts = 1 .. Len(contexts)
  BY <1>2, LenProperties
<1>4. ASSUME NEW c \in DOMAIN contexts PROVE contexts[c].box \in Box
  <2>1. contexts[c] \in [box : Box, file : File \cup {NoFile}, ran : BOOLEAN]
    BY <1>2, <1>3, ElementOfSeq
  <2> QED
    BY <2>1
<1>5. ASSUME NEW x \in Box
      PROVE  Len(inlets[x]) \in Nat /\ DOMAIN inlets[x] = 1 .. Len(inlets[x])
  <2>1. inlets[x] \in Seq([index : Nat, inlet : 1 .. newInlet])
    BY DEF IInv, PortsInv, InletInv
  <2> QED
    BY <2>1, LenProperties
<1>6. \A x \in Box : Exists(x) => context[x] \in DOMAIN contexts
  BY DEF IInv, NewestScriptAnswers, ContextsOf
<1> QED
  BY <1>1, <1>3, <1>4, <1>5, <1>6

LEMMA RunningCall ==
  ASSUME IInv, NEW kinds, Running(kinds)
  PROVE  /\ stack # <<>>
         /\ Top \in Calls
         /\ Top.kind \in kinds
         /\ Top.kind \in ScriptKinds \cup HostKinds
         /\ Top.box \in Box
         /\ Top.ctx \in 1 .. Len(contexts)
         /\ Top.realm \in 1 .. Len(contexts)
         /\ Top.port \in 0 .. newOutlet
         /\ Top.message \in Messages
         /\ Owner \in Box
<1>1. stack # <<>> /\ Top.kind \in kinds
  BY DEF Running
<1>2. stack \in Seq(Calls)
  BY DEF IInv, DispatchTypeOK
<1>3. Top \in Calls
  <2> HIDE DEF Calls
  <2> QED
    BY <1>1, <1>2, TopIsCall
<1>4. /\ Top.kind \in ScriptKinds \cup HostKinds
      /\ Top.box \in Box
      /\ Top.ctx \in 1 .. Len(contexts)
      /\ Top.realm \in 1 .. Len(contexts)
      /\ Top.port \in 0 .. newOutlet
      /\ Top.message \in Messages
  BY <1>3 DEF Calls
<1> QED
  BY <1>1, <1>3, <1>4, Typed DEF Owner

-----------------------------------------------------------------------------
(* Resizing, as the rest of the state sees it.                             *)

LEMMA ResizedInlets ==
  ASSUME InletInv, NEW x \in Box, NEW n \in Int, SetInlets(x, n)
  PROVE  /\ Len(inlets'[x]) = InletCount(n)
         /\ \A y \in Box : y # x => inlets'[y] = inlets[y]
<1> DEFINE size == InletCount(n)
           R == [index : Nat, inlet : 1 .. newInlet]
<1>0. size \in Nat
  BY DEF InletCount
<1>1. /\ newInlet \in Nat
      /\ inlets \in [Box -> Seq(R)]
      /\ inlets[x] \in Seq(R)
      /\ Len(inlets[x]) \in Nat
  BY LenProperties DEF InletInv
<1> HIDE DEF size
<1>2. CASE ShrinkInlets(x, size)
  <2>1. Len(SubSeq(inlets[x], 1, size)) = size
    <3>1. size <= Len(inlets[x])
      BY <1>0, <1>1, <1>2 DEF ShrinkInlets
    <3> HIDE DEF R
    <3> QED
      BY <1>0, <1>1, <3>1, Prefix
  <2>2. inlets' = [inlets EXCEPT ![x] = SubSeq(inlets[x], 1, size)]
    BY <1>2 DEF ShrinkInlets
  <2> QED
    BY <1>1, <2>1, <2>2 DEF size
<1>3. CASE GrowInlets(x, size)
  <2> DEFINE added == size - Len(inlets[x])
             f == [k \in 1 .. added |-> InletRecord(Len(inlets[x]), k)]
             S == [index : Nat, inlet : 1 .. newInlet + added]
  <2>1. added \in Nat
    BY <1>0, <1>1, <1>3 DEF GrowInlets
  <2>2. f \in [1 .. added -> S]
    BY <1>1, <2>1 DEF InletRecord
  <2>3. inlets[x] \in Seq(S)
    <3>1. R \subseteq S
      BY <1>1, <2>1
    <3> HIDE DEF R, S
    <3> QED
      BY <1>1, <3>1, SeqMonotonic
  <2>4. Len(inlets[x] \o f) = Len(inlets[x]) + added
    <3> HIDE DEF f, S, added
    <3> QED
      BY <2>1, <2>2, <2>3, Extension
  <2>5. Len(inlets[x]) + added = size
    BY <1>0, <1>1
  <2>6. inlets' = [inlets EXCEPT ![x] = inlets[x] \o f]
    BY <1>3 DEF GrowInlets
  <2> HIDE DEF f, added
  <2> QED
    BY <1>1, <2>4, <2>5, <2>6 DEF size
<1>4. CASE Len(inlets[x]) = size /\ UNCHANGED inletVars
  BY <1>4 DEF size, inletVars
<1> QED
  BY <1>2, <1>3, <1>4 DEF SetInlets, size

LEMMA OutletsAllocated ==
  ASSUME OutletInv, NEW x \in Box, NEW n \in Int, SetOutlets(x, n)
  PROVE  newOutlet <= newOutlet'
<1>1. newOutlet \in Nat /\ Len(outlets[x]) \in Nat
  BY LenProperties DEF OutletInv
<1>2. OutletCount(n) \in Nat
  BY DEF OutletCount
<1> QED
  BY <1>1, <1>2 DEF SetOutlets, ShrinkOutlets, GrowOutlets, outletVars

\* What a change of one box's ports does to the invariant.
PortsChanged(x) ==
  /\ PortsInv'
  /\ newOutlet <= newOutlet'
  /\ inlets'[x] # <<>> /\ Len(inlets'[x]) <= MaxPorts
  /\ \A y \in Box : y # x => inlets'[y] = inlets[y]

LEMMA NotEmpty ==
  ASSUME NEW S, NEW s \in Seq(S), NEW n \in Nat, n > 0, Len(s) = n
  PROVE  s # <<>>
  BY EmptySeq, LenProperties

LEMMA CountsBound ==
  \A n \in Counts : /\ n \in Int
                    /\ InletCount(n) \in Nat
                    /\ InletCount(n) > 0
                    /\ InletCount(n) <= MaxPorts
  BY PortsAssumption DEF Counts, InletCount

LEMMA InletsSet ==
  ASSUME IInv, NEW x \in Box, NEW n \in Counts, SetInlets(x, n)
  PROVE  /\ InletInv'
         /\ inlets'[x] # <<>>
         /\ Len(inlets'[x]) <= MaxPorts
         /\ \A y \in Box : y # x => inlets'[y] = inlets[y]
<1>1. InletInv
  BY DEF IInv, PortsInv
<1>2. n \in Int /\ InletCount(n) \in Nat /\ InletCount(n) > 0 /\ InletCount(n) <= MaxPorts
  BY CountsBound
<1>3. InletInv'
  BY <1>1, <1>2, SetInletsKeepsInv
<1>4. Len(inlets'[x]) = InletCount(n) /\ \A y \in Box : y # x => inlets'[y] = inlets[y]
  BY <1>1, <1>2, ResizedInlets
<1>5. inlets'[x] \in Seq([index : Nat, inlet : 1 .. newInlet'])
  BY <1>3 DEF InletInv
<1>6. inlets'[x] # <<>>
  BY <1>2, <1>4, <1>5, NotEmpty
<1> QED
  BY <1>2, <1>3, <1>4, <1>6

LEMMA ResetChanges ==
  ASSUME IInv, NEW x \in Box, ResetPorts(x)
  PROVE  PortsChanged(x)
<1>1. 1 \in Counts
  BY PortsAssumption DEF Counts
<1>2. OutletInv' /\ newOutlet <= newOutlet'
  BY SetOutletsKeepsInv, OutletsAllocated DEF ResetPorts, IInv, PortsInv
<1> QED
  BY <1>1, <1>2, InletsSet DEF ResetPorts, PortsChanged, PortsInv

LEMMA SetPortsChanges ==
  ASSUME IInv, NEW x \in Box, Exists(x), SetPorts(x)
  PROVE  PortsChanged(x) /\ Resize(x)
<1>1. PICK n \in Counts : \/ SetInlets(x, n) /\ UNCHANGED outletVars
                          \/ SetOutlets(x, n) /\ UNCHANGED inletVars
  BY DEF SetPorts
<1>2. InletInv /\ OutletInv /\ newOutlet \in Nat
  BY DEF IInv, PortsInv, OutletInv
<1>3. inlets[x] # <<>> /\ Len(inlets[x]) <= MaxPorts
  BY DEF IInv, BoxesHaveInlets
<1>4. Resize(x)
  BY <1>1, <1>3 DEF Resize, HasInlets
<1>5. CASE SetInlets(x, n) /\ UNCHANGED outletVars
  <2>1. OutletInv' /\ newOutlet' = newOutlet
    BY <1>2, <1>5, UnchangedPortsKeepInv DEF outletVars
  <2>2. newOutlet <= newOutlet'
    BY <1>2, <2>1
  <2> QED
    BY <1>4, <1>5, <2>1, <2>2, InletsSet DEF PortsChanged, PortsInv
<1>6. CASE SetOutlets(x, n) /\ UNCHANGED inletVars
  <2>1. n \in Int
    BY CountsBound
  <2>2. InletInv' /\ inlets' = inlets
    BY <1>2, <1>6, UnchangedPortsKeepInv DEF inletVars
  <2>3. OutletInv' /\ newOutlet <= newOutlet'
    BY <1>2, <1>6, <2>1, SetOutletsKeepsInv, OutletsAllocated
  <2> QED
    BY <1>3, <1>4, <2>2, <2>3 DEF PortsChanged, PortsInv
<1> QED
  BY <1>1, <1>5, <1>6

-----------------------------------------------------------------------------
(* The stack: what pushing, replacing and popping a call does.             *)

LEMMA Pushed ==
  ASSUME NEW S, stack \in Seq(S), NEW call \in S, Push(call)
  PROVE  /\ Len(stack) \in Nat
         /\ DOMAIN stack = 1 .. Len(stack)
         /\ DOMAIN stack' = 1 .. Len(stack) + 1
         /\ \A i \in 1 .. Len(stack) : stack'[i] = stack[i]
         /\ stack'[Len(stack) + 1] = call
         /\ stack' # <<>>
<1>1. stack' = Append(stack, call)
  BY DEF Push
<1>2. Len(stack) \in Nat /\ DOMAIN stack = 1 .. Len(stack)
  BY LenProperties
<1>3. /\ stack' \in Seq(S)
      /\ Len(stack') = Len(stack) + 1
      /\ \A i \in 1 .. Len(stack) : stack'[i] = stack[i]
      /\ stack'[Len(stack) + 1] = call
  BY <1>1, AppendProperties
<1>4. DOMAIN stack' = 1 .. Len(stack) + 1
  BY <1>3, LenProperties
<1>5. stack' # <<>>
  BY <1>2, <1>3, EmptySeq
<1> QED
  BY <1>2, <1>3, <1>4, <1>5

LEMMA Popped ==
  ASSUME NEW S, stack \in Seq(S), stack # <<>>
  PROVE  /\ Len(stack) \in Nat \ {0}
         /\ DOMAIN stack = 1 .. Len(stack)
         /\ Below \in Seq(S)
         /\ Len(Below) = Len(stack) - 1
         /\ DOMAIN Below = 1 .. Len(stack) - 1
         /\ \A i \in 1 .. Len(stack) - 1 : Below[i] = stack[i]
         /\ Len(stack) = 1 => Below = <<>>
         /\ Len(stack) > 1 => Below # <<>>
<1>1. Len(stack) \in Nat \ {0} /\ DOMAIN stack = 1 .. Len(stack)
  BY EmptySeq, LenProperties
<1>2. Len(stack) - 1 \in Nat /\ Len(stack) - 1 <= Len(stack)
  BY <1>1
<1>3. /\ Below \in Seq(S)
      /\ Len(Below) = Len(stack) - 1
      /\ DOMAIN Below = 1 .. Len(stack) - 1
      /\ \A i \in 1 .. Len(stack) - 1 : Below[i] = stack[i]
  BY <1>2, Prefix DEF Below
<1>4. Len(stack) = 1 => Below = <<>>
  BY <1>3, EmptySeq
<1>5. Len(stack) > 1 => Below # <<>>
  BY <1>1, <1>3, EmptySeq
<1> QED
  BY <1>1, <1>3, <1>4, <1>5

LEMMA Replaced ==
  ASSUME NEW S, stack \in Seq(S), stack # <<>>, NEW call \in S, Replace(call)
  PROVE  /\ Len(stack) \in Nat \ {0}
         /\ DOMAIN stack = 1 .. Len(stack)
         /\ DOMAIN stack' = 1 .. Len(stack)
         /\ \A i \in 1 .. Len(stack) - 1 : stack'[i] = stack[i]
         /\ stack'[Len(stack)] = call
         /\ stack' # <<>>
<1>1. stack' = Append(Below, call)
  BY DEF Replace
<1>2. /\ Len(stack) \in Nat \ {0}
      /\ DOMAIN stack = 1 .. Len(stack)
      /\ Below \in Seq(S)
      /\ Len(Below) = Len(stack) - 1
      /\ \A i \in 1 .. Len(stack) - 1 : Below[i] = stack[i]
  BY Popped
<1>3. /\ stack' \in Seq(S)
      /\ Len(stack') = Len(Below) + 1
      /\ \A i \in 1 .. Len(Below) : stack'[i] = Below[i]
      /\ stack'[Len(Below) + 1] = call
  <2>1. Below \in Seq(S)
    BY <1>2
  <2> HIDE DEF Below
  <2> QED
    BY <1>1, <2>1, AppendProperties
<1>4. Len(Below) + 1 = Len(stack)
  BY <1>2
<1>5. DOMAIN stack' = 1 .. Len(stack)
  BY <1>3, <1>4, LenProperties
<1>6. stack' # <<>>
  BY <1>2, <1>3, <1>4, EmptySeq
<1> QED
  BY <1>2, <1>3, <1>4, <1>5, <1>6

\* A call that may be pushed at any time.
Fits(call) == call.kind # "new" /\ CallFits(call)

\* At most the k-th call is not one that was there before.
LEMMA StackInvNext ==
  ASSUME StackInv, Uninformed', NEW k,
         \A j \in DOMAIN stack' : j # k => j \in DOMAIN stack /\ stack'[j] = stack[j],
         \A j \in DOMAIN stack' : FitsNext(stack'[j]),
         (k \in DOMAIN stack' /\ stack'[k].kind = "new") =>
           \A i \in DOMAIN stack : stack[i].kind = "new" => stack[i].box # stack'[k].box
  PROVE  StackInv'
<1>1. ASSUME NEW i \in DOMAIN stack', NEW j \in DOMAIN stack',
             stack'[i].kind = "new", stack'[j].kind = "new", stack'[i].box = stack'[j].box
      PROVE  i = j
  <2>1. CASE i # k /\ j # k
    BY <1>1, <2>1 DEF StackInv, OneConstruction
  <2>2. CASE i = k /\ j # k
    BY <1>1, <2>2
  <2>3. CASE i # k /\ j = k
    BY <1>1, <2>3
  <2> QED
    BY <2>1, <2>2, <2>3
<1>2. OneConstruction'
  BY <1>1 DEF OneConstruction
<1>3. (\A j \in DOMAIN stack : CallFits(stack[j]))'
  BY DEF CallFits, FitsNext
<1> QED
  BY <1>2, <1>3 DEF StackInv

LEMMA FewerCalls ==
  ASSUME StackInv, Uninformed',
         \A j \in DOMAIN stack' : j \in DOMAIN stack /\ stack'[j] = stack[j],
         \A j \in DOMAIN stack' : FitsNext(stack'[j])
  PROVE  StackInv'
<1>1. OneConstruction'
  BY DEF StackInv, OneConstruction
<1>2. (\A j \in DOMAIN stack : CallFits(stack[j]))'
  BY DEF CallFits, FitsNext
<1> QED
  BY <1>1, <1>2 DEF StackInv

LEMMA PushKeepsStackInv ==
  ASSUME NEW S, stack \in Seq(S), NEW call \in S, Push(call), Fits(call),
         StackInv, UNCHANGED <<status, context, current>>
  PROVE  StackInv'
<1>1. /\ Len(stack) \in Nat
      /\ DOMAIN stack = 1 .. Len(stack)
      /\ DOMAIN stack' = 1 .. Len(stack) + 1
      /\ \A i \in 1 .. Len(stack) : stack'[i] = stack[i]
      /\ stack'[Len(stack) + 1] = call
  BY Pushed
<1>2. \A j \in DOMAIN stack' : j # Len(stack) + 1 => j \in DOMAIN stack /\ stack'[j] = stack[j]
  BY <1>1
<1>3. ASSUME NEW j \in DOMAIN stack' PROVE FitsNext(stack'[j])
  <2>1. CallFits(stack'[j])
    BY <1>1, <1>2 DEF StackInv, Fits
  <2> QED
    BY <2>1 DEF CallFits, FitsNext
<1>4. Uninformed'
  BY DEF StackInv, Uninformed
<1> QED
  BY <1>1, <1>2, <1>3, <1>4, StackInvNext DEF Fits

LEMMA ReplaceKeepsStackInv ==
  ASSUME NEW S, stack \in Seq(S), stack # <<>>, NEW call \in S, Replace(call), Fits(call),
         StackInv, UNCHANGED <<status, context>>, Uninformed'
  PROVE  StackInv'
<1>1. /\ Len(stack) \in Nat \ {0}
      /\ DOMAIN stack = 1 .. Len(stack)
      /\ DOMAIN stack' = 1 .. Len(stack)
      /\ \A i \in 1 .. Len(stack) - 1 : stack'[i] = stack[i]
      /\ stack'[Len(stack)] = call
  BY Replaced
<1>2. \A j \in DOMAIN stack' : j # Len(stack) => j \in DOMAIN stack /\ stack'[j] = stack[j]
  BY <1>1
<1>3. ASSUME NEW j \in DOMAIN stack' PROVE FitsNext(stack'[j])
  <2>1. CallFits(stack'[j])
    BY <1>1, <1>2 DEF StackInv, Fits
  <2> QED
    BY <2>1 DEF CallFits, FitsNext
<1> QED
  BY <1>1, <1>2, <1>3, StackInvNext DEF Fits

\* The boxes but x stay what they are, and x is absent before the step, or in
\* the patch or freed after it.
Moves(x) ==
  /\ \A y \in Box : y # x => status'[y] = status[y] /\ context'[y] = context[y]
  /\ status[x] = "absent" \/ status'[x] \in {"live", "freed"}

LEMMA StillFits ==
  ASSUME NEW x \in Box, Moves(x), NEW call, call.box \in Box, CallFits(call),
         call.kind = "new" => call.box # x
  PROVE  FitsNext(call)
<1>1. CASE call.box = x
  BY <1>1 DEF CallFits, FitsNext, Moves
<1>2. CASE call.box # x
  BY <1>2 DEF CallFits, FitsNext, Moves
<1> QED
  BY <1>1, <1>2

LEMMA CallsAreTyped ==
  ASSUME stack \in Seq(Calls)
  PROVE  \A i \in DOMAIN stack : stack[i] \in Calls /\ stack[i].box \in Box
<1>1. \A i \in DOMAIN stack : stack[i] \in Calls
  <2> HIDE DEF Calls
  <2> QED
    BY LenProperties, ElementOfSeq
<1> QED
  BY <1>1 DEF Calls

\* Return, Finish: the call that was last ends, and when it was js_new's its
\* box is in the patch.
LEMMA PopKeepsStackInv ==
  ASSUME StackInv, stack \in Seq(Calls), stack # <<>>, Pop,
         UNCHANGED <<context, current>>,
         status \in [Box -> {"absent", "creating", "live", "freed"}],
         status' = IF Top.kind = "new" THEN [status EXCEPT ![Top.box] = "live"] ELSE status
  PROVE  StackInv' /\ \A x \in Box : Exists(x)' <=> Exists(x)
<1>1. /\ Len(stack) \in Nat \ {0}
      /\ DOMAIN stack = 1 .. Len(stack)
      /\ DOMAIN stack' = 1 .. Len(stack) - 1
      /\ \A i \in 1 .. Len(stack) - 1 : stack'[i] = stack[i]
  <2> HIDE DEF Calls
  <2> QED
    BY Popped DEF Pop
<1>2. Len(stack) \in DOMAIN stack
  BY <1>1
<1>3. Top = stack[Len(stack)] /\ Top.box \in Box /\ CallFits(Top)
  BY <1>2, CallsAreTyped DEF Top, StackInv
<1>4. \A j \in DOMAIN stack' : j \in DOMAIN stack /\ stack'[j] = stack[j] /\ j # Len(stack)
  BY <1>1
<1>5. CASE Top.kind # "new"
  <2>1. status' = status /\ \A x \in Box : Exists(x)' <=> Exists(x)
    BY <1>5 DEF Exists
  <2>2. ASSUME NEW j \in DOMAIN stack' PROVE FitsNext(stack'[j])
    <3>1. CallFits(stack[j])
      BY <1>4 DEF StackInv
    <3> QED
      BY <1>4, <2>1, <3>1 DEF CallFits, FitsNext
  <2>3. Uninformed'
    BY <2>1 DEF StackInv, Uninformed
  <2> QED
    BY <1>4, <2>1, <2>2, <2>3, FewerCalls
<1>6. CASE Top.kind = "new"
  <2> DEFINE x == Top.box
  <2>1. \A y \in Box : status'[y] = IF y = x THEN "live" ELSE status[y]
    BY <1>3, <1>6
  <2>2. status[x] = "creating"
    BY <1>3, <1>6 DEF CallFits
  <2>3. \A y \in Box : Exists(y)' <=> Exists(y)
    BY <2>1, <2>2 DEF Exists
  <2>4. Moves(x)
    BY <1>3, <2>1 DEF Moves
  <2>5. ASSUME NEW j \in DOMAIN stack' PROVE FitsNext(stack'[j])
    <3>1. CallFits(stack[j]) /\ stack[j].box \in Box
      BY <1>4, CallsAreTyped DEF StackInv
    <3>2. stack[j].kind = "new" => stack[j].box # x
      BY <1>2, <1>3, <1>4, <1>6 DEF StackInv, OneConstruction
    <3>3. FitsNext(stack[j])
      BY <1>3, <2>4, <3>1, <3>2, StillFits
    <3>4. stack'[j] = stack[j]
      BY <1>4
    <3> QED
      BY <3>3, <3>4
  <2>6. Uninformed'
    BY <2>1 DEF StackInv, Uninformed
  <2> QED
    BY <1>4, <2>3, <2>5, <2>6, FewerCalls
<1> QED
  BY <1>5, <1>6

-----------------------------------------------------------------------------
(* Steps that change the stack, or what the boxes note, but no context.    *)

Outcomes == {"none", "freed box", "freed outlet", "no such outlet"}

LEMMA KeepsContexts ==
  ASSUME IInv, UNCHANGED <<portVars, context, contexts, path, args>>,
         status' \in [Box -> {"absent", "creating", "live", "freed"}],
         \A x \in Box : Exists(x)' <=> Exists(x),
         current' \in [Box -> Messages],
         stack' \in Seq(Calls),
         undefined' \in Outcomes,
         StackInv'
  PROVE  IInv'
<1>1. PortsInv'
  <2>1. UNCHANGED inletVars /\ UNCHANGED outletVars
    BY DEF portVars, inletVars, outletVars
  <2> QED
    BY <2>1, UnchangedPortsKeepInv DEF IInv, PortsInv
<1>2. inlets' = inlets /\ newOutlet' = newOutlet
  BY DEF portVars
<1>3. BoxesHaveInlets'
  BY <1>2 DEF IInv, BoxesHaveInlets
<1>4. NewestScriptAnswers'
  BY DEF IInv, NewestScriptAnswers, ContextsOf
<1>5. Calls' = Calls
  BY <1>2 DEF Calls, Messages
<1>6. DispatchTypeOK'
  <2>1. stack' \in Seq(Calls')
    BY <1>5
  <2>2. Messages' = Messages
    BY DEF Messages
  <2> HIDE DEF Calls, Messages
  <2> QED
    BY <2>1, <2>2 DEF IInv, DispatchTypeOK, Outcomes
<1> QED
  BY <1>1, <1>3, <1>4, <1>6 DEF IInv

LEMMA PushKeepsIInv ==
  ASSUME IInv, UNCHANGED <<portVars, boxVars, undefined>>,
         NEW call \in Calls, Fits(call), Push(call)
  PROVE  IInv'
<1>1. /\ UNCHANGED <<portVars, context, contexts, path, args>>
      /\ status' = status /\ current' = current /\ undefined' = undefined
  BY DEF boxVars
<1>2. /\ status' \in [Box -> {"absent", "creating", "live", "freed"}]
      /\ current' \in [Box -> Messages]
      /\ undefined' \in Outcomes
      /\ stack \in Seq(Calls)
  BY <1>1 DEF IInv, DispatchTypeOK, Outcomes
<1>3. stack' \in Seq(Calls)
  <2> HIDE DEF Calls
  <2> QED
    BY <1>2, PushOrReplace
<1>4. StackInv'
  <2>1. UNCHANGED <<status, context, current>>
    BY <1>1
  <2> HIDE DEF Calls
  <2> QED
    BY <1>2, <2>1, PushKeepsStackInv DEF IInv
<1>5. \A x \in Box : Exists(x)' <=> Exists(x)
  BY <1>1 DEF Exists
<1> QED
  BY <1>1, <1>2, <1>3, <1>4, <1>5, KeepsContexts

LEMMA ReplaceKeepsIInv ==
  ASSUME IInv, UNCHANGED <<portVars, status, context, contexts, path, args, undefined>>,
         current' \in [Box -> Messages], Uninformed',
         stack # <<>>, NEW call \in Calls, Fits(call), Replace(call)
  PROVE  IInv'
<1>1. /\ UNCHANGED <<portVars, context, contexts, path, args>>
      /\ status' = status /\ undefined' = undefined
  OBVIOUS
<1>2. /\ status' \in [Box -> {"absent", "creating", "live", "freed"}]
      /\ undefined' \in Outcomes
      /\ stack \in Seq(Calls)
  BY <1>1 DEF IInv, DispatchTypeOK, Outcomes
<1>3. stack' \in Seq(Calls)
  <2> HIDE DEF Calls
  <2> QED
    BY <1>2, PushOrReplace
<1>4. StackInv'
  <2> HIDE DEF Calls
  <2> QED
    BY <1>1, <1>2, ReplaceKeepsStackInv DEF IInv
<1>5. \A x \in Box : Exists(x)' <=> Exists(x)
  BY <1>1 DEF Exists
<1> QED
  BY <1>1, <1>2, <1>3, <1>4, <1>5, KeepsContexts

LEMMA PopKeepsIInv ==
  ASSUME IInv, UNCHANGED <<portVars, context, contexts, path, args, current, undefined>>,
         stack # <<>>, Pop,
         status' = IF Top.kind = "new" THEN [status EXCEPT ![Top.box] = "live"] ELSE status
  PROVE  IInv'
<1>1. /\ status \in [Box -> {"absent", "creating", "live", "freed"}]
      /\ current' \in [Box -> Messages]
      /\ undefined' \in Outcomes
      /\ stack \in Seq(Calls)
  BY DEF IInv, DispatchTypeOK, Outcomes
<1>2. status' \in [Box -> {"absent", "creating", "live", "freed"}]
  BY <1>1
<1>3. stack' \in Seq(Calls)
  <2> HIDE DEF Calls
  <2> QED
    BY <1>1, TopIsCall DEF Pop
<1>4. StackInv' /\ \A x \in Box : Exists(x)' <=> Exists(x)
  BY <1>1, PopKeepsStackInv DEF IInv
<1> QED
  BY <1>1, <1>2, <1>3, <1>4, KeepsContexts

LEMMA ReachKeepsIInv ==
  ASSUME IInv, NEW what \in Outcomes, Reach(what)
  PROVE  IInv'
<1>1. /\ UNCHANGED <<portVars, context, contexts, path, args>>
      /\ status' = status /\ current' = current /\ stack' = stack /\ undefined' = what
  BY DEF Reach, boxVars
<1>2. /\ status' \in [Box -> {"absent", "creating", "live", "freed"}]
      /\ current' \in [Box -> Messages]
      /\ undefined' \in Outcomes
      /\ stack' \in Seq(Calls)
  BY <1>1 DEF IInv, DispatchTypeOK
<1>3. StackInv'
  BY <1>1 DEF IInv, StackInv, CallFits, OneConstruction, Uninformed
<1>4. \A x \in Box : Exists(x)' <=> Exists(x)
  BY <1>1 DEF Exists
<1> QED
  BY <1>1, <1>2, <1>3, <1>4, KeepsContexts

LEMMA PathTyped ==
  ASSUME IInv
  PROVE  /\ path \in [Box -> File \cup {NoFile}]
         /\ args \in [Box -> File \cup {NoFile}]
         /\ status \in [Box -> {"absent", "creating", "live", "freed"}]
         /\ stack \in Seq(Calls)
         /\ current \in [Box -> Messages]
  BY DEF IInv, DispatchTypeOK

-----------------------------------------------------------------------------
(* Steps that change ports or contexts.                                    *)

LEMMA PortsChangeKeepsIInv ==
  ASSUME IInv, NEW x \in Box, PortsChanged(x), UNCHANGED <<boxVars, callVars>>
  PROVE  IInv'
<1>1. /\ status' = status /\ context' = context /\ contexts' = contexts /\ path' = path
      /\ args' = args /\ current' = current /\ stack' = stack /\ undefined' = undefined
  BY DEF boxVars, callVars
<1>2. BoxesHaveInlets'
  BY <1>1 DEF IInv, BoxesHaveInlets, PortsChanged, Exists
<1>3. NewestScriptAnswers' /\ StackInv'
  <2>1. NewestScriptAnswers'
    BY <1>1 DEF IInv, NewestScriptAnswers, ContextsOf, Exists
  <2>2. StackInv'
    BY <1>1 DEF IInv, StackInv, CallFits, OneConstruction, Uninformed
  <2> QED
    BY <2>1, <2>2
<1>4. stack' \in Seq(Calls')
  <2>1. newOutlet \in Nat /\ newOutlet' \in Nat /\ newOutlet <= newOutlet'
    BY DEF IInv, PortsInv, OutletInv, PortsChanged
  <2>2. Len(contexts) \in Nat /\ Len(contexts)' = Len(contexts)
    BY <1>1, Typed
  <2>3. Calls \subseteq Calls'
    <3>1. Len(contexts)' \in Nat /\ Len(contexts) <= Len(contexts)'
      BY <2>2
    <3> QED
      BY <2>1, <2>2, <3>1, CallsGrow
  <2>4. stack' \in Seq(Calls)
    BY <1>1 DEF IInv, DispatchTypeOK
  <2>5. ASSUME NEW C, NEW D, C \subseteq D, stack' \in Seq(C) PROVE stack' \in Seq(D)
    BY <2>5, SeqMonotonic
  <2> HIDE DEF Calls
  <2> QED
    BY <2>3, <2>4, <2>5
<1>5. DispatchTypeOK'
  <2>1. Messages' = Messages
    BY DEF Messages
  <2> HIDE DEF Calls, Messages
  <2> QED
    BY <1>1, <1>4, <2>1 DEF IInv, DispatchTypeOK
<1> QED
  BY <1>2, <1>3, <1>5 DEF IInv, PortsChanged

LEMMA FreeKeepsIInv ==
  ASSUME IInv, NEW x \in Box, Free(x)
  PROVE  IInv'
<1>1. /\ status' = [status EXCEPT ![x] = "freed"]
      /\ context' = [context EXCEPT ![x] = 0]
      /\ contexts' = contexts /\ path' = path /\ args' = args /\ current' = current
      /\ stack' = stack /\ undefined' = undefined
      /\ FreePorts(x)
      /\ status[x] = "live"
  BY DEF Free, callVars
<1>2. PortsInv'
  BY <1>1, FreePortsKeepsInv DEF IInv
<1>3. inlets' = [inlets EXCEPT ![x] = <<>>] /\ newOutlet' = newOutlet
  BY <1>1 DEF FreePorts
<1>4. /\ status \in [Box -> {"absent", "creating", "live", "freed"}]
      /\ context \in [Box -> 0 .. Len(contexts)]
      /\ inlets \in [Box -> Seq([index : Nat, inlet : 1 .. newInlet])]
  BY DEF IInv, DispatchTypeOK, PortsInv, InletInv
<1>5. \A y \in Box : /\ Exists(y)' <=> Exists(y) /\ y # x
                     /\ context'[y] = IF y = x THEN 0 ELSE context[y]
                     /\ inlets'[y] = IF y = x THEN <<>> ELSE inlets[y]
  BY <1>1, <1>3, <1>4 DEF Exists
<1>6. BoxesHaveInlets'
  <2>1. Len(<<>>) <= MaxPorts
    BY PortsAssumption
  <2> QED
    BY <1>5, <2>1 DEF IInv, BoxesHaveInlets
<1>7. NewestScriptAnswers'
  BY <1>1, <1>5 DEF IInv, NewestScriptAnswers, ContextsOf
<1>8. StackInv'
  <2>1. Moves(x)
    BY <1>1, <1>4 DEF Moves
  <2>2. \A j \in DOMAIN stack' : j \in DOMAIN stack /\ stack'[j] = stack[j]
    BY <1>1
  <2>3. ASSUME NEW j \in DOMAIN stack' PROVE FitsNext(stack'[j])
    <3>1. CallFits(stack[j]) /\ stack[j].box \in Box
      BY <2>2, PathTyped, CallsAreTyped DEF IInv, StackInv
    <3>2. FitsNext(stack[j])
      BY <1>1, <2>1, <3>1, StillFits DEF CallFits
    <3> QED
      BY <2>2, <3>2
  <2>4. Uninformed'
    BY <1>1, <1>4 DEF IInv, StackInv, Uninformed
  <2> QED
    BY <2>2, <2>3, <2>4, FewerCalls DEF IInv
<1>9. DispatchTypeOK'
  <2>1. Messages' = Messages /\ Calls' = Calls
    BY <1>1, <1>3 DEF Messages, Calls
  <2>2. context' \in [Box -> 0 .. Len(contexts)]
    <3>1. 0 \in 0 .. Len(contexts)
      BY Typed
    <3> QED
      BY <1>1, <1>4, <3>1
  <2> HIDE DEF Calls, Messages
  <2> QED
    BY <1>1, <1>4, <2>1, <2>2 DEF IInv, DispatchTypeOK
<1> QED
  BY <1>2, <1>6, <1>7, <1>8, <1>9 DEF IInv

Contexts == [box : Box, file : File \cup {NoFile}, ran : BOOLEAN]

\* Include: the context is noted to have had a script, and a call is pushed.
LEMMA IncludeKeepsIInv ==
  ASSUME IInv, Include
  PROVE  IInv'
<1>0. Running(ScriptKinds)
  BY DEF Include
<1>1. Owner \in Box
  BY <1>0, RunningCall
<1>2. CASE ~Exists(Owner)
  BY <1>2, ReachKeepsIInv DEF Include, Using, Outcomes
<1>3. CASE Exists(Owner)
  <2> DEFINE k == context[Owner]
             call == Call("include", Owner, k, 0, NoMessage)
  <2>1. Exists(Owner)
    BY <1>3
  <2>2. k \in 1 .. Len(contexts) /\ Len(contexts) \in Nat /\ DOMAIN contexts = 1 .. Len(contexts)
    BY <1>1, <2>1, Typed
  <2>3. /\ Push(call) /\ contexts' = [contexts EXCEPT ![k].ran = TRUE]
        /\ UNCHANGED portVars
        /\ status' = status /\ context' = context /\ path' = path /\ args' = args
        /\ current' = current /\ undefined' = undefined
    BY <1>3 DEF Include, Using
  <2>4. contexts \in Seq(Contexts)
    BY DEF IInv, DispatchTypeOK, Contexts
  <2>5. \A c \in 1 .. Len(contexts) : contexts[c] \in Contexts
    <3> HIDE DEF Contexts
    <3> QED
      BY <2>4, ElementOfSeq
  <2>6. contexts' \in [1 .. Len(contexts) -> Contexts]
    <3>1. contexts = [c \in 1 .. Len(contexts) |-> contexts[c]]
      BY <2>4, LenProperties
    <3>2. [contexts[k] EXCEPT !.ran = TRUE] \in Contexts
      BY <2>2, <2>5 DEF Contexts
    <3> HIDE DEF k, Contexts
    <3> QED
      BY <2>2, <2>3, <2>5, <3>1, <3>2
  <2>7. contexts' \in Seq(Contexts) /\ Len(contexts') = Len(contexts) /\ DOMAIN contexts' = DOMAIN contexts
    <3> HIDE DEF Contexts
    <3> QED
      BY <2>2, <2>6, SeqDef, LenProperties
  <2>8. \A c \in DOMAIN contexts : contexts'[c].box = contexts[c].box
    BY <2>2, <2>3, <2>5 DEF Contexts
  <2>9. NewestScriptAnswers'
    <3>1. \A x \in Box : ContextsOf(x)' = ContextsOf(x)
      BY <2>7, <2>8 DEF ContextsOf
    <3> QED
      BY <2>3, <3>1 DEF IInv, NewestScriptAnswers, Exists
  <2>10. call \in Calls /\ Fits(call)
    <3>1. 0 \in 0 .. newOutlet
      BY Typed
    <3>2. call \in Calls
      BY <1>1, <2>2, <3>1, NoMessageTyped, CallTyped DEF ScriptKinds
    <3> QED
      BY <2>1, <3>2 DEF Fits, CallFits, Call, Exists
  <2>11. stack \in Seq(Calls)
    BY DEF IInv, DispatchTypeOK
  <2>12. stack' \in Seq(Calls) /\ Calls' = Calls
    <3>1. Calls' = Calls
      BY <2>3, <2>7 DEF Calls, Messages, portVars
    <3> HIDE DEF Calls, call
    <3> QED
      BY <2>3, <2>10, <2>11, <3>1, PushOrReplace
  <2>13. StackInv'
    <3> HIDE DEF call, Calls
    <3> QED
      BY <2>3, <2>10, <2>11, PushKeepsStackInv DEF IInv
  <2>14. PortsInv' /\ BoxesHaveInlets'
    <3>1. UNCHANGED inletVars /\ UNCHANGED outletVars
      BY <2>3 DEF portVars, inletVars, outletVars
    <3>2. PortsInv'
      BY <3>1, UnchangedPortsKeepInv DEF IInv, PortsInv
    <3> QED
      BY <2>3, <3>1, <3>2 DEF IInv, BoxesHaveInlets, Exists, inletVars
  <2>15. DispatchTypeOK'
    <3>1. Messages' = Messages
      BY DEF Messages
    <3>2. context' \in [Box -> 0 .. Len(contexts)']
      BY <2>3, <2>7 DEF IInv, DispatchTypeOK
    <3> HIDE DEF Calls, Messages, call
    <3> QED
      BY <2>3, <2>7, <2>12, <3>1, <3>2 DEF IInv, DispatchTypeOK, Contexts
  <2> QED
    BY <2>9, <2>13, <2>14, <2>15 DEF IInv
<1> QED
  BY <1>2, <1>3

LEMMA NewContextTyped ==
  ASSUME IInv, NEW x \in Box, NEW file \in File \cup {NoFile}, NEW runs \in BOOLEAN, NEW kind,
         RunInNewContext(kind, x, file, runs)
  PROVE  /\ Len(contexts) \in Nat
         /\ contexts' \in Seq(Contexts)
         /\ Len(contexts') = Len(contexts) + 1
         /\ DOMAIN contexts' = 1 .. Len(contexts) + 1
         /\ DOMAIN contexts = 1 .. Len(contexts)
         /\ \A c \in DOMAIN contexts : contexts'[c] = contexts[c]
         /\ contexts'[Len(contexts) + 1] = [box |-> x, file |-> file, ran |-> runs]
<1> DEFINE added == [box |-> x, file |-> file, ran |-> runs]
<1>1. contexts \in Seq(Contexts)
  BY DEF IInv, DispatchTypeOK, Contexts
<1>2. added \in Contexts
  BY DEF Contexts
<1>3. contexts' = Append(contexts, added)
  BY DEF RunInNewContext
<1>4. /\ contexts' \in Seq(Contexts)
      /\ Len(contexts') = Len(contexts) + 1
      /\ \A c \in 1 .. Len(contexts) : contexts'[c] = contexts[c]
      /\ contexts'[Len(contexts) + 1] = added
  <2> HIDE DEF Contexts, added
  <2> QED
    BY <1>1, <1>2, <1>3, AppendProperties
<1>5. Len(contexts) \in Nat /\ DOMAIN contexts = 1 .. Len(contexts)
  BY Typed
<1>6. DOMAIN contexts' = 1 .. Len(contexts) + 1
  <2> HIDE DEF Contexts
  <2> QED
    BY <1>4, LenProperties
<1> QED
  BY <1>4, <1>5, <1>6

\* js_load with a context of its own: the box has the newest context.
LEMMA NewContextIsNewest ==
  ASSUME IInv, NEW x \in Box, NEW file \in File \cup {NoFile}, NEW runs \in BOOLEAN, NEW kind,
         RunInNewContext(kind, x, file, runs),
         Exists(x)', \A y \in Box : y # x => (Exists(y)' <=> Exists(y))
  PROVE  /\ NewestScriptAnswers'
         /\ context' \in [Box -> 0 .. Len(contexts)']
<1> DEFINE n == Len(contexts) + 1
<1>1. /\ Len(contexts) \in Nat
      /\ Len(contexts') = n
      /\ DOMAIN contexts' = 1 .. n
      /\ DOMAIN contexts = 1 .. Len(contexts)
      /\ \A c \in DOMAIN contexts : contexts'[c] = contexts[c]
      /\ contexts'[n].box = x
  <2>1. contexts'[n] = [box |-> x, file |-> file, ran |-> runs]
    BY NewContextTyped
  <2>2. contexts'[n].box = x
    BY <2>1
  <2> QED
    BY <2>2, NewContextTyped
<1>2. context' = [context EXCEPT ![x] = n] /\ context \in [Box -> 0 .. Len(contexts)]
  BY DEF RunInNewContext, IInv, DispatchTypeOK
<1> HIDE DEF n
<1>3. n \in Nat /\ n = Len(contexts) + 1
  BY <1>1 DEF n
<1>4. context' \in [Box -> 0 .. n]
  <2>1. 0 .. Len(contexts) \subseteq 0 .. n /\ n \in 0 .. n
    BY <1>1, <1>3
  <2> QED
    BY <1>2, <2>1
<1>5. context'[x] = n /\ n \in ContextsOf(x)' /\ \A c \in ContextsOf(x)' : c <= n
  BY <1>1, <1>2, <1>3 DEF ContextsOf
<1>6. ASSUME NEW y \in Box, y # x
      PROVE  context'[y] = context[y] /\ ContextsOf(y)' = ContextsOf(y)
  <2>1. context'[y] = context[y]
    BY <1>2, <1>6
  <2>2. \A c \in 1 .. n : c \in 1 .. Len(contexts) \/ c = n
    BY <1>1, <1>3
  <2>3. \A c \in 1 .. Len(contexts) : c \in 1 .. n
    BY <1>1, <1>3
  <2>4. \A c \in ContextsOf(y)' : c \in ContextsOf(y)
    BY <1>1, <1>6, <2>2 DEF ContextsOf
  <2>5. \A c \in ContextsOf(y) : c \in ContextsOf(y)'
    BY <1>1, <2>3 DEF ContextsOf
  <2> QED
    BY <2>1, <2>4, <2>5
<1>7. NewestScriptAnswers'
  BY <1>5, <1>6 DEF NewestScriptAnswers, IInv
<1> QED
  BY <1>1, <1>4, <1>7

LEMMA NewContextKeepsIInv ==
  ASSUME IInv, NEW x \in Box, NEW file \in File \cup {NoFile}, NEW runs \in BOOLEAN,
         NEW kind \in {"new", "load"}, RunInNewContext(kind, x, file, runs),
         PortsInv', BoxesHaveInlets', newOutlet <= newOutlet',
         path' \in [Box -> File \cup {NoFile}], args' \in [Box -> File \cup {NoFile}],
         current' = current, undefined' = undefined,
         status' \in [Box -> {"absent", "creating", "live", "freed"}],
         Exists(x)', \A y \in Box : y # x => (Exists(y)' <=> Exists(y)),
         StackInv'
  PROVE  IInv'
<1>1. NewestScriptAnswers' /\ context' \in [Box -> 0 .. Len(contexts)']
  BY NewContextIsNewest
<1>2. /\ Len(contexts) \in Nat /\ Len(contexts') = Len(contexts) + 1
      /\ contexts' \in Seq(Contexts)
  BY NewContextTyped
<1>3. newOutlet \in Nat /\ newOutlet' \in Nat
  BY DEF IInv, PortsInv, OutletInv
<1>4. Calls \subseteq Calls'
  <2>1. Len(contexts)' \in Nat /\ Len(contexts) <= Len(contexts)'
    BY <1>2
  <2> QED
    BY <1>2, <1>3, <2>1, CallsGrow
<1>5. stack \in Seq(Calls')
  <2>1. ASSUME NEW C, NEW D, C \subseteq D, stack \in Seq(C) PROVE stack \in Seq(D)
    BY <2>1, SeqMonotonic
  <2>2. stack \in Seq(Calls)
    BY DEF IInv, DispatchTypeOK
  <2> HIDE DEF Calls
  <2> QED
    BY <1>4, <2>1, <2>2
<1>6. stack' \in Seq(Calls')
  <2>1. CASE ~runs
    <3>1. stack' = stack
      BY <2>1 DEF RunInNewContext
    <3> HIDE DEF Calls
    <3> QED
      BY <1>5, <3>1
  <2>2. CASE runs
    <3> DEFINE call == Call(kind, x, Len(contexts) + 1, 0, NoMessage)
    <3>1. Push(call)
      BY <2>2 DEF RunInNewContext
    <3>2. call \in Calls'
      <4>1. Len(contexts) + 1 \in 1 .. Len(contexts') /\ 0 \in 0 .. newOutlet'
        BY <1>2, <1>3
      <4> QED
        BY <4>1, NoMessageTyped DEF Call, Calls, ScriptKinds, Messages
    <3>3. stack' = Append(stack, call)
      BY <3>1 DEF Push
    <3> HIDE DEF call
    <3>4. ASSUME NEW C, stack \in Seq(C), call \in C PROVE stack' \in Seq(C)
      BY <3>3, <3>4, AppendProperties
    <3> HIDE DEF Calls
    <3> QED
      BY <1>5, <3>2, <3>4
  <2> QED
    BY <2>1, <2>2
<1>7. DispatchTypeOK'
  <2>1. Messages' = Messages
    BY DEF Messages
  <2> HIDE DEF Calls, Messages
  <2> QED
    BY <1>1, <1>2, <1>6, <2>1 DEF IInv, DispatchTypeOK, Contexts
<1> QED
  BY <1>1, <1>7 DEF IInv

\* js_load: every call in progress keeps its box; the script of the new
\* context is pushed, or nothing runs.
LEMMA LoadKeepsStackInv ==
  ASSUME IInv, NEW x \in Box, NEW kind, NEW file, NEW runs \in BOOLEAN,
         RunInNewContext(kind, x, file, runs), Moves(x), status[x] \in {"absent", "live"},
         Uninformed', kind \notin {"include", "lookup"},
         kind = "new" /\ runs => status'[x] = "creating"
  PROVE  StackInv'
<1> DEFINE c == Len(contexts) + 1
           call == Call(kind, x, c, 0, NoMessage)
<1>1. context' = [context EXCEPT ![x] = c] /\ context \in [Box -> 0 .. Len(contexts)]
  BY DEF RunInNewContext, IInv, DispatchTypeOK
<1>2. call.kind = kind /\ call.box = x /\ call.ctx = c
  BY DEF Call
<1> HIDE DEF c
<1>3. context'[x] = c
  BY <1>1
<1>4. ASSUME NEW j \in DOMAIN stack
      PROVE  /\ stack[j].kind = "new" => stack[j].box # x
             /\ FitsNext(stack[j])
  <2>1. CallFits(stack[j]) /\ stack[j].box \in Box
    BY PathTyped, CallsAreTyped DEF IInv, StackInv
  <2>2. stack[j].kind = "new" => stack[j].box # x
    BY <2>1 DEF CallFits
  <2> QED
    BY <2>1, <2>2, StillFits
<1>5. CASE ~runs
  <2>1. stack' = stack
    BY <1>5 DEF RunInNewContext
  <2>2. ASSUME NEW j \in DOMAIN stack' PROVE FitsNext(stack'[j])
    BY <1>4, <2>1
  <2> QED
    BY <2>1, <2>2, FewerCalls DEF IInv
<1>6. CASE runs
  <2>1. Push(call)
    BY <1>6 DEF RunInNewContext, c
  <2> DEFINE S == Calls \cup {call}
  <2>2. Calls \subseteq S /\ call \in S /\ stack \in Seq(Calls)
    BY PathTyped
  <2> HIDE DEF call, Calls, S
  <2>3. stack \in Seq(S)
    BY <2>2, SeqMonotonic
  <2>4. /\ DOMAIN stack = 1 .. Len(stack)
        /\ DOMAIN stack' = 1 .. Len(stack) + 1
        /\ \A i \in 1 .. Len(stack) : stack'[i] = stack[i]
        /\ stack'[Len(stack) + 1] = call
        /\ Len(stack) \in Nat
    BY <2>1, <2>2, <2>3, Pushed
  <2>5. \A j \in DOMAIN stack' : j # Len(stack) + 1 => j \in DOMAIN stack /\ stack'[j] = stack[j]
    BY <2>4
  <2>6. FitsNext(call)
    BY <1>2, <1>3, <1>6 DEF FitsNext
  <2>7. ASSUME NEW j \in DOMAIN stack' PROVE FitsNext(stack'[j])
    <3>1. CASE j = Len(stack) + 1
      BY <2>4, <2>6, <3>1
    <3>2. CASE j # Len(stack) + 1
      <4>1. FitsNext(stack[j]) /\ stack'[j] = stack[j]
        BY <1>4, <2>5, <3>2
      <4> QED
        BY <4>1
    <3> QED
      BY <3>1, <3>2
  <2>8. \A i \in DOMAIN stack : stack[i].kind = "new" => stack[i].box # stack'[Len(stack) + 1].box
    BY <1>2, <1>4, <2>4
  <2> QED
    BY <2>5, <2>7, <2>8, StackInvNext DEF IInv
<1> QED
  BY <1>5, <1>6

LEMMA LoadOfLive ==
  ASSUME IInv, NEW x \in Box, status[x] = "live", UNCHANGED <<status, current>>, NEW file,
         NEW runs \in BOOLEAN, RunInNewContext("load", x, file, runs)
  PROVE  StackInv'
<1>1. Uninformed'
  BY DEF IInv, StackInv, Uninformed
<1>2. Moves(x)
  BY DEF Moves, RunInNewContext, IInv, DispatchTypeOK
<1> QED
  BY <1>1, <1>2, LoadKeepsStackInv

LEMMA ReceivesMeans ==
  ASSUME IInv, NEW x \in Box, NEW i, Receives(x, i)
  PROVE  /\ Exists(x) /\ status[x] = "live"
         /\ context[x] \in 1 .. Len(contexts)
         /\ inlets[x][i].index \in 0 .. MaxPorts - 1
<1>1. Exists(x) /\ status[x] = "live"
  BY DEF Receives, Exists
<1>2. /\ context[x] \in 1 .. Len(contexts) /\ Len(inlets[x]) \in Nat
      /\ i \in 1 .. Len(inlets[x])
  BY <1>1, Typed DEF Receives
<1>3. inlets[x][i].index = i - 1 /\ Len(inlets[x]) <= MaxPorts
  BY DEF IInv, PortsInv, InletInv, BoxInletInv, BoxesHaveInlets, Receives
<1>4. i - 1 \in 0 .. MaxPorts - 1
  BY <1>2, <1>3, PortsAssumption
<1> QED
  BY <1>1, <1>2, <1>3, <1>4

LEMMA RecompileKeepsIInv ==
  ASSUME IInv, NEW x \in Box, NEW runs \in BOOLEAN, Recompile(x, runs)
  PROVE  IInv'
<1>1. /\ RunInNewContext("load", x, path[x], runs)
      /\ UNCHANGED portVars
      /\ status' = status /\ path' = path /\ args' = args
      /\ current' = current /\ undefined' = undefined
      /\ Exists(x) /\ status[x] = "live"
  BY ReceivesMeans DEF Recompile
<1>2. path[x] \in File \cup {NoFile}
  BY PathTyped
<1>3. UNCHANGED inletVars /\ UNCHANGED outletVars /\ newOutlet \in Nat
  BY <1>1, Typed DEF portVars, inletVars, outletVars
<1>4. PortsInv' /\ BoxesHaveInlets' /\ newOutlet <= newOutlet'
  BY <1>1, <1>3, UnchangedPortsKeepInv
     DEF IInv, PortsInv, BoxesHaveInlets, Exists, inletVars, outletVars
<1>5. StackInv'
  BY <1>1, LoadOfLive
<1>6. Exists(x)' /\ \A y \in Box : y # x => (Exists(y)' <=> Exists(y))
  BY <1>1 DEF Exists
<1> QED
  BY <1>1, <1>2, <1>4, <1>5, <1>6, PathTyped, NewContextKeepsIInv

\* What a named compile and js_new have in common.
LEMMA NamedKeepsIInv ==
  ASSUME IInv, NEW x \in Box, NEW f \in File \cup {NoFile}, NEW found \in BOOLEAN,
         NEW runs \in BOOLEAN, NEW kind \in {"new", "load"},
         args' = [args EXCEPT ![x] = f], ResetPorts(x), LoadNamed(kind, x, f, found, runs),
         current' = current, undefined' = undefined, StackInv',
         status' \in [Box -> {"absent", "creating", "live", "freed"}],
         Exists(x)', \A y \in Box : y # x => (Exists(y)' <=> Exists(y))
  PROVE  IInv'
<1> DEFINE file == IF found THEN f ELSE NoFile
<1>1. RunInNewContext(kind, x, file, runs) /\ file \in File \cup {NoFile}
  BY DEF LoadNamed
<1>2. path' \in [Box -> File \cup {NoFile}] /\ args' \in [Box -> File \cup {NoFile}]
  BY PathTyped DEF LoadNamed
<1>3. PortsChanged(x)
  BY ResetChanges
<1>4. BoxesHaveInlets'
  BY <1>3 DEF IInv, BoxesHaveInlets, PortsChanged
<1> HIDE DEF file
<1> QED
  BY <1>1, <1>2, <1>3, <1>4, NewContextKeepsIInv DEF PortsChanged

LEMMA CompileNamedKeepsIInv ==
  ASSUME IInv, NEW x \in Box, NEW f \in File, NEW found \in BOOLEAN, NEW runs \in BOOLEAN,
         CompileNamed(x, f, found, runs)
  PROVE  IInv'
<1>1. /\ args' = [args EXCEPT ![x] = f]
      /\ ResetPorts(x)
      /\ LoadNamed("load", x, f, found, runs)
      /\ status' = status /\ current' = current /\ undefined' = undefined
      /\ Exists(x) /\ status[x] = "live"
  BY ReceivesMeans DEF CompileNamed
<1>2. StackInv'
  BY <1>1, LoadOfLive DEF LoadNamed
<1>3. Exists(x)' /\ \A y \in Box : y # x => (Exists(y)' <=> Exists(y))
  BY <1>1 DEF Exists
<1> QED
  BY <1>1, <1>2, <1>3, PathTyped, NamedKeepsIInv

LEMMA CreateKeepsIInv ==
  ASSUME IInv, NEW x \in Box, NEW f \in File \cup {NoFile}, NEW found \in BOOLEAN,
         NEW runs \in BOOLEAN, Create(x, f, found, runs)
  PROVE  IInv'
<1>1. /\ args' = [args EXCEPT ![x] = f]
      /\ ResetPorts(x)
      /\ LoadNamed("new", x, f, found, runs)
      /\ status' = [status EXCEPT ![x] = IF runs THEN "creating" ELSE "live"]
      /\ current' = current /\ undefined' = undefined
      /\ status[x] = "absent"
  BY DEF Create
<1>2. status' \in [Box -> {"absent", "creating", "live", "freed"}]
  BY <1>1, PathTyped
<1>3. Exists(x)' /\ \A y \in Box : y # x => (Exists(y)' <=> Exists(y))
  BY <1>1, PathTyped DEF Exists
<1>4. StackInv'
  <2> DEFINE file == IF found THEN f ELSE NoFile
  <2>1. RunInNewContext("new", x, file, runs)
    BY <1>1 DEF LoadNamed
  <2>2. Moves(x)
    BY <1>1, <2>1, PathTyped DEF Moves, RunInNewContext, IInv, DispatchTypeOK
  <2>3. Uninformed'
    BY <1>1, PathTyped DEF IInv, StackInv, Uninformed
  <2>4. runs => status'[x] = "creating"
    BY <1>1, PathTyped
  <2> HIDE DEF file
  <2> QED
    BY <1>1, <2>1, <2>2, <2>3, <2>4, LoadKeepsStackInv
<1> QED
  BY <1>1, <1>2, <1>3, <1>4, NamedKeepsIInv

-----------------------------------------------------------------------------
(* The steps of Next.                                                      *)

LEMMA FunctionCall ==
  ASSUME IInv, NEW x \in Box, NEW c \in 1 .. Len(contexts)
  PROVE  LET call == Call("function", x, c, 0, NoMessage) IN call \in Calls /\ Fits(call)
<1>1. 0 \in 0 .. newOutlet
  BY Typed
<1> QED
  BY <1>1, NoMessageTyped, CallTyped DEF ScriptKinds, Fits, CallFits, Call

LEMMA BoxStepKeepsIInv ==
  ASSUME IInv, NEW x \in Box, BoxStep(x)
  PROVE  IInv'
<1>0. /\ 0 \in 0 .. newOutlet /\ 0 \in 0 .. MaxPorts - 1
      /\ NoMessage \in Messages
  BY Typed, PortsAssumption, NoMessageTyped
<1>1. CASE Free(x)
  BY <1>1, FreeKeepsIInv
<1>2. CASE Loadbang(x)
  <2> DEFINE call == Call("lookup", x, context[x], 0, [inlet |-> 0, name |-> "loadbang"])
  <2>1. Push(call) /\ UNCHANGED <<portVars, boxVars, undefined>> /\ status[x] = "live" /\ Exists(x)
    BY <1>2 DEF Loadbang, Exists
  <2>2. [inlet |-> 0, name |-> "loadbang"] \in Messages
    BY <1>0, MessageTyped
  <2>3. call \in Calls
    BY <1>0, <2>1, <2>2, Typed, CallTyped DEF HostKinds
  <2>4. Fits(call)
    BY <2>1 DEF Fits, CallFits, Call
  <2> HIDE DEF call
  <2> QED
    BY <2>1, <2>3, <2>4, PushKeepsIInv
<1>3. CASE SetPropPorts(x)
  <2>1. Exists(x) /\ SetPorts(x) /\ UNCHANGED <<boxVars, callVars>>
    BY <1>3, ReceivesMeans DEF SetPropPorts
  <2> QED
    BY <2>1, SetPortsChanges, PortsChangeKeepsIInv
<1>4. CASE SetProp(x)
  <2>1. PICK c \in FunctionsAt(context[x]) : Push(Call("function", x, c, 0, NoMessage))
    BY <1>4 DEF SetProp
  <2> DEFINE call == Call("function", x, c, 0, NoMessage)
  <2>2. Push(call) /\ UNCHANGED <<portVars, boxVars, undefined>> /\ context[x] \in 1 .. Len(contexts)
    BY <1>4, <2>1, ReceivesMeans DEF SetProp
  <2>3. c \in 1 .. Len(contexts)
    BY <2>2, Typed DEF FunctionsAt, WithScript
  <2>4. call \in Calls /\ Fits(call)
    BY <2>3, FunctionCall
  <2> HIDE DEF call
  <2> QED
    BY <2>2, <2>4, PushKeepsIInv
<1>5. CASE GetProp(x)
  <2> DEFINE call == Call("getprop", x, context[x], 0, NoMessage)
  <2>1. /\ Push(call) /\ UNCHANGED <<portVars, boxVars, undefined>>
        /\ context[x] \in 1 .. Len(contexts) /\ status[x] = "live" /\ Exists(x)
    BY <1>5, ReceivesMeans DEF GetProp
  <2>2. call \in Calls
    BY <1>0, <2>1, CallTyped DEF HostKinds
  <2>3. Fits(call)
    BY <2>1 DEF Fits, CallFits, Call
  <2> HIDE DEF call
  <2> QED
    BY <2>1, <2>2, <2>3, PushKeepsIInv
<1>6. ASSUME NEW runs \in BOOLEAN, Recompile(x, runs) PROVE IInv'
  BY <1>6, RecompileKeepsIInv
<1>7. ASSUME NEW f \in File, NEW found \in BOOLEAN, NEW runs \in BOOLEAN,
             CompileNamed(x, f, found, runs)
      PROVE  IInv'
  BY <1>7, CompileNamedKeepsIInv
<1>8. ASSUME NEW f \in File \cup {NoFile}, NEW found \in BOOLEAN, NEW runs \in BOOLEAN,
             Create(x, f, found, runs)
      PROVE  IInv'
  BY <1>8, CreateKeepsIInv
<1>9. ASSUME NEW i \in DOMAIN inlets[x], NEW name \in Name, Message(x, i, name) PROVE IInv'
  <2> DEFINE message == [inlet |-> inlets[x][i].index, name |-> name]
             call == Call("lookup", x, context[x], 0, message)
  <2>1. /\ Push(call) /\ UNCHANGED <<portVars, boxVars, undefined>>
        /\ context[x] \in 1 .. Len(contexts) /\ status[x] = "live" /\ Exists(x)
        /\ inlets[x][i].index \in 0 .. MaxPorts - 1
    BY <1>9, ReceivesMeans DEF Message
  <2>2. message \in Messages
    BY <2>1, <1>9, MessageTyped
  <2> HIDE DEF message
  <2>3. call \in Calls
    BY <1>0, <2>1, <2>2, CallTyped DEF HostKinds
  <2>4. Fits(call)
    BY <2>1 DEF Fits, CallFits, Call
  <2> HIDE DEF call
  <2> QED
    BY <2>1, <2>3, <2>4, PushKeepsIInv
<1> QED
  BY <1>1, <1>2, <1>3, <1>4, <1>5, <1>6, <1>7, <1>8, <1>9 DEF BoxStep

LEMMA Noted ==
  ASSUME IInv, NEW call \in Calls, NoteMessage(call)
  PROVE  current' \in [Box -> Messages]
<1>1. call.box \in Box /\ call.message \in Messages
  BY DEF Calls
<1> QED
  BY <1>1, PathTyped DEF NoteMessage

LEMMA PatchIsTold ==
  ASSUME IInv, UNCHANGED boxVars
  PROVE  Uninformed'
  BY DEF IInv, StackInv, Uninformed, boxVars

LEMMA HostStepKeepsIInv ==
  ASSUME IInv, HostStep
  PROVE  IInv'
<1>0. 0 \in 0 .. newOutlet /\ stack \in Seq(Calls) /\ current \in [Box -> Messages]
  BY Typed, PathTyped
<1>1. CASE FunctionFound
  <2> DEFINE call == [Top EXCEPT !.kind = "noted"]
  <2>1. Running({"lookup"})
    BY <1>1 DEF FunctionFound
  <2>2. stack # <<>> /\ Top \in Calls /\ Top.kind = "lookup" /\ Top.box \in Box
    BY <2>1, RunningCall
  <2>3. CASE ~Exists(Top.box)
    BY <1>1, <2>3, ReachKeepsIInv DEF FunctionFound, Using, Outcomes
  <2>4. CASE Exists(Top.box)
    <3>1. call \in Calls /\ call.kind = "noted"
      BY <2>2 DEF Calls, HostKinds
    <3>2. Fits(call)
      BY <3>1 DEF Fits, CallFits
    <3>3. /\ Replace(call) /\ NoteMessage(Top)
          /\ UNCHANGED <<portVars, status, context, contexts, path, args, undefined>>
      BY <1>1, <2>4 DEF FunctionFound, Using
    <3>4. current' \in [Box -> Messages]
      BY <2>2, <3>3, Noted
    <3>5. CallFits(Top)
      <4>1. Len(stack) \in DOMAIN stack
        <5> HIDE DEF Calls
        <5> QED
          BY <1>0, <2>2, Popped
      <4> QED
        BY <4>1 DEF IInv, StackInv, Top
    <3>6. status[Top.box] = "live"
      BY <2>2, <2>4, <3>5 DEF CallFits, Exists
    <3>7. Uninformed'
      BY <1>0, <3>3, <3>6 DEF IInv, StackInv, Uninformed, NoteMessage
    <3> HIDE DEF call
    <3> QED
      BY <2>2, <3>1, <3>2, <3>3, <3>4, <3>7, ReplaceKeepsIInv
  <2> QED
    BY <2>3, <2>4
<1>2. CASE CallFunction
  <2>1. Running({"noted"})
    BY <1>2 DEF CallFunction
  <2>2. stack # <<>> /\ Top \in Calls /\ Top.ctx \in 1 .. Len(contexts)
    BY <2>1, RunningCall
  <2>3. PICK c \in FunctionsAt(Top.ctx) : Replace([Top EXCEPT !.kind = "handler", !.realm = c])
    BY <1>2 DEF CallFunction
  <2> DEFINE call == [Top EXCEPT !.kind = "handler", !.realm = c]
  <2>4. c \in 1 .. Len(contexts)
    BY <2>2, Typed DEF FunctionsAt, WithScript
  <2>5. call \in Calls /\ call.kind = "handler"
    BY <2>2, <2>4 DEF Calls, ScriptKinds
  <2>6. Fits(call)
    BY <2>5 DEF Fits, CallFits
  <2>7. /\ Replace(call) /\ current' \in [Box -> Messages] /\ Uninformed'
        /\ UNCHANGED <<portVars, status, context, contexts, path, args, undefined>>
    BY <1>0, <1>2, <2>3, PatchIsTold DEF CallFunction, boxVars
  <2> HIDE DEF call
  <2> QED
    BY <2>2, <2>5, <2>6, <2>7, ReplaceKeepsIInv
<1>3. CASE AnswerProp
  <2> DEFINE port == outlets[Top.box][1]
             call == Call("marshal", Top.box, Top.ctx, port, NoMessage)
  <2>1. Running({"getprop"})
    BY <1>3 DEF AnswerProp
  <2>2. /\ stack # <<>> /\ Top.box \in Box
        /\ Top.ctx \in 1 .. Len(contexts)
    BY <2>1, RunningCall
  <2>3. CASE ~Exists(Top.box)
    BY <1>3, <2>3, ReachKeepsIInv DEF AnswerProp, Using, Outcomes
  <2>4. CASE Exists(Top.box)
    <3>1. /\ Replace(call) /\ outlets[Top.box] # <<>>
          /\ UNCHANGED <<portVars, boxVars, undefined>>
      BY <1>3, <2>4 DEF AnswerProp, Using
    <3>2. port \in 0 .. newOutlet
      <4>1. outlets[Top.box] \in Seq(1 .. newOutlet) /\ newOutlet \in Nat
        BY <2>2 DEF IInv, PortsInv, OutletInv
      <4>2. 1 \in 1 .. Len(outlets[Top.box])
        BY <3>1, <4>1, EmptySeq, LenProperties
      <4>3. port \in 1 .. newOutlet
        BY <4>1, <4>2, ElementOfSeq
      <4> QED
        BY <4>1, <4>3
    <3> HIDE DEF port
    <3>3. call \in Calls
      BY <2>2, <3>2, NoMessageTyped, CallTyped DEF HostKinds
    <3>4. Fits(call)
      BY DEF Fits, CallFits, Call
    <3>5. /\ current' \in [Box -> Messages] /\ Uninformed'
          /\ UNCHANGED <<portVars, status, context, contexts, path, args, undefined>>
      BY <1>0, <3>1, PatchIsTold DEF boxVars
    <3> HIDE DEF call
    <3> QED
      BY <2>2, <3>1, <3>3, <3>4, <3>5, ReplaceKeepsIInv
  <2> QED
    BY <2>3, <2>4
<1>4. CASE Send
  <2> DEFINE call == [Top EXCEPT !.kind = "send"]
  <2>1. Running({"marshal"})
    BY <1>4 DEF Send
  <2>2. stack # <<>> /\ Top \in Calls
    BY <2>1, RunningCall
  <2>3. call \in Calls /\ call.kind = "send"
    BY <2>2 DEF Calls, HostKinds
  <2>4. Fits(call)
    BY <2>3 DEF Fits, CallFits
  <2>5. CASE Reach("freed outlet")
    BY <2>5, ReachKeepsIInv DEF Outcomes
  <2>6. CASE Replace(call) /\ UNCHANGED <<portVars, boxVars, undefined>>
    <3>1. /\ current' \in [Box -> Messages] /\ Uninformed'
          /\ UNCHANGED <<portVars, status, context, contexts, path, args, undefined>>
      BY <1>0, <2>6, PatchIsTold DEF boxVars
    <3> HIDE DEF call
    <3> QED
      BY <2>2, <2>3, <2>4, <2>6, <3>1, ReplaceKeepsIInv
  <2> QED
    BY <1>4, <2>5, <2>6 DEF Send
<1>5. CASE Finish
  <2>1. Running(HostKinds)
    BY <1>5 DEF Finish
  <2>2. stack # <<>> /\ Top.kind # "new"
    BY <2>1, RunningCall DEF HostKinds
  <2>3. /\ Pop /\ status' = status
        /\ UNCHANGED <<portVars, context, contexts, path, args, current, undefined>>
    BY <1>5 DEF Finish, boxVars
  <2> QED
    BY <2>2, <2>3, PopKeepsIInv
<1>6. ASSUME NEW c \in WithScript, CallBack(c) PROVE IInv'
  <2> DEFINE call == Call("function", Top.box, c, 0, NoMessage)
  <2>1. Running({"lookup", "noted", "getprop", "marshal"}) /\ Push(call) /\ UNCHANGED <<portVars, boxVars, undefined>>
    BY <1>6 DEF CallBack
  <2>2. Top.box \in Box /\ c \in 1 .. Len(contexts)
    BY <2>1, RunningCall, Typed DEF WithScript
  <2>3. call \in Calls /\ Fits(call)
    BY <2>2, FunctionCall
  <2> HIDE DEF call
  <2> QED
    BY <2>1, <2>3, PushKeepsIInv
<1> QED
  BY <1>1, <1>2, <1>3, <1>4, <1>5, <1>6 DEF HostStep

LEMMA ScriptStepKeepsIInv ==
  ASSUME IInv, ScriptStep
  PROVE  IInv'
<1>0. /\ 0 \in 0 .. newOutlet /\ newOutlet \in Nat
      /\ "freed box" \in Outcomes /\ "no such outlet" \in Outcomes
  BY Typed DEF Outcomes
<1>1. CASE Return
  <2>1. Running(ScriptKinds)
    BY <1>1 DEF Return
  <2>2. stack # <<>>
    BY <2>1, RunningCall
  <2>3. /\ Pop
        /\ status' = IF Top.kind = "new" THEN [status EXCEPT ![Top.box] = "live"] ELSE status
        /\ UNCHANGED <<portVars, context, contexts, path, args, current, undefined>>
    BY <1>1 DEF Return
  <2> QED
    BY <2>2, <2>3, PopKeepsIInv
<1>2. CASE Messnamed
  <2> DEFINE call == Call("marshal", Owner, Top.realm, 0, NoMessage)
  <2>1. Owner \in Box /\ Top.realm \in 1 .. Len(contexts)
    BY <1>2, RunningCall DEF Messnamed
  <2>2. CASE Exists(Owner)
    <3>1. Push(call) /\ UNCHANGED <<portVars, boxVars, undefined>>
      BY <1>2, <2>2 DEF Messnamed, Using
    <3>2. call \in Calls
      BY <1>0, <2>1, NoMessageTyped, CallTyped DEF HostKinds
    <3>3. Fits(call)
      BY DEF Fits, CallFits, Call
    <3> HIDE DEF call
    <3> QED
      BY <3>1, <3>2, <3>3, PushKeepsIInv
  <2> QED
    BY <1>0, <1>2, <2>2, ReachKeepsIInv DEF Messnamed, Using
<1>3. CASE Include
  BY <1>3, IncludeKeepsIInv
<1>4. CASE ReadState
  BY <1>0, <1>4, ReachKeepsIInv DEF ReadState
<1>5. CASE ResizePorts
  <2>1. Owner \in Box
    BY <1>5, RunningCall DEF ResizePorts
  <2>2. CASE Exists(Owner)
    <3>1. SetPorts(Owner) /\ UNCHANGED <<boxVars, callVars>>
      BY <1>5, <2>2 DEF ResizePorts, Using
    <3> QED
      BY <1>0, <2>1, <2>2, <3>1, SetPortsChanges, PortsChangeKeepsIInv
  <2> QED
    BY <1>0, <1>5, <2>2, ReachKeepsIInv DEF ResizePorts, Using
<1>6. ASSUME NEW n \in -1 .. MaxPorts - 1, Outlet(n) PROVE IInv'
  <2> DEFINE port == outlets[Owner][n + 1]
             call == Call("marshal", Owner, Top.realm, port, NoMessage)
  <2>1. Owner \in Box /\ Top.realm \in 1 .. Len(contexts)
    BY <1>6, RunningCall DEF Outlet
  <2>2. CASE Exists(Owner) /\ ~(n < 0)
    <3>1. n < Len(outlets[Owner]) /\ Push(call) /\ UNCHANGED <<portVars, boxVars, undefined>>
      BY <1>6, <2>2 DEF Outlet, Using
    <3>2. port \in 0 .. newOutlet
      <4>1. outlets[Owner] \in Seq(1 .. newOutlet)
        BY <2>1 DEF IInv, PortsInv, OutletInv
      <4>2. n + 1 \in 1 .. Len(outlets[Owner])
        BY <2>2, <3>1, <4>1, PortsAssumption, LenProperties
      <4>3. port \in 1 .. newOutlet
        BY <4>1, <4>2, ElementOfSeq
      <4>4. newOutlet \in Nat
        BY Typed
      <4> HIDE DEF port
      <4> QED
        BY <4>3, <4>4
    <3> HIDE DEF port
    <3>3. call \in Calls
      BY <2>1, <3>2, NoMessageTyped, CallTyped DEF HostKinds
    <3>4. Fits(call)
      BY DEF Fits, CallFits, Call
    <3> HIDE DEF call
    <3> QED
      BY <3>1, <3>3, <3>4, PushKeepsIInv
  <2>3. CASE Exists(Owner) /\ n < 0
    <3>1. Reach("no such outlet")
      BY <1>6, <2>3 DEF Outlet, Using
    <3> QED
      BY <1>0, <3>1, ReachKeepsIInv
  <2>4. CASE ~Exists(Owner)
    BY <1>0, <1>6, <2>4, ReachKeepsIInv DEF Outlet, Using
  <2> QED
    BY <2>2, <2>3, <2>4
<1>7. ASSUME NEW c \in WithScript, CallShared(c) PROVE IInv'
  <2> DEFINE call == Call("function", Top.box, c, 0, NoMessage)
  <2>1. Running(ScriptKinds) /\ Push(call) /\ UNCHANGED <<portVars, boxVars, undefined>>
    BY <1>7 DEF CallShared
  <2>2. Top.box \in Box /\ c \in 1 .. Len(contexts)
    BY <2>1, RunningCall, Typed DEF WithScript
  <2>3. call \in Calls /\ Fits(call)
    BY <2>2, FunctionCall
  <2> HIDE DEF call
  <2> QED
    BY <2>1, <2>3, PushKeepsIInv
<1> QED
  BY <1>1, <1>2, <1>3, <1>4, <1>5, <1>6, <1>7 DEF ScriptStep

LEMMA InitEstablishesIInv == Init => IInv
<1> SUFFICES ASSUME Init PROVE IInv
  OBVIOUS
<1>1. PortsInv
  BY PortsInitInv DEF Init
<1>2. contexts = <<>> /\ stack = <<>> /\ Len(contexts) = 0 /\ DOMAIN contexts = {} /\ DOMAIN stack = {}
  BY EmptySeq DEF Init
<1>3. DispatchTypeOK
  <2>1. <<>> \in Seq(Calls)
    <3> HIDE DEF Calls
    <3> QED
      BY EmptySeq
  <2>2. <<>> \in Seq([box : Box, file : File \cup {NoFile}, ran : BOOLEAN])
    BY EmptySeq
  <2>3. context \in [Box -> 0 .. Len(contexts)]
    BY <1>2 DEF Init
  <2>4. current \in [Box -> Messages]
    BY NoMessageTyped DEF Init
  <2> HIDE DEF Calls
  <2> QED
    BY <1>2, <2>1, <2>2, <2>3, <2>4 DEF Init, DispatchTypeOK
<1>4. \A x \in Box : ~Exists(x) /\ status[x] # "creating" /\ context[x] = 0 /\ Len(inlets[x]) = 0
  BY EmptySeq DEF Init, PortsInit, Exists
<1>5. BoxesHaveInlets
  <2>1. 0 <= MaxPorts
    BY PortsAssumption
  <2> QED
    BY <1>4, <2>1 DEF BoxesHaveInlets
<1>6. NewestScriptAnswers
  BY <1>4 DEF NewestScriptAnswers
<1>7. StackInv
  BY <1>2 DEF Init, StackInv, OneConstruction, Uninformed
<1> QED
  BY <1>1, <1>3, <1>5, <1>6, <1>7 DEF IInv

LEMMA StutterKeepsIInv ==
  ASSUME IInv, UNCHANGED vars
  PROVE  IInv'
<1>1. /\ UNCHANGED <<portVars, context, contexts, path, args>>
      /\ status' = status /\ current' = current /\ stack' = stack /\ undefined' = undefined
  BY DEF vars, boxVars, callVars
<1>2. /\ status' \in [Box -> {"absent", "creating", "live", "freed"}]
      /\ current' \in [Box -> Messages]
      /\ undefined' \in Outcomes
      /\ stack' \in Seq(Calls)
  BY <1>1 DEF IInv, DispatchTypeOK, Outcomes
<1>3. StackInv' /\ \A x \in Box : Exists(x)' <=> Exists(x)
  BY <1>1 DEF IInv, StackInv, CallFits, OneConstruction, Uninformed, Exists
<1> QED
  BY <1>1, <1>2, <1>3, KeepsContexts

\* The invariant holds of any number of boxes, however their calls nest.
THEOREM DispatchInvariant == Spec => []IInv
<1>1. Init => IInv
  BY InitEstablishesIInv
<1>2. IInv /\ [Next]_vars => IInv'
  <2> SUFFICES ASSUME IInv, [Next]_vars PROVE IInv'
    OBVIOUS
  <2>1. ASSUME NEW x \in Box, BoxStep(x) PROVE IInv'
    BY <2>1, BoxStepKeepsIInv
  <2> QED
    BY <2>1, HostStepKeepsIInv, ScriptStepKeepsIInv, StutterKeepsIInv DEF Next
<1> QED
  BY <1>1, <1>2, PTL DEF Spec

\* Type correctness of the boxes, the contexts and the calls in progress.
THEOREM DispatchTypeCorrect == Spec => []DispatchTypeOK
  BY DispatchInvariant, PTL DEF IInv

\* A box that exists always has the context js_load made for it last: no
\* message is answered by a script that was replaced.
THEOREM NewestScriptAlwaysAnswers == Spec => []NewestScriptAnswers
  BY DispatchInvariant, PTL DEF IInv

LEMMA ConstructionStands == IInv => ConstructionIsUndisturbed
<1> SUFFICES ASSUME IInv, NEW i \in DOMAIN stack, stack[i].kind = "new"
             PROVE  LET x == stack[i].box
                    IN  /\ status[x] = "creating"
                        /\ context[x] = stack[i].ctx
                        /\ current[x] = NoMessage
                        /\ \A j \in DOMAIN stack : stack[j].kind = "include" /\ stack[j].box = x
                             => stack[j].ctx = stack[i].ctx
  BY DEF ConstructionIsUndisturbed
<1> DEFINE x == stack[i].box
<1>1. x \in Box /\ \A j \in DOMAIN stack : CallFits(stack[j])
  BY PathTyped, CallsAreTyped DEF IInv, StackInv
<1>2. status[x] = "creating" /\ context[x] = stack[i].ctx
  BY <1>1 DEF CallFits
<1>3. current[x] = NoMessage
  BY <1>1, <1>2 DEF IInv, StackInv, Uninformed
<1>4. \A j \in DOMAIN stack : stack[j].kind = "include" /\ stack[j].box = x
        => stack[j].ctx = stack[i].ctx
  BY <1>1, <1>2 DEF CallFits
<1> QED
  BY <1>2, <1>3, <1>4

\* Nothing that happens while js_new runs a main script, nested creations,
\* compilations and deletions of other boxes among them, disturbs the box under
\* construction.
THEOREM ConstructionIsAlwaysUndisturbed == Spec => []ConstructionIsUndisturbed
  BY DispatchInvariant, ConstructionStands, PTL

-----------------------------------------------------------------------------
(* Dispatch implements Ports.                                              *)

LEMMA NextResizes ==
  ASSUME IInv, [Next]_vars
  PROVE  [PortsNext]_portVars
<1>1. ASSUME NEW x \in Box, BoxStep(x) PROVE [PortsNext]_portVars
  <2>1. CASE Free(x)
    BY <2>1 DEF Free, PortsNext
  <2>2. CASE SetPropPorts(x)
    <3>1. Exists(x) /\ SetPorts(x)
      BY <2>2, ReceivesMeans DEF SetPropPorts
    <3> QED
      BY <3>1, SetPortsChanges DEF PortsNext
  <2>3. CASE Loadbang(x) \/ SetProp(x) \/ GetProp(x)
    BY <2>3 DEF Loadbang, SetProp, GetProp
  <2>4. ASSUME NEW runs \in BOOLEAN, Recompile(x, runs) PROVE [PortsNext]_portVars
    BY <2>4 DEF Recompile
  <2>5. ASSUME NEW f, NEW found, NEW runs, CompileNamed(x, f, found, runs) \/ Create(x, f, found, runs)
        PROVE  [PortsNext]_portVars
    BY <2>5 DEF CompileNamed, Create, PortsNext
  <2>6. ASSUME NEW i, NEW name, Message(x, i, name) PROVE [PortsNext]_portVars
    BY <2>6 DEF Message
  <2> QED
    BY <1>1, <2>1, <2>2, <2>3, <2>4, <2>5, <2>6 DEF BoxStep
<1>2. CASE HostStep
  <2>1. UNCHANGED portVars
    BY <1>2 DEF HostStep, FunctionFound, CallFunction, AnswerProp, Send, Finish, CallBack, Using, Reach
  <2> QED
    BY <2>1
<1>3. CASE ScriptStep
  <2>1. CASE ResizePorts
    <3>1. Owner \in Box
      BY <2>1, RunningCall DEF ResizePorts
    <3>2. CASE Exists(Owner)
      <4>1. Exists(Owner) /\ SetPorts(Owner)
        BY <2>1, <3>2 DEF ResizePorts, Using
      <4> QED
        BY <3>1, <4>1, SetPortsChanges DEF PortsNext
    <3> QED
      BY <2>1, <3>2 DEF ResizePorts, Using, Reach
  <2>2. CASE Return \/ Messnamed \/ Include \/ ReadState
    BY <2>2 DEF Return, Messnamed, Include, ReadState, Using, Reach
  <2>3. ASSUME NEW n, Outlet(n) PROVE UNCHANGED portVars
    BY <2>3 DEF Outlet, Using, Reach
  <2>4. ASSUME NEW c, CallShared(c) PROVE UNCHANGED portVars
    BY <2>4 DEF CallShared
  <2> QED
    BY <1>3, <2>1, <2>2, <2>3, <2>4 DEF ScriptStep
<1>4. CASE UNCHANGED vars
  BY <1>4 DEF vars
<1> QED
  BY <1>1, <1>2, <1>3, <1>4 DEF Next

\* Whatever the scripts do, and however their calls nest, the ports of every
\* box behave as Ports says: all that is proved of Ports holds here.
THEOREM DispatchImplementsPorts == Spec => PortsSpec
<1>1. Init => PortsInit
  BY DEF Init
<1>2. IInv /\ [Next]_vars => [PortsNext]_portVars
  BY NextResizes
<1> QED
  BY <1>1, <1>2, DispatchInvariant, PTL DEF Spec, PortsSpec

\* So whatever the scripts do, Pd draws exactly the ports the boxes hold, an
\* inlet knows its position, and no port that stays is replaced.
THEOREM DispatchKeepsPorts ==
  Spec => [](InletsMatchPd /\ OutletsMatchPd /\ InletKnowsItsPosition) /\ SurvivorsAreKept
  BY DispatchImplementsPorts, InletsAlwaysMatchPd, OutletsAlwaysMatchPd, InletsKnowTheirPosition,
     SurvivorsAreAlwaysKept, PTL
=============================================================================
