------------------------------ MODULE Dispatch ------------------------------
(***************************************************************************)
(* How the js boxes of a patch meet their scripts: js_new, js_load,        *)
(* js_anything, js_outlet, js_messnamed, js_include and js_require, js_set *)
(* and js_free.                                                            *)
(*                                                                         *)
(* Pd runs on one thread, but its calls nest.  A script that calls outlet  *)
(* is suspended inside outlet_anything, and what the patch does with the   *)
(* message may enter any box again, the sending one included; marshalling  *)
(* and property access may call accessors of a script.  The C++ stack is   *)
(* therefore part of the state: stack lists the calls in progress, the     *)
(* running one last.  Only the last one moves.                             *)
(*                                                                         *)
(* V8 contexts are numbered in the order of their creation.  A script may  *)
(* hold functions of any context (through jsobject or __global__), also of *)
(* a context its box has replaced or whose box is gone.                    *)
(*                                                                         *)
(* Whenever Pd has control it may also create, load and delete boxes: the  *)
(* user edits the patch, or a message does ("dynamic patching"), and then  *)
(* a box may go while its own functions are in progress.                   *)
(*                                                                         *)
(* Where the code reads memory that was freed, or outside a vector, the    *)
(* language gives no meaning to what follows: undefined says what was      *)
(* reached, and no step is taken from there.                               *)
(***************************************************************************)
EXTENDS Ports

CONSTANTS
  File,         (* script files the patch may name                         *)
  NoFile,       (* the empty path                                          *)
  Name,         (* message names other than those js_anything interprets   *)
  MaxDepth,     (* bound: calls in progress (Pd's own stack limit)         *)
  MaxContexts   (* bound: V8 contexts ever created                         *)

ASSUME DispatchAssumption ==
  /\ NoFile \notin File
  /\ MaxDepth \in Nat
  /\ MaxContexts \in Nat

VARIABLES
  status,     (* status[x]: "absent", "creating", "live" or "freed"        *)
  context,    (* context[x]: the context x->context holds, 0 for nullptr   *)
  contexts,   (* all contexts: the box their host functions are bound      *)
              (* to, the path js_load found, and whether a script ran      *)
  path,       (* path[x]: x->path                                          *)
  args,       (* args[x]: the script name in x->args                       *)
  current,    (* current[x]: x->inlet and x->messagename                   *)
  stack,      (* the calls in progress                                     *)
  undefined   (* "none", or the undefined behaviour that was reached       *)

boxVars  == <<status, context, contexts, path, args, current>>
callVars == <<stack, undefined>>
vars     == <<portVars, boxVars, callVars>>

-----------------------------------------------------------------------------
(* Calls in progress.                                                      *)

\* What js_anything notes of a message.
Messages == [inlet : 0 .. MaxPorts - 1, name : Name \cup {"loadbang", ""}]

\* int inlet = 0; string messagename;
NoMessage == [inlet |-> 0, name |-> ""]

\* A script runs in the first five: the main script (for js_new and for
\* compile), an included one, a function called by js_anything, and any other
\* function.  The others are C++ between two calls into V8 or Pd.
ScriptKinds == {"new", "load", "include", "handler", "function"}
HostKinds   == {"lookup", "noted", "getprop", "marshal", "send"}

\* box: the t_js the C++ code works for.  ctx: the context it entered.  realm:
\* the context of the function that runs, which may be another one.  port: the
\* outlet js_outlet_args was given, 0 for messnamed.  message: what js_anything
\* is delivering.
Call(kind, x, c, port, message) ==
  [kind |-> kind, box |-> x, ctx |-> c, realm |-> c, port |-> port, message |-> message]

Top == stack[Len(stack)]
Below == SubSeq(stack, 1, Len(stack) - 1)

Push(call)    == Len(stack) < MaxDepth /\ stack' = Append(stack, call)
Replace(call) == stack' = Append(Below, call)
Pop           == stack' = Below

Running(kinds) == undefined = "none" /\ stack # <<>> /\ Top.kind \in kinds

\* Pd delivers a message when nothing runs, or from inside outlet_anything
\* and pd_typedmess.
PdHasControl == undefined = "none" /\ (stack # <<>> => Top.kind = "send")

\* The box whose t_js the host functions of the running function point to.
Owner == contexts[Top.realm].box

ContextsOf(x) == {c \in DOMAIN contexts : contexts[c].box = x}

\* Functions come from scripts.  An empty context c has the host functions,
\* which a message may name.
WithScript == {c \in DOMAIN contexts : contexts[c].ran}
FunctionsAt(c) == WithScript \cup {c}

Exists(x) == status[x] \in {"creating", "live"}

Reach(what) ==
  /\ undefined' = what
  /\ UNCHANGED <<portVars, boxVars, stack>>

\* The code goes through a t_js*: the step is taken if that box still exists.
Using(x, step) == IF Exists(x) THEN step ELSE Reach("freed box")

-----------------------------------------------------------------------------
(* js_load.                                                                *)

\* Faulty variant of RunInNewContext: a context the box has is not replaced.
RunInFirstContext(kind, x, file, runs) ==
  LET c == Len(contexts) + 1
  IN  /\ c <= MaxContexts
      /\ contexts' = Append(contexts, [box |-> x, file |-> file, ran |-> runs])
      /\ context' = [context EXCEPT ![x] = IF @ = 0 THEN c ELSE @]
      /\ IF runs
           THEN file # NoFile /\ Push(Call(kind, x, c, 0, NoMessage))
           ELSE UNCHANGED stack

\* With create_context: a context of its own for the script.  A file that is
\* not found, cannot be read or does not compile leaves the context empty;
\* otherwise the script runs in it.  runs says which.
RunInNewContext(kind, x, file, runs) ==
  LET c == Len(contexts) + 1
  IN  /\ c <= MaxContexts
      /\ contexts' = Append(contexts, [box |-> x, file |-> file, ran |-> runs])
      /\ context' = [context EXCEPT ![x] = c]
      /\ IF runs
           THEN file # NoFile /\ Push(Call(kind, x, c, 0, NoMessage))
           ELSE UNCHANGED stack

\* Faulty variant of LoadNamed: a file that is not found clears the path.
LoadOrForget(kind, x, f, found, runs) ==
  /\ path' = [path EXCEPT ![x] = IF found THEN f ELSE NoFile]
  /\ RunInNewContext(kind, x, IF found THEN f ELSE NoFile, runs)

\* js_load(x, script_name): x->path changes when the file is found.
LoadNamed(kind, x, f, found, runs) ==
  /\ path' = IF found THEN [path EXCEPT ![x] = f] ELSE path
  /\ RunInNewContext(kind, x, IF found THEN f ELSE NoFile, runs)

-----------------------------------------------------------------------------
(* Pd's calls.                                                             *)

\* js_new, with or without (f = NoFile) the name of a script.  Until it
\* returns the box is in no patch and receives nothing.
Create(x, f, found, runs) ==
  /\ PdHasControl
  /\ status[x] = "absent"
  /\ found => f # NoFile
  /\ args' = [args EXCEPT ![x] = f]
  /\ ResetPorts(x)
  /\ LoadNamed("new", x, f, found, runs)
  /\ status' = [status EXCEPT ![x] = IF runs THEN "creating" ELSE "live"]
  /\ UNCHANGED <<current, undefined>>

\* Faulty variant of Free: Pd is not told of the ports that go.
FreeVectorsOnly(x) ==
  /\ PdHasControl
  /\ status[x] = "live"
  /\ status' = [status EXCEPT ![x] = "freed"]
  /\ context' = [context EXCEPT ![x] = 0]
  /\ inlets' = [inlets EXCEPT ![x] = <<>>]
  /\ outlets' = [outlets EXCEPT ![x] = <<>>]
  /\ UNCHANGED <<pdInlets, pdOutlets, newInlet, newOutlet>>
  /\ UNCHANGED <<contexts, path, args, current, callVars>>

\* js_free, then Pd's release of the ports: by the user, or by a message, also
\* one that a function of the box has sent.
Free(x) ==
  /\ PdHasControl
  /\ status[x] = "live"
  /\ status' = [status EXCEPT ![x] = "freed"]
  /\ context' = [context EXCEPT ![x] = 0]
  /\ FreePorts(x)
  /\ UNCHANGED <<contexts, path, args, current, callVars>>

\* js_anything on inlet i, as far as all messages go.
Receives(x, i) == PdHasControl /\ status[x] = "live" /\ i \in DOMAIN inlets[x]

\* "compile f ...": a new list of arguments, one port of each kind, a new
\* context.
CompileNamed(x, f, found, runs) ==
  /\ \E i \in DOMAIN inlets[x] : Receives(x, i)
  /\ args' = [args EXCEPT ![x] = f]
  /\ ResetPorts(x)
  /\ LoadNamed("load", x, f, found, runs)
  /\ UNCHANGED <<status, current, undefined>>

\* "compile": x->path again, in a new context.
Recompile(x, runs) ==
  /\ \E i \in DOMAIN inlets[x] : Receives(x, i)
  /\ RunInNewContext("load", x, path[x], runs)
  /\ UNCHANGED <<portVars, status, path, args, current, undefined>>

\* js_set on "inlets" or "outlets".
SetPorts(x) ==
  \E n \in Counts : \/ SetInlets(x, n) /\ UNCHANGED outletVars
                    \/ SetOutlets(x, n) /\ UNCHANGED inletVars

\* "setprop inlets n", "setprop outlets n".
SetPropPorts(x) ==
  /\ \E i \in DOMAIN inlets[x] : Receives(x, i)
  /\ SetPorts(x)
  /\ UNCHANGED <<boxVars, callVars>>

\* "setprop" and "delprop" of another property: a setter may run.
SetProp(x) ==
  /\ \E i \in DOMAIN inlets[x] : Receives(x, i)
  /\ \E c \in FunctionsAt(context[x]) : Push(Call("function", x, c, 0, NoMessage))
  /\ UNCHANGED <<portVars, boxVars, undefined>>

GetProp(x) ==
  /\ \E i \in DOMAIN inlets[x] : Receives(x, i)
  /\ Push(Call("getprop", x, context[x], 0, NoMessage))
  /\ UNCHANGED <<portVars, boxVars, undefined>>

\* Faulty variant of Message: the box's first script goes on answering.
MessageToFirstScript(x, i, name) ==
  /\ Receives(x, i)
  /\ \E c \in ContextsOf(x) :
       /\ \A d \in ContextsOf(x) : c <= d
       /\ Push(Call("lookup", x, c, 0, [inlet |-> inlets[x][i].index, name |-> name]))
  /\ UNCHANGED <<portVars, boxVars, undefined>>

\* Any other message: js_anything first looks for a function of that name,
\* or for "anything", in the context it found on entry.
Message(x, i, name) ==
  /\ Receives(x, i)
  /\ Push(Call("lookup", x, context[x], 0, [inlet |-> inlets[x][i].index, name |-> name]))
  /\ UNCHANGED <<portVars, boxVars, undefined>>

\* js_loadbang: Pd calls it after a patch is loaded; the message comes by no
\* inlet and is counted as inlet 0's.
Loadbang(x) ==
  /\ PdHasControl
  /\ status[x] = "live"
  /\ Push(Call("lookup", x, context[x], 0, [inlet |-> 0, name |-> "loadbang"]))
  /\ UNCHANGED <<portVars, boxVars, undefined>>

-----------------------------------------------------------------------------
(* js_anything and js_outlet_args between their calls.                     *)

\* Faulty variant of NoteMessage: inlets counted from one.
NoteMessageFromOne(call) ==
  current' = [current EXCEPT ![call.box] = [call.message EXCEPT !.inlet = @ + 1]]

\* x->inlet = inlet->index; x->messagename = msgname;
NoteMessage(call) == current' = [current EXCEPT ![call.box] = call.message]

\* A function was found: its box notes what it is called for, before the
\* function is asked whether it is private.
FunctionFound ==
  /\ Running({"lookup"})
  /\ Using(Top.box,
       /\ NoteMessage(Top)
       /\ Replace([Top EXCEPT !.kind = "noted"])
       /\ UNCHANGED <<portVars, status, context, contexts, path, args, undefined>>)

\* It is not private, and is called with the values of the message.  The global
\* that names it may hold a function of another context.
CallFunction ==
  /\ Running({"noted"})
  /\ \E c \in FunctionsAt(Top.ctx) :
       Replace([Top EXCEPT !.kind = "handler", !.realm = c])
  /\ UNCHANGED <<portVars, boxVars, undefined>>

\* getprop has its value and sends it by the first outlet, if there is one.
AnswerProp ==
  /\ Running({"getprop"})
  /\ Using(Top.box,
       /\ outlets[Top.box] # <<>>
       /\ Replace(Call("marshal", Top.box, Top.ctx, outlets[Top.box][1], NoMessage))
       /\ UNCHANGED <<portVars, boxVars, undefined>>)

\* The atoms are ready: outlet_anything or pd_typedmess is called.  Pd reads
\* the outlet's connections.
Send ==
  /\ Running({"marshal"})
  /\ IF Top.port = 0 \/ Top.port \in pdOutlets[Top.box]
       THEN /\ Replace([Top EXCEPT !.kind = "send"])
            /\ UNCHANGED <<portVars, boxVars, undefined>>
       ELSE Reach("freed outlet")

\* Reading a property or an array element, or making a string of an object,
\* may call a function of any context.
CallBack(c) ==
  /\ Running({"lookup", "noted", "getprop", "marshal"})
  /\ Push(Call("function", Top.box, c, 0, NoMessage))
  /\ UNCHANGED <<portVars, boxVars, undefined>>

\* No such function or property, a private function, nothing to send, or the
\* message delivered.
Finish ==
  /\ Running(HostKinds)
  /\ Pop
  /\ UNCHANGED <<portVars, boxVars, undefined>>

-----------------------------------------------------------------------------
(* What a running script may do.                                           *)

\* Return or throw.  js_new returns with its main script.
Return ==
  /\ Running(ScriptKinds)
  /\ Pop
  /\ status' = IF Top.kind = "new" THEN [status EXCEPT ![Top.box] = "live"] ELSE status
  /\ UNCHANGED <<portVars, context, contexts, path, args, current, undefined>>

\* Call a function that a script of another context shared.
CallShared(c) ==
  /\ Running(ScriptKinds)
  /\ c # Top.realm
  /\ Push(Call("function", Top.box, c, 0, NoMessage))
  /\ UNCHANGED <<portVars, boxVars, undefined>>

\* outlet(n, value, ...): only n < size is checked, and the outlet is fetched
\* before the values are marshalled.
Outlet(n) ==
  /\ Running(ScriptKinds)
  /\ Using(Owner,
       /\ n < Len(outlets[Owner])
       /\ IF n < 0 THEN Reach("no such outlet")
          ELSE /\ Push(Call("marshal", Owner, Top.realm, outlets[Owner][n + 1], NoMessage))
               /\ UNCHANGED <<portVars, boxVars, undefined>>)

\* messnamed(name, value, ...) to a name that is bound in Pd.
Messnamed ==
  /\ Running(ScriptKinds)
  /\ Using(Owner,
       /\ Push(Call("marshal", Owner, Top.realm, 0, NoMessage))
       /\ UNCHANGED <<portVars, boxVars, undefined>>)

\* Faulty variant of Include: js_load makes a context for the included file.
IncludeWithContext ==
  /\ Running(ScriptKinds)
  /\ Using(Owner,
       /\ RunInNewContext("include", Owner, path[Owner], TRUE)
       /\ UNCHANGED <<portVars, status, path, args, current, undefined>>)

\* include(f), require(f) of a file that is found and compiles: js_load
\* without create_context.
Include ==
  /\ Running(ScriptKinds)
  /\ Using(Owner,
       /\ Push(Call("include", Owner, context[Owner], 0, NoMessage))
       /\ contexts' = [contexts EXCEPT ![context[Owner]].ran = TRUE]
       /\ UNCHANGED <<portVars, status, context, path, args, current, undefined>>)

\* Reading inlets, outlets, inlet, messagename or jsarguments (js_get) changes
\* nothing; it too needs the box.
ReadState ==
  /\ Running(ScriptKinds)
  /\ ~Exists(Owner)
  /\ Reach("freed box")

\* inlets = n, outlets = n.
ResizePorts ==
  /\ Running(ScriptKinds)
  /\ Using(Owner, SetPorts(Owner) /\ UNCHANGED <<boxVars, callVars>>)

-----------------------------------------------------------------------------
Init ==
  /\ PortsInit
  /\ status    = [x \in Box |-> "absent"]
  /\ context   = [x \in Box |-> 0]
  /\ contexts  = <<>>
  /\ path      = [x \in Box |-> NoFile]
  /\ args      = [x \in Box |-> NoFile]
  /\ current   = [x \in Box |-> NoMessage]
  /\ stack     = <<>>
  /\ undefined = "none"

BoxStep(x) ==
  \/ Free(x)
  \/ Loadbang(x)
  \/ SetPropPorts(x)
  \/ SetProp(x)
  \/ GetProp(x)
  \/ \E runs \in BOOLEAN : Recompile(x, runs)
  \/ \E f \in File, found, runs \in BOOLEAN : CompileNamed(x, f, found, runs)
  \/ \E f \in File \cup {NoFile}, found, runs \in BOOLEAN : Create(x, f, found, runs)
  \/ \E i \in DOMAIN inlets[x], name \in Name : Message(x, i, name)

HostStep ==
  \/ FunctionFound
  \/ CallFunction
  \/ AnswerProp
  \/ Send
  \/ Finish
  \/ \E c \in WithScript : CallBack(c)

ScriptStep ==
  \/ Return
  \/ Messnamed
  \/ Include
  \/ ReadState
  \/ ResizePorts
  \/ \E n \in -1 .. MaxPorts - 1 : Outlet(n)
  \/ \E c \in WithScript : CallShared(c)

Next == (\E x \in Box : BoxStep(x)) \/ HostStep \/ ScriptStep

Spec == Init /\ [][Next]_vars
-----------------------------------------------------------------------------
(* Properties.                                                             *)

Calls ==
  [kind : ScriptKinds \cup HostKinds, box : Box,
   ctx : 1 .. Len(contexts), realm : 1 .. Len(contexts), port : 0 .. newOutlet, message : Messages]

\* The fields of t_js and the calls in progress hold values of their types.
DispatchTypeOK ==
  /\ status \in [Box -> {"absent", "creating", "live", "freed"}]
  /\ contexts \in Seq([box : Box, file : File \cup {NoFile}, ran : BOOLEAN])
  /\ context \in [Box -> 0 .. Len(contexts)]
  /\ path \in [Box -> File \cup {NoFile}]
  /\ args \in [Box -> File \cup {NoFile}]
  /\ current \in [Box -> Messages]
  /\ stack \in Seq(Calls)
  /\ undefined \in {"none", "freed box", "freed outlet", "no such outlet"}

\* js_load leaves x->context at the context it made last for the box, and
\* js_free leaves none: a message is never answered by a replaced script.
NewestScriptAnswers ==
  \A x \in Box :
    IF Exists(x)
      THEN context[x] \in ContextsOf(x) /\ \A c \in ContextsOf(x) : c <= context[x]
      ELSE context[x] = 0

\* Calls that Pd and js_load start for a box: they choose the context.
Choosing == {"new", "load", "lookup", "noted", "handler", "getprop"}

\* However scripts recompile their own box while they run, a call nested in
\* another of the same box never meets an older script than the outer one.
NestedCallsMeetNewerScripts ==
  \A i, j \in DOMAIN stack :
    (/\ i < j
     /\ stack[i].kind \in Choosing
     /\ stack[j].kind \in Choosing
     /\ stack[i].box = stack[j].box) => stack[i].ctx <= stack[j].ctx

Loaded(x) == {c \in ContextsOf(x) : contexts[c].file # NoFile}

\* x->path is the last file js_load found for a context of the box, through
\* failed compiles, recompiles, and files that were only included.
PathIsLastFound ==
  \A x \in Box : Exists(x) =>
    IF Loaded(x) = {} THEN path[x] = NoFile
    ELSE \E c \in Loaded(x) : (\A d \in Loaded(x) : d <= c) /\ contexts[c].file = path[x]

\* While js_new runs the main script of a box, the box is what that script made
\* of it, whatever else is compiled, created or deleted by the messages the
\* script sends: its context is the script's, what it includes runs in the same,
\* and it has not been told of any message.
ConstructionIsUndisturbed ==
  \A i \in DOMAIN stack : stack[i].kind = "new" =>
    LET x == stack[i].box
    IN  /\ status[x] = "creating"
        /\ context[x] = stack[i].ctx
        /\ current[x] = NoMessage
        /\ \A j \in DOMAIN stack : stack[j].kind = "include" /\ stack[j].box = x
             => stack[j].ctx = stack[i].ctx


\* test/test-require: an included file shares the globals of the script that
\* includes it ("include y y"), if that runs where its box entered it.
IncludeSharesGlobals ==
  \A i \in DOMAIN stack \ {1} :
    (/\ stack[i].kind = "include"
     /\ stack[i - 1].kind # "function"
     /\ stack[i - 1].realm = stack[i - 1].ctx) => stack[i].ctx = stack[i - 1].ctx

\* test/test-messages: what a function of the box reads in inlet and messagename
\* are those of the message it was called for.
FunctionReadsItsMessage ==
  (stack # <<>> /\ Top.kind = "handler" /\ Owner = Top.box)
    => current[Top.box] = Top.message

\* README: outlet and outlets are supported; outlet(n, ...) sends by an outlet
\* the box has.
OutletIsLive == undefined # "freed outlet"

\* test/test-compilation: jsarguments[0] names the script that runs.
ArgumentsNameTheScript ==
  \A x \in Box : (Exists(x) /\ contexts[context[x]].ran)
    => contexts[context[x]].file \in {NoFile, args[x]}
=============================================================================
