---------------------------- MODULE Marshalling ----------------------------
(***************************************************************************)
(* Values of JavaScript as atoms of a Pd message and back: js_unmarshal_*, *)
(* js_get_type, js_outlet_args on the sending side, js_marshal_* and the   *)
(* dispatch and the argument list of js_anything on the receiving side;    *)
(* and the commands setprop and getprop, which put the atoms of a message  *)
(* into a property of a script and send it back.  Every object that is     *)
(* sent has a handle here and keeps it; JsObjects is about the handles.    *)
(* Pd carries a message from an outlet to an inlet; what it does with the  *)
(* selectors it knows itself is part of the way.                           *)
(*                                                                         *)
(* A value is a record with the one field that names its type: number      *)
(* (one that Pd's t_float holds), string, object, array, or other          *)
(* (undefined, null, a Boolean).  An atom has the one field float, symbol  *)
(* or pointer (made by the patch only).                                    *)
(***************************************************************************)
EXTENDS Integers, SequencesExt

CONSTANTS
  Value,       (* the program's values, with the elements of its arrays    *)
  Depth,       (* Depth[v]: how deep arrays are nested in v                *)
  Passable,    (* the values a script may pass to outlet                   *)
  AddressOf,   (* AddressOf[o]: the address of o's handle, as text         *)
  High,        (* objects whose address is negative as an intptr_t: on a   *)
               (* 32-bit build, those in the upper half of the memory      *)
  Atom,        (* what the patch may pass to setprop                       *)
  Bits,        (* Bits[s]: the numbers that, as a t_float, are the same    *)
               (* bytes as the address of Pd's symbol s ("float", "list")  *)
  Windows,     (* whether the build has the command "open"                 *)
  MaxArgs      (* bound: values in one call of outlet, atoms in a setprop  *)

Is(type, v) == type \in DOMAIN v

ASSUME MarshallingAssumption ==
  /\ MaxArgs \in Nat
  /\ Windows \in BOOLEAN
  /\ DOMAIN Bits = {"float", "list"}
  /\ IsInjective(AddressOf)
  /\ "jsobject" \notin Range(AddressOf)

\* Values and atoms are of one type each, and no array contains itself.
ASSUME ValueAssumption ==
  /\ Passable \subseteq Value
  /\ Depth \in [Value -> Nat]
  /\ \A v \in Value :
       \/ Is("number", v) /\ v = [number |-> v.number]
       \/ Is("string", v) /\ v = [string |-> v.string]
       \/ Is("object", v) /\ v = [object |-> v.object] /\ v.object \in DOMAIN AddressOf
       \/ Is("other", v) /\ v = [other |-> v.other]
       \/ /\ Is("array", v) /\ v = [array |-> v.array]
          /\ v.array \in Seq(Value)
          /\ \A i \in DOMAIN v.array : Depth[v.array[i]] < Depth[v]

ASSUME AtomAssumption ==
  \A atom \in Atom :
    \/ Is("float", atom) /\ atom = [float |-> atom.float]
    \/ Is("symbol", atom) /\ atom = [symbol |-> atom.symbol]
    \/ Is("pointer", atom) /\ atom = [pointer |-> atom.pointer]

VARIABLES
  sent,      (* the arguments of outlet after the outlet's number          *)
  message,   (* the message outlet_anything is called with, or NoMessage   *)
  received,  (* the arguments a function is called with at the other end   *)
  given,     (* the atoms of setprop after the property's name             *)
  property,  (* the property's value                                       *)
  phase      (* "choose", "receive", then "done" (nothing was sent),       *)
             (* "rejected" (by Pd), "command" or "called"; "set",          *)
             (* "answered"; "overread" and "undefined" where the language  *)
             (* gives what js_anything does no meaning                     *)

propertyVars == <<given, property>>
vars == <<sent, message, received, propertyVars, phase>>

Float(n)  == [float |-> n]
Symbol(s) == [symbol |-> s]
NoMessage == [selector |-> "", argv |-> <<>>]
NoValue   == [other |-> "undefined"]

-----------------------------------------------------------------------------
(* From values to a message.                                               *)

\* The address is sent if it is positive: p > 0.
Reference(o) ==
  IF o \in High THEN <<Symbol("jsobject")>>
  ELSE <<Symbol("jsobject"), Symbol(AddressOf[o])>>

\* js_unmarshal_string: other values have the empty string for a symbol.
UnmarshalString(v) ==
  IF Is("string", v) THEN <<Symbol(v.string)>>
  ELSE IF Is("object", v) THEN Reference(v.object)
  ELSE <<Symbol("")>>

\* js_unmarshal_arg: arrays are spliced, to any depth.
Unmarshal[v \in Value] ==
  IF Is("number", v) THEN <<Float(v.number)>>
  ELSE IF Is("array", v) THEN FlattenSeq([i \in DOMAIN v.array |-> Unmarshal[v.array[i]]])
  ELSE UnmarshalString(v)

UnmarshalArg(v) == Unmarshal[v]

\* js_unmarshal_args
UnmarshalArgs(values) == FlattenSeq([i \in DOMAIN values |-> UnmarshalArg(values[i])])

\* js_get_type
GetType(argv) ==
  IF Is("symbol", argv[1]) THEN argv[1].symbol
  ELSE IF Len(argv) = 1 THEN "float" ELSE "list"

\* Faulty variant of ToMessage: the first atom is always taken for the selector.
DropFirst(argv) == [selector |-> GetType(argv), argv |-> Tail(argv)]

\* type == argv[0].a_w.w_symbol: the bytes of the first atom are compared with
\* an address, whether they are one or a number.
SameBytes(type, atom) ==
  \/ atom = Symbol(type)
  \/ Is("float", atom) /\ atom.float \in Bits[type]

\* js_outlet_args, js_messnamed: a leading symbol is the selector.
ToMessage(argv) ==
  LET type == GetType(argv)
  IN  [selector |-> type, argv |-> IF SameBytes(type, argv[1]) THEN Tail(argv) ELSE argv]

-----------------------------------------------------------------------------
(* Pd, between an outlet and an inlet (pd_typedmess).                      *)

\* "float" is for a number only, "pointer" for a pointer only.
Rejected(m) ==
  \/ m.selector = "float" /\ m.argv # <<>> /\ ~Is("float", m.argv[1])
  \/ m.selector = "pointer"

\* A bang has no arguments, "float" and "symbol" have one.
Slot(selector, argv) ==
  IF selector = "bang" THEN <<>>
  ELSE IF selector = "float" THEN <<IF argv = <<>> THEN Float(0) ELSE argv[1]>>
  ELSE IF selector = "symbol"
    THEN <<IF argv # <<>> /\ Is("symbol", argv[1]) THEN argv[1] ELSE Symbol("")>>
  ELSE argv

Delivered(m) == [m EXCEPT !.argv = Slot(m.selector, @)]

-----------------------------------------------------------------------------
(* From a message to values.                                               *)

\* js_marshal_object: the object whose handle has this address.
ObjectsAt(atom) == {o \in DOMAIN AddressOf : atom = Symbol(AddressOf[o])}

MarshalObject(atom) == [object |-> CHOOSE o \in ObjectsAt(atom) : TRUE]

\* js_marshal_atom has a value for a float and for a symbol, and none for a
\* pointer.
MarshalAtom(atom) ==
  IF Is("float", atom) THEN <<[number |-> atom.float]>>
  ELSE IF Is("symbol", atom) THEN <<[string |-> atom.symbol]>>
  ELSE <<>>

\* Where js_marshal_args finds a reference: two symbols, "jsobject" and an
\* address in the set.
ReferenceAt(argv, i) ==
  /\ argv[i] = Symbol("jsobject")
  /\ i < Len(argv)
  /\ ObjectsAt(argv[i + 1]) # {}

\* Faulty variant of MarshalArgs: the last two atoms are never looked at as a
\* reference.
MarshalButLast(argv) ==
  FlattenSeq([i \in DOMAIN argv |->
     IF i < Len(argv) - 1 /\ ReferenceAt(argv, i)
       THEN <<MarshalObject(argv[i + 1])>> ELSE MarshalAtom(argv[i])])

\* js_marshal_args: the object replaces "jsobject"; the loop then goes on to
\* marshal the atom of its address as well.
MarshalArgs(argv) ==
  FlattenSeq([i \in DOMAIN argv |->
     IF ReferenceAt(argv, i)
       THEN <<MarshalObject(argv[i + 1])>> ELSE MarshalAtom(argv[i])])

\* The messages js_anything interprets itself.
Commands == {"compile", "setprop", "getprop", "delprop"} \cup IF Windows THEN {"open"} ELSE {}

\* Faulty variant of StartsWithObject: the atom is not looked up.
StartsWithAtom(m) == m.selector = "jsobject" /\ m.argv # <<>>

\* js_anything on "jsobject": the first atom is an object.  Then argc + 1 atoms
\* are marshalled from the second on, two of them behind the message.
StartsWithObject(m) ==
  /\ m.selector = "jsobject"
  /\ m.argv # <<>>
  /\ ObjectsAt(m.argv[1]) # {}

\* Faulty variant of PropertyValue: the first value stands for all.
FirstValue(args) == args[1]

\* setprop: one value is the property, several are an array.
PropertyValue(args) == IF Len(args) > 1 THEN [array |-> args] ELSE args[1]

\* Properties are values of the program, too.
ASSUME PropertyAssumption ==
  \A n \in 1 .. MaxArgs : \A argv \in [1 .. n -> Atom] :
    MarshalArgs(argv) # <<>> => PropertyValue(MarshalArgs(argv)) \in Value

-----------------------------------------------------------------------------
Init ==
  /\ sent = <<>> /\ message = NoMessage /\ received = <<>>
  /\ given = <<>> /\ property = NoValue
  /\ phase = "choose"

Choose(v) ==
  /\ phase = "choose"
  /\ Len(sent) < MaxArgs
  /\ sent' = Append(sent, v)
  /\ UNCHANGED <<message, received, propertyVars, phase>>

\* js_outlet_args: nothing is sent for no atoms.
SendValues(values, sentPhase) ==
  LET argv == UnmarshalArgs(values)
  IN  IF argv = <<>>
        THEN phase' = "done" /\ UNCHANGED message
        ELSE phase' = sentPhase /\ message' = ToMessage(argv)

Send ==
  /\ phase = "choose"
  /\ SendValues(sent, "receive")
  /\ UNCHANGED <<sent, received, propertyVars>>

\* js_anything, where the script has a function for the message.
Receive ==
  /\ phase = "receive"
  /\ LET m == Delivered(message)
     IN  IF Rejected(message) THEN phase' = "rejected" /\ UNCHANGED received
         ELSE IF m.selector \in Commands THEN phase' = "command" /\ UNCHANGED received
         ELSE IF StartsWithObject(m) THEN phase' = "overread" /\ UNCHANGED received
         ELSE phase' = "called" /\ received' = MarshalArgs(m.argv)
  /\ UNCHANGED <<sent, message, propertyVars>>

\* "setprop name atom ...": args[0] is read also where all atoms are pointers
\* and there are no values.
SetProp(argv) ==
  /\ phase = "choose" /\ sent = <<>>
  /\ argv # <<>>
  /\ given' = argv
  /\ IF MarshalArgs(argv) = <<>>
       THEN phase' = "undefined" /\ UNCHANGED property
       ELSE phase' = "set" /\ property' = PropertyValue(MarshalArgs(argv))
  /\ UNCHANGED <<sent, message, received>>

\* "delprop name"
DelProp ==
  /\ phase = "set"
  /\ property' = NoValue
  /\ UNCHANGED <<sent, message, received, given, phase>>

\* "getprop name" sends the property by the first outlet, unless it is
\* undefined.
GetProp ==
  /\ phase = "set"
  /\ IF property = NoValue
       THEN phase' = "done" /\ UNCHANGED message
       ELSE SendValues(<<property>>, "answered")
  /\ UNCHANGED <<sent, received, propertyVars>>

Next ==
  \/ \E v \in Passable : Choose(v)
  \/ \E n \in 1 .. MaxArgs : \E argv \in [1 .. n -> Atom] : SetProp(argv)
  \/ Send \/ Receive \/ DelProp \/ GetProp

Spec == Init /\ [][Next]_vars

-----------------------------------------------------------------------------
(* Properties.                                                             *)

\* What a script passed, arrays opened: the reference for what arrives.
Open[v \in Value] ==
  IF Is("array", v) THEN FlattenSeq([i \in DOMAIN v.array |-> Open[v.array[i]]])
  ELSE IF Is("other", v) THEN <<[string |-> ""]>>
  ELSE <<v>>

Leaves(values) == FlattenSeq([i \in DOMAIN values |-> Open[values[i]]])

\* The elements of s that are in T, in the order of s.
Only(T, s) == FlattenSeq([i \in DOMAIN s |-> IF s[i] \in T THEN <<s[i]>> ELSE <<>>])

SentObjects == {[object |-> o] : o \in DOMAIN AddressOf \ High}

NoStringIsIn(texts, passed) ==
  \A v \in Range(passed) : Is("string", v) => v.string \notin texts

\* js_get_type and the erase after it: the message begins with the first symbol
\* and goes on with the rest, and "float" or "list" is added only where there
\* is no symbol.  Nothing is sent twice, and only a leading number can get
\* lost: one that reads as the address of the selector that is added.
MessageSpellsAtoms ==
  phase = "receive" =>
    LET atoms == UnmarshalArgs(sent)
    IN  IF Is("symbol", atoms[1])
          THEN atoms = <<Symbol(message.selector)>> \o message.argv
          ELSE /\ message.selector = IF Len(atoms) = 1 THEN "float" ELSE "list"
               /\ \/ message.argv = atoms
                  \/ /\ atoms[1].float \in Bits[message.selector]
                     /\ atoms = <<atoms[1]>> \o message.argv

\* What a value is at the other end: an object arrives with the text of its
\* address behind it; one whose address is not sent is the string "jsobject".
Arrival(v) ==
  IF v \in SentObjects THEN <<v, [string |-> AddressOf[v.object]]>>
  ELSE IF Is("object", v) THEN <<[string |-> "jsobject"]>>
  ELSE <<v>>

Arrivals(passed) == FlattenSeq([i \in DOMAIN passed |-> Arrival(passed[i])])

\* The first of them is the selector unless it is a number, and a number is
\* lost that reads as the address of the selector it gets.
Arguments(all) ==
  IF Is("number", all[1]) /\ all[1].number \notin Bits[IF Len(all) = 1 THEN "float" ELSE "list"]
    THEN all ELSE Tail(all)

\* What Pd's own selectors leave of the arguments.
LeftBy(selector, arguments) ==
  IF selector = "bang" THEN <<>>
  ELSE IF selector = "float"
    THEN IF arguments = <<>> THEN <<[number |-> 0]>> ELSE <<arguments[1]>>
  ELSE IF selector = "symbol"
    THEN <<IF arguments = <<>> \/ Is("number", arguments[1]) THEN [string |-> ""]
           ELSE IF Is("object", arguments[1]) THEN [string |-> "jsobject"]
           ELSE arguments[1]>>
  ELSE arguments

\* A function is called with what was sent to it and nothing else: arrays are
\* spliced to any depth, values and objects keep their order, and each object
\* comes with its address.  This holds also behind the string "jsobject", and
\* behind objects whose address is not sent; only a string that is the address
\* of an object could make a reference of a "jsobject" in front of it.
ValuesArrive ==
  LET passed == Leaves(sent)
  IN  (phase = "called" /\ NoStringIsIn(Range(AddressOf), passed)) =>
        received = LeftBy(message.selector, Arguments(Arrivals(passed)))

\* js_anything reads behind a message exactly when its first value is an object
\* that was sent with its address, and then always.
ObjectFirstIsOverread ==
  LET passed == Leaves(sent)
  IN  (phase \in {"called", "overread"} /\ NoStringIsIn(Range(AddressOf), passed)) =>
        (phase = "overread" <=> passed[1] \in SentObjects)

\* getprop answers with what setprop was given, the pointers left out, whether
\* that was one value or several, as long as there is no reference among it;
\* and only a setprop of nothing but pointers has no meaning.
PropertiesComeBack ==
  LET kept == Only({atom \in Atom : ~Is("pointer", atom)}, given)
  IN  /\ phase = "undefined" => kept = <<>>
      /\ (phase = "answered" /\ \A i \in DOMAIN given : ~ReferenceAt(given, i))
           => message = ToMessage(kept)
=============================================================================
