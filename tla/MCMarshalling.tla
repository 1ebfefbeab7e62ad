--------------------------- MODULE MCMarshalling ---------------------------
(* Values for TLC: every scalar the code tells apart, arrays of them, and an *)
(* array in an array.                                                        *)
EXTENDS Marshalling

MCScalar ==
  {[other |-> 0]}
    \cup {[number |-> n] : n \in {1, 77, 99}}
    \cup {[object |-> o] : o \in {"o1", "o2", "o3"}}
    \cup {[string |-> s] : s \in {"bang", "float", "symbol", "list", "setprop", "jsobject", "foo", "746256"}}

MCInArray == {[number |-> 2], [object |-> "o1"], [string |-> "jsobject"]}

MCArrays == {[array |-> s] : s \in BoundedSeq(MCInArray, 2)}

MCNested == {[array |-> <<v, [number |-> 3]>>] : v \in MCArrays}

MCPassable == MCScalar \cup MCArrays \cup MCNested

\* A property is an array of at most three numbers, strings and objects.
MCKept ==
  {[number |-> 1], [number |-> 99], [object |-> "o1"]}
    \cup {[string |-> s] : s \in {"bang", "list", "jsobject", "foo", "746256"}}

MCProperties == {[array |-> s] : s \in BoundedSeq(MCKept, 3)}

MCValue == MCPassable \cup MCInArray \cup MCProperties \cup {[number |-> 3]}

MCDepth ==
  [v \in MCValue |->
     IF v \in MCNested THEN 2 ELSE IF v \in MCArrays \cup MCProperties THEN 1 ELSE 0]

MCAddressOf ==
  [o \in {"o1", "o2", "o3"} |->
     CASE o = "o1" -> "746256" [] o = "o2" -> "746448" [] o = "o3" -> "-548864"]

MCHigh == {"o3"}

MCAtom ==
  {[float |-> 1], [float |-> 99], [pointer |-> 1]}
    \cup {[symbol |-> s] : s \in {"bang", "list", "jsobject", "foo", "746256"}}

\* Two numbers that read as addresses.
MCBits == [s \in {"float", "list"} |-> IF s = "float" THEN {77} ELSE {99}]
=============================================================================
