------------------------------- MODULE Ports -------------------------------
(***************************************************************************)
(* The inlets and outlets of the js boxes (js_set_inlets, js_set_outlets). *)
(*                                                                         *)
(* A box keeps two C++ vectors, x->inlets and x->outlets; Pd keeps its own *)
(* lists of the same ports in the box's t_object.  The two are changed by  *)
(* separate calls (inlet_new/inlet_free and push_back/resize), and nothing *)
(* but the code of these functions keeps them in step.                     *)
(*                                                                         *)
(* A port is named by the number of its allocation, so a port that was     *)
(* freed is never confused with one allocated later.                       *)
(***************************************************************************)
EXTENDS Integers, Sequences

CONSTANTS
  Box,       (* the js boxes of the patch                                  *)
  MaxPorts,  (* bound: the largest number of inlets or outlets asked for   *)
  MaxAlloc   (* bound: ports of each kind ever allocated                   *)

ASSUME PortsAssumption == MaxPorts \in Nat \ {0} /\ MaxAlloc \in Nat

VARIABLES
  inlets,     (* inlets[x]: x->inlets, records of t_js_inlet               *)
  pdInlets,   (* pdInlets[x]: the inlets Pd lists for the box              *)
  newInlet,   (* number of inlets allocated so far                         *)
  outlets,    (* outlets[x]: x->outlets                                    *)
  pdOutlets,  (* pdOutlets[x]: the outlets Pd lists for the box            *)
  newOutlet   (* number of outlets allocated so far                        *)

inletVars  == <<inlets, pdInlets, newInlet>>
outletVars == <<outlets, pdOutlets, newOutlet>>
portVars   == <<inlets, pdInlets, newInlet, outlets, pdOutlets, newOutlet>>

\* What a script may assign to "inlets" or "outlets": any Int32Value.
Counts == -1 .. MaxPorts

PortsInit ==
  /\ inlets    = [x \in Box |-> <<>>]
  /\ pdInlets  = [x \in Box |-> {}]
  /\ newInlet  = 0
  /\ outlets   = [x \in Box |-> <<>>]
  /\ pdOutlets = [x \in Box |-> {}]
  /\ newOutlet = 0

-----------------------------------------------------------------------------
(* Inlets.                                                                 *)

\* A box has at least one inlet and at least zero outlets.
InletCount(n)  == IF n < 1 THEN 1 ELSE n
OutletCount(n) == IF n < 0 THEN 0 ELSE n

\* Faulty variants of InletRecord: numbering restarts, or is off by one.
InletFromZero(old, k) == [index |-> k - 1, inlet |-> newInlet + k]
InletOneEarly(old, k) == [index |-> old + k - 2, inlet |-> newInlet + k]

\* The k-th of the records appended to a vector of old inlets.
InletRecord(old, k) == [index |-> old + k - 1, inlet |-> newInlet + k]

\* Faulty variant of DroppedInlets: the loop starts one too late.
AllButOneInlet(x, size) == {inlets[x][i].inlet : i \in size + 2 .. Len(inlets[x])}

\* The inlets given back to Pd when only the first size of them stay.
DroppedInlets(x, size) == {inlets[x][i].inlet : i \in size + 1 .. Len(inlets[x])}

ShrinkInlets(x, size) ==
  /\ Len(inlets[x]) > size
  /\ pdInlets' = [pdInlets EXCEPT ![x] = @ \ DroppedInlets(x, size)]
  /\ inlets' = [inlets EXCEPT ![x] = SubSeq(@, 1, size)]
  /\ UNCHANGED newInlet

GrowInlets(x, size) ==
  LET old   == Len(inlets[x])
      added == size - old
  IN  /\ added > 0
      /\ newInlet + added <= MaxAlloc
      /\ inlets' = [inlets EXCEPT ![x] = @ \o [k \in 1 .. added |-> InletRecord(old, k)]]
      /\ pdInlets' = [pdInlets EXCEPT ![x] = @ \cup newInlet + 1 .. newInlet + added]
      /\ newInlet' = newInlet + added

SetInlets(x, n) ==
  \/ ShrinkInlets(x, InletCount(n))
  \/ GrowInlets(x, InletCount(n))
  \/ Len(inlets[x]) = InletCount(n) /\ UNCHANGED inletVars

-----------------------------------------------------------------------------
(* Outlets.                                                                *)

\* Faulty variant of DroppedOutlets: the vector shrinks, nothing is freed.
NoOutlets(x, size) == {}

\* The outlets given back to Pd when only the first size of them stay.
DroppedOutlets(x, size) == {outlets[x][i] : i \in size + 1 .. Len(outlets[x])}

ShrinkOutlets(x, size) ==
  /\ Len(outlets[x]) > size
  /\ pdOutlets' = [pdOutlets EXCEPT ![x] = @ \ DroppedOutlets(x, size)]
  /\ outlets' = [outlets EXCEPT ![x] = SubSeq(@, 1, size)]
  /\ UNCHANGED newOutlet

\* Faulty variant of GrowOutlets: all outlets are made anew, the old included.
RemakeOutlets(x, size) ==
  /\ size > Len(outlets[x])
  /\ newOutlet + size <= MaxAlloc
  /\ outlets' = [outlets EXCEPT ![x] = [k \in 1 .. size |-> newOutlet + k]]
  /\ pdOutlets' = [pdOutlets EXCEPT ![x] = newOutlet + 1 .. newOutlet + size]
  /\ newOutlet' = newOutlet + size

GrowOutlets(x, size) ==
  LET added == size - Len(outlets[x])
  IN  /\ added > 0
      /\ newOutlet + added <= MaxAlloc
      /\ outlets' = [outlets EXCEPT ![x] = @ \o [k \in 1 .. added |-> newOutlet + k]]
      /\ pdOutlets' = [pdOutlets EXCEPT ![x] = @ \cup newOutlet + 1 .. newOutlet + added]
      /\ newOutlet' = newOutlet + added

SetOutlets(x, n) ==
  \/ ShrinkOutlets(x, OutletCount(n))
  \/ GrowOutlets(x, OutletCount(n))
  \/ Len(outlets[x]) = OutletCount(n) /\ UNCHANGED outletVars

-----------------------------------------------------------------------------
(* The box's life as its ports see it.                                     *)

\* js_new, and js_anything on "compile" with a file name: one of each.
ResetPorts(x) == SetInlets(x, 1) /\ SetOutlets(x, 1)

\* js_free runs ~t_js on the vectors; Pd then frees the ports on its lists.
FreePorts(x) ==
  /\ inlets'    = [inlets EXCEPT ![x] = <<>>]
  /\ pdInlets'  = [pdInlets EXCEPT ![x] = {}]
  /\ outlets'   = [outlets EXCEPT ![x] = <<>>]
  /\ pdOutlets' = [pdOutlets EXCEPT ![x] = {}]
  /\ UNCHANGED <<newInlet, newOutlet>>

\* A box that exists has an inlet, whatever its script asked for.
HasInlets(x) == inlets[x] # <<>>

Resize(x) ==
  /\ HasInlets(x)
  /\ \E n \in Counts :
       \/ SetInlets(x, n) /\ UNCHANGED outletVars
       \/ SetOutlets(x, n) /\ UNCHANGED inletVars

PortsNext == \E x \in Box : ResetPorts(x) \/ FreePorts(x) \/ Resize(x)

PortsSpec == PortsInit /\ [][PortsNext]_portVars

-----------------------------------------------------------------------------
(* Properties.                                                             *)

\* The vectors and Pd's lists hold ports that were allocated.
PortsTypeOK ==
  /\ newInlet \in Nat
  /\ newOutlet \in Nat
  /\ inlets \in [Box -> Seq([index : Nat, inlet : 1 .. newInlet])]
  /\ outlets \in [Box -> Seq(1 .. newOutlet)]
  /\ pdInlets \in [Box -> SUBSET (1 .. newInlet)]
  /\ pdOutlets \in [Box -> SUBSET (1 .. newOutlet)]

\* Pd draws exactly the inlets js_set_inlets keeps, each once and in the
\* vector's order: no inlet is leaked and none that was freed is still held.
InletsMatchPd ==
  \A x \in Box :
    /\ pdInlets[x] = {inlets[x][i].inlet : i \in DOMAIN inlets[x]}
    /\ \A i, j \in DOMAIN inlets[x] : i < j => inlets[x][i].inlet < inlets[x][j].inlet

\* The same of js_set_outlets: outlet(n, ...) finds the n-th outlet Pd draws.
OutletsMatchPd ==
  \A x \in Box :
    /\ pdOutlets[x] = {outlets[x][i] : i \in DOMAIN outlets[x]}
    /\ \A i, j \in DOMAIN outlets[x] : i < j => outlets[x][i] < outlets[x][j]

\* After any history of growing and shrinking, the index a message reports
\* to the script ("inlet") is the position of the inlet it came in by.
InletKnowsItsPosition ==
  \A x \in Box : \A i \in DOMAIN inlets[x] : inlets[x][i].index = i - 1

Extends(s, t) == Len(s) <= Len(t) /\ \A i \in DOMAIN s : s[i] = t[i]

\* One vector before and after a step agree as far as both go.
Comparable(s, t) == Extends(s, t) \/ Extends(t, s)

SurvivorsStay ==
  \A x \in Box : Comparable(inlets[x], inlets'[x]) /\ Comparable(outlets[x], outlets'[x])

\* Resizing never replaces a port that stays: what the patch connected to
\* it remains connected.
SurvivorsAreKept == [][SurvivorsStay]_portVars
=============================================================================
