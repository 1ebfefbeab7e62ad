-------------------------- MODULE ExceptionsProofs --------------------------
(***************************************************************************)
(* Proofs about Exceptions, for any depth of calls and any number of       *)
(* values.                                                                 *)
(*                                                                         *)
(* That cut messages are noticed is not inductive: Sound says where an     *)
(* exception can be once a value was lost below a script.  It waits, and   *)
(* nothing above the message is a script, so that nobody can have caught   *)
(* it.                                                                     *)
(***************************************************************************)
EXTENDS Exceptions, SequenceLemmas

-----------------------------------------------------------------------------
(* The stack.                                                              *)

FrameSet == [kind : Kinds, left : 0 .. MaxReads, cut : BOOLEAN]

IsScript(s, i) == s[i].kind = "script"

\* A script is called by a function that is not through with its values.
ScriptsCalled(s) ==
  \A i \in 1 .. Len(s) : IsScript(s, i) => i - 1 \in 1 .. Len(s) /\ Operates(s[i - 1])

\* A value that was lost below a script has left an exception, which waits.
CutsWait(s, waits) ==
  \A i, j \in 1 .. Len(s) :
    s[i].cut /\ j < i /\ IsScript(s, j)
      => waits /\ \A k \in i .. Len(s) : ~IsScript(s, k)

Sound(s, waits) ==
  s \in Seq(FrameSet) /\ ScriptsCalled(s) /\ CutsWait(s, waits)

LEMMA Facts ==
  ASSUME NEW s, NEW waits, Sound(s, waits)
  PROVE  /\ s \in Seq(FrameSet) /\ Len(s) \in Nat /\ DOMAIN s = 1 .. Len(s)
         /\ \A i \in 1 .. Len(s) : s[i] \in FrameSet
  <1> HIDE DEF FrameSet
  <1> QED
    BY LenProperties, ElementOfSeq DEF Sound

\* The calls that stay are as they were.
LEMMA SoundBelow ==
  ASSUME NEW s, NEW waits, Sound(s, waits), NEW n \in Nat, n <= Len(s)
  PROVE  Sound(SubSeq(s, 1, n), waits)
<1> DEFINE t == SubSeq(s, 1, n)
<1>1. s \in Seq(FrameSet) /\ Len(s) \in Nat
  BY Facts
<1>2. /\ t \in Seq(FrameSet) /\ Len(t) = n
      /\ \A i \in 1 .. n : t[i] = s[i]
  <2> HIDE DEF FrameSet
  <2> QED
    BY <1>1, Prefix
<1> HIDE DEF t
<1>3. ScriptsCalled(t)
  <2> SUFFICES ASSUME NEW i \in 1 .. n, IsScript(t, i)
               PROVE  i - 1 \in 1 .. n /\ Operates(t[i - 1])
    BY <1>2 DEF ScriptsCalled
  <2>1. i \in 1 .. Len(s) /\ IsScript(s, i)
    BY <1>1, <1>2 DEF IsScript
  <2>2. i - 1 \in 1 .. Len(s) /\ Operates(s[i - 1])
    BY <2>1 DEF Sound, ScriptsCalled
  <2>3. i - 1 \in 1 .. n
    BY <2>2
  <2> QED
    BY <1>2, <2>2, <2>3
<1>4. CutsWait(t, waits)
  <2> SUFFICES ASSUME NEW i \in 1 .. n, NEW j \in 1 .. n, t[i].cut, j < i, IsScript(t, j)
               PROVE  waits /\ \A k \in i .. n : ~IsScript(t, k)
    BY <1>2 DEF CutsWait
  <2>1. i \in 1 .. Len(s) /\ j \in 1 .. Len(s) /\ s[i].cut /\ IsScript(s, j)
    BY <1>1, <1>2 DEF IsScript
  <2>2. waits /\ \A k \in i .. Len(s) : ~IsScript(s, k)
    BY <2>1 DEF Sound, CutsWait
  <2>3. \A k \in i .. n : k \in i .. Len(s) /\ k \in 1 .. n
    BY <1>1
  <2> QED
    BY <1>2, <2>2, <2>3 DEF IsScript
<1> QED
  BY <1>2, <1>3, <1>4 DEF Sound, t

\* No value was lost below a script.
NoCuts(s) == \A i, j \in 1 .. Len(s) : s[i].cut /\ j < i => ~IsScript(s, j)

\* Another call on top: a script is called by what operates, after which no
\* exception waits; a function that has lost a value has left one.
LEMMA SoundAbove ==
  ASSUME NEW s, NEW waits, Sound(s, waits), NEW later, NEW f \in FrameSet,
         f.kind = "script" => /\ Len(s) \in 1 .. Len(s) /\ Operates(s[Len(s)])
                              /\ ~f.cut
                              /\ NoCuts(s),
         f.cut => later \/ \A j \in 1 .. Len(s) : ~IsScript(s, j),
         NoCuts(s) \/ (waits => later)
  PROVE  Sound(Append(s, f), later)
<1> DEFINE t == Append(s, f)
           n == Len(s)
<1>1. s \in Seq(FrameSet) /\ n \in Nat
  BY Facts
<1>2. /\ t \in Seq(FrameSet) /\ Len(t) = n + 1
      /\ \A i \in 1 .. n : t[i] = s[i]
      /\ t[n + 1] = f
  <2> HIDE DEF FrameSet
  <2> QED
    BY <1>1, AppendProperties
<1> HIDE DEF t
<1>3. \A i \in 1 .. n + 1 : i \in 1 .. n \/ i = n + 1
  BY <1>1
<1>4. ScriptsCalled(t)
  <2> SUFFICES ASSUME NEW i \in 1 .. n + 1, IsScript(t, i)
               PROVE  i - 1 \in 1 .. n + 1 /\ Operates(t[i - 1])
    BY <1>2 DEF ScriptsCalled
  <2>1. CASE i \in 1 .. n
    <3>1. i - 1 \in 1 .. n /\ Operates(s[i - 1])
      BY <1>2, <2>1 DEF IsScript, Sound, ScriptsCalled
    <3> QED
      BY <1>1, <1>2, <3>1
  <2>2. CASE i = n + 1
    <3>1. n \in 1 .. n /\ Operates(s[n])
      BY <1>2, <2>2 DEF IsScript
    <3>2. i - 1 = n /\ t[n] = s[n]
      BY <1>1, <1>2, <2>2, <3>1
    <3> QED
      BY <1>1, <3>1, <3>2
  <2> QED
    BY <1>3, <2>1, <2>2
<1>5. CutsWait(t, later)
  <2> SUFFICES ASSUME NEW i \in 1 .. n + 1, NEW j \in 1 .. n + 1,
                      t[i].cut, j < i, IsScript(t, j)
               PROVE  later /\ \A k \in i .. n + 1 : ~IsScript(t, k)
    BY <1>2 DEF CutsWait
  <2>1. j \in 1 .. n /\ IsScript(s, j)
    BY <1>1, <1>2 DEF IsScript
  <2>2. CASE i \in 1 .. n
    <3>1. s[i].cut
      BY <1>2, <2>2
    <3>2. ~NoCuts(s)
      BY <2>1, <2>2, <3>1 DEF NoCuts
    <3>3. waits /\ \A k \in i .. n : ~IsScript(s, k)
      BY <2>1, <2>2, <3>1 DEF Sound, CutsWait
    <3>4. \A k \in i .. n + 1 : (k \in i .. n /\ k \in 1 .. n) \/ k = n + 1
      BY <1>1, <2>2
    <3>5. later /\ f.kind # "script"
      BY <3>2, <3>3
    <3> QED
      BY <1>2, <3>3, <3>4, <3>5 DEF IsScript
  <2>3. CASE i = n + 1
    <3>1. f.cut
      BY <1>2, <2>3
    <3>2. later /\ f.kind # "script"
      BY <2>1, <3>1
    <3>3. \A k \in i .. n + 1 : k = n + 1
      BY <1>1, <2>3
    <3> QED
      BY <1>2, <3>2, <3>3 DEF IsScript
  <2> QED
    BY <1>3, <2>2, <2>3
<1> QED
  BY <1>2, <1>4, <1>5 DEF Sound, t

LEMMA NobodyCut ==
  ASSUME NEW s, NEW waits, Sound(s, waits),
         ~waits \/ (Len(s) \in 1 .. Len(s) /\ IsScript(s, Len(s)))
  PROVE  NoCuts(s)
<1> SUFFICES ASSUME NEW i \in 1 .. Len(s), NEW j \in 1 .. Len(s), s[i].cut, j < i, IsScript(s, j)
             PROVE  FALSE
  BY DEF NoCuts
<1>1. waits /\ \A k \in i .. Len(s) : ~IsScript(s, k)
  BY DEF Sound, CutsWait
<1>2. Len(s) \in i .. Len(s)
  BY Facts
<1> QED
  BY <1>1, <1>2

LEMMA NobodyCutBelow ==
  ASSUME NEW s, NEW waits, Sound(s, waits), NoCuts(s), NEW n \in Nat, n <= Len(s)
  PROVE  NoCuts(SubSeq(s, 1, n))
<1>1. s \in Seq(FrameSet) /\ Len(s) \in Nat
  BY Facts
<1>2. Len(SubSeq(s, 1, n)) = n /\ \A i \in 1 .. n : SubSeq(s, 1, n)[i] = s[i]
  <2> HIDE DEF FrameSet
  <2> QED
    BY <1>1, Prefix
<1>3. \A i \in 1 .. n : i \in 1 .. Len(s)
  BY <1>1
<1> QED
  BY <1>2, <1>3 DEF NoCuts, IsScript

\* What an operation is followed by is a frame of the same function.
LEMMA FollowingTyped ==
  ASSUME NEW kind \in Operations \ Counted
  PROVE  /\ Following[kind] \subseteq Kinds \ {"script"}
         /\ kind # "report" => FollowingThrow[kind] \subseteq Kinds \ {"script"}
  BY DEF Operations, Counted, Kinds, Following, FollowingThrow

LEMMA FramesTyped ==
  ASSUME NEW kind \in Kinds, NEW f \in Frames(kind)
  PROVE  f \in FrameSet /\ f.kind = kind /\ ~f.cut
<1>1. PICK n \in 0 .. MaxReads : f = Frame(kind, n)
  BY ExceptionsAssumption DEF Frames
<1> QED
  BY <1>1 DEF Frame, FrameSet

LEMMA AfterTyped ==
  ASSUME NEW f \in FrameSet, Operates(f), NEW thrown \in BOOLEAN,
         thrown => f.kind # "report", NEW g \in After(f, thrown)
  PROVE  /\ g \in FrameSet /\ g.kind # "script"
         /\ g.cut => f.kind \in Counted /\ (f.cut \/ thrown)
<1>1. CASE f.kind \in Counted
  <2>1. g = AfterRead(f, thrown) /\ f.left > 0
    BY <1>1 DEF After, Operates
  <2>2. f.left - 1 \in 0 .. MaxReads /\ (f.cut \/ thrown) \in BOOLEAN
    BY <2>1, ExceptionsAssumption DEF FrameSet
  <2>3. g.kind = f.kind /\ (g.cut <=> (f.cut \/ thrown)) /\ g \in FrameSet
    BY <2>1, <2>2 DEF AfterRead, FrameSet
  <2> QED
    BY <1>1, <2>3 DEF Counted
<1>2. CASE f.kind \notin Counted
  <2>1. PICK k \in (IF thrown THEN FollowingThrow ELSE Following)[f.kind] : g \in Frames(k)
    BY <1>2 DEF After
  <2>2. f.kind \in Operations \ Counted
    BY <1>2 DEF Operates
  <2>3. k \in Kinds \ {"script"}
    BY <2>1, <2>2, FollowingTyped
  <2> QED
    BY <2>1, <2>3, FramesTyped
<1> QED
  BY <1>1, <1>2

-----------------------------------------------------------------------------
(* The steps.                                                              *)

IInv ==
  /\ Sound(stack, scheduled)
  /\ scheduled \in BOOLEAN
  /\ undefined \in {"none", "scheduled", "null string"}

LEMMA TopFacts ==
  ASSUME IInv, stack # <<>>
  PROVE  /\ Len(stack) \in 1 .. Len(stack) /\ Len(stack) \in Nat
         /\ Len(stack) - 1 \in Nat /\ Len(stack) - 1 <= Len(stack)
         /\ Top \in FrameSet
<1>1. stack \in Seq(FrameSet) /\ Len(stack) \in Nat
  BY Facts DEF IInv
<1>2. Len(stack) \in 1 .. Len(stack)
  <2> HIDE DEF FrameSet
  <2> QED
    BY <1>1, EmptySeq
<1>3. Top \in FrameSet
  BY <1>2, Facts DEF IInv, Top
<1> QED
  BY <1>1, <1>2, <1>3

\* The function at the top, or below the script at the top, goes on with g.
LEMMA GoesOn ==
  ASSUME IInv, NEW n \in Nat, n + 1 <= Len(stack), NEW g \in FrameSet, g.kind # "script",
         NEW later, NoCuts(stack) \/ (scheduled => later),
         g.cut => later \/ stack[n + 1].cut \/ \A j \in 1 .. n : ~IsScript(stack, j)
  PROVE  Sound(Append(SubSeq(stack, 1, n), g), later)
<1> DEFINE t == SubSeq(stack, 1, n)
<1>1. stack \in Seq(FrameSet) /\ Len(stack) \in Nat
  BY Facts DEF IInv
<1>2. n <= Len(stack) /\ Sound(t, scheduled)
  <2>1. n <= Len(stack)
    BY <1>1
  <2> QED
    BY <2>1, SoundBelow DEF IInv
<1>3. Len(t) = n /\ \A j \in 1 .. n : t[j] = stack[j]
  <2> HIDE DEF FrameSet
  <2> QED
    BY <1>1, <1>2, Prefix
<1>4. NoCuts(t) \/ (scheduled => later)
  <2>1. CASE NoCuts(stack)
    BY <1>2, <2>1, NobodyCutBelow DEF IInv
  <2> QED
    BY <2>1
<1>5. g.cut => later \/ \A j \in 1 .. n : ~IsScript(stack, j)
  <2>1. n + 1 \in 1 .. Len(stack) /\ \A j \in 1 .. n : j \in 1 .. Len(stack) /\ j < n + 1
    BY <1>1
  <2>2. CASE g.cut /\ stack[n + 1].cut /\ NoCuts(stack)
    BY <2>1, <2>2 DEF NoCuts
  <2>3. CASE g.cut /\ stack[n + 1].cut /\ (scheduled => later)
    BY <2>1, <2>3 DEF IInv, Sound, CutsWait
  <2> QED
    BY <2>2, <2>3
<1>6. g.cut => later \/ \A j \in 1 .. Len(t) : ~IsScript(t, j)
  BY <1>3, <1>5 DEF IsScript
<1> HIDE DEF t
<1>7. Sound(Append(t, g), later)
  BY <1>2, <1>4, <1>6, SoundAbove
<1> QED
  BY <1>7 DEF t

LEMMA OperateKeepsIInv ==
  ASSUME IInv, Operate
  PROVE  IInv'
<1>1. CASE scheduled
  BY <1>1 DEF Operate, IInv
<1>2. CASE ~scheduled
  <2>1. stack # <<>> /\ Operates(Top) /\ UNCHANGED <<scheduled, undefined>>
    BY <1>2 DEF Operate, Running
  <2>2. PICK g \in After(Top, FALSE) : stack' = Append(SubSeq(stack, 1, Len(stack) - 1), g)
    BY <1>2 DEF Operate, Below
  <2>3. g \in FrameSet /\ g.kind # "script" /\ (g.cut => Top.cut)
    BY <2>1, <2>2, TopFacts, AfterTyped
  <2>4. Len(stack) - 1 \in Nat /\ Len(stack) - 1 + 1 <= Len(stack)
        /\ Top = stack[Len(stack) - 1 + 1]
    BY <2>1, TopFacts DEF Top
  <2>5. Sound(stack', scheduled)
    BY <2>2, <2>3, <2>4, GoesOn
  <2> QED
    BY <2>1, <2>5 DEF IInv
<1> QED
  BY <1>1, <1>2

LEMMA FinishedKeepsIInv ==
  ASSUME IInv, Finished
  PROVE  IInv'
<1>1. stack # <<>> /\ UNCHANGED <<scheduled, undefined>>
  BY DEF Finished, Running
<1>2. PICK k \in {"send", "done"} :
        stack' = Append(SubSeq(stack, 1, Len(stack) - 1), [Top EXCEPT !.kind = k])
  BY DEF Finished, Below
<1>3. PICK g \in FrameSet : g = [Top EXCEPT !.kind = k] /\ g.kind # "script" /\ g.cut = Top.cut
  <2> DEFINE g == [Top EXCEPT !.kind = k]
  <2>1. k \in Kinds /\ k # "script"
    BY DEF Kinds
  <2>2. g \in FrameSet /\ g.kind = k /\ g.cut = Top.cut
    BY <1>1, <2>1, TopFacts DEF FrameSet
  <2>3. g = [Top EXCEPT !.kind = k]
    OBVIOUS
  <2> HIDE DEF g
  <2> QED
    BY <2>1, <2>2, <2>3
<1>4. /\ Len(stack) - 1 \in Nat /\ Len(stack) - 1 + 1 <= Len(stack)
      /\ Top = stack[Len(stack) - 1 + 1]
  BY <1>1, TopFacts DEF Top
<1>5. Sound(stack', scheduled)
  BY <1>2, <1>3, <1>4, GoesOn
<1> QED
  BY <1>1, <1>5 DEF IInv

LEMMA LeaveKeepsIInv ==
  ASSUME IInv, Leave
  PROVE  IInv'
<1>1. stack # <<>> /\ UNCHANGED <<scheduled, undefined>>
      /\ stack' = SubSeq(stack, 1, Len(stack) - 1)
  BY DEF Leave, Running, Below
<1>2. Sound(stack', scheduled)
  BY <1>1, TopFacts, SoundBelow DEF IInv
<1> QED
  BY <1>1, <1>2 DEF IInv

\* Deliver, CallHost, RunScript: one more call.
LEMMA PushKeepsIInv ==
  ASSUME IInv, NEW f \in FrameSet, ~f.cut, stack' = stack \o <<f>>,
         f.kind = "script" => stack # <<>> /\ Operates(Top) /\ ~scheduled,
         UNCHANGED <<scheduled, undefined>>
  PROVE  IInv'
<1>1. stack \in Seq(FrameSet)
  BY Facts DEF IInv
<1>2. stack' = Append(stack, f)
  <2> HIDE DEF FrameSet
  <2> QED
    BY <1>1, AppendIsConcat
<1>3. f.kind = "script" => /\ Len(stack) \in 1 .. Len(stack)
                           /\ Operates(stack[Len(stack)])
                           /\ NoCuts(stack)
  BY TopFacts, NobodyCut DEF IInv, Top
<1>4. Sound(Append(stack, f), scheduled)
  BY <1>3, SoundAbove DEF IInv
<1> QED
  BY <1>2, <1>4 DEF IInv

LEMMA RunScriptKeepsIInv ==
  ASSUME IInv, RunScript
  PROVE  IInv'
<1>1. Frame("script", 0) \in FrameSet /\ ~Frame("script", 0).cut
  BY ExceptionsAssumption DEF Frame, FrameSet, Kinds
<1>2. /\ stack # <<>> /\ Operates(Top) /\ ~scheduled
      /\ stack' = stack \o <<Frame("script", 0)>>
      /\ UNCHANGED <<scheduled, undefined>>
  BY DEF RunScript, Running, Push
<1> QED
  BY <1>1, <1>2, PushKeepsIInv

LEMMA CallKeepsIInv ==
  ASSUME IInv, NEW kind \in Operations, Deliver(kind) \/ CallHost(kind)
  PROVE  IInv'
<1>1. PICK f \in Frames(kind) : Push(<<f>>)
  BY DEF Deliver, CallHost
<1>2. f \in FrameSet /\ f.kind # "script" /\ ~f.cut
  BY FramesTyped DEF Kinds, Operations
<1>3. stack' = stack \o <<f>> /\ UNCHANGED <<scheduled, undefined>>
  BY <1>1 DEF Push, Deliver, CallHost
<1> QED
  BY <1>2, <1>3, PushKeepsIInv

LEMMA RequireKeepsIInv ==
  ASSUME IInv, Require
  PROVE  IInv'
<1> DEFINE f == Frame("require", 0)
           g == Frame("load", 0)
<1>1. /\ f \in FrameSet /\ ~f.cut /\ f.kind # "script"
      /\ g \in FrameSet /\ ~g.cut /\ g.kind # "script"
  BY ExceptionsAssumption DEF Frame, FrameSet, Kinds, Operations
<1>2. stack' = stack \o <<f, g>> /\ UNCHANGED <<scheduled, undefined>>
  BY DEF Require, Push
<1> HIDE DEF f, g
<1>3. stack \in Seq(FrameSet)
  BY Facts DEF IInv
<1>4. stack \o <<f, g>> = Append(Append(stack, f), g)
  <2> HIDE DEF FrameSet
  <2>1. <<f, g>> = <<f>> \o <<g>> /\ <<f>> \in Seq(FrameSet) /\ <<g>> \in Seq(FrameSet)
    <3>1. <<f>> \in Seq(FrameSet) /\ <<g>> \in Seq(FrameSet)
      BY <1>1
    <3>2. /\ <<f>> \o <<g>> \in Seq(FrameSet) /\ Len(<<f>> \o <<g>>) = 2
          /\ (<<f>> \o <<g>>)[1] = f /\ (<<f>> \o <<g>>)[2] = g
      BY <3>1, ConcatProperties
    <3>3. <<f, g>> \in Seq(FrameSet) /\ Len(<<f, g>>) = 2 /\ <<f, g>>[1] = f /\ <<f, g>>[2] = g
      BY <1>1
    <3>4. \A i \in 1 .. 2 : i = 1 \/ i = 2
      OBVIOUS
    <3>5. <<f, g>> = <<f>> \o <<g>>
      BY <3>2, <3>3, <3>4, SeqEqual
    <3> QED
      BY <3>1, <3>5
  <2>2. stack \o (<<f>> \o <<g>>) = (stack \o <<f>>) \o <<g>>
    BY <1>3, <2>1, ConcatAssociative
  <2>3. Append(stack, f) = stack \o <<f>> /\ Append(stack, f) \in Seq(FrameSet)
    BY <1>1, <1>3, AppendIsConcat, AppendProperties
  <2>4. Append(Append(stack, f), g) = Append(stack, f) \o <<g>>
    BY <1>1, <2>3, AppendIsConcat
  <2> QED
    BY <2>1, <2>2, <2>3, <2>4
<1>5. Sound(Append(stack, f), scheduled)
  BY <1>1, SoundAbove DEF IInv
<1>6. Sound(Append(Append(stack, f), g), scheduled)
  BY <1>1, <1>5, SoundAbove
<1> QED
  BY <1>2, <1>4, <1>6 DEF IInv

\* A script is on top: what called it operates, and no message is cut.
LEMMA ScriptFacts ==
  ASSUME IInv, Running({"script"})
  PROVE  /\ Len(stack) - 1 \in 1 .. Len(stack) /\ Len(stack) \in Nat
         /\ stack[Len(stack) - 1] \in FrameSet /\ Operates(stack[Len(stack) - 1])
         /\ NoCuts(stack)
         /\ Len(stack) - 2 \in Nat /\ Len(stack) - 2 + 1 = Len(stack) - 1
<1>1. stack # <<>> /\ Top.kind = "script"
  BY DEF Running
<1>2. Len(stack) \in 1 .. Len(stack) /\ Len(stack) \in Nat /\ IsScript(stack, Len(stack))
  BY <1>1, TopFacts DEF IsScript, Top
<1>3. Len(stack) - 1 \in 1 .. Len(stack) /\ Operates(stack[Len(stack) - 1])
  BY <1>2 DEF IInv, Sound, ScriptsCalled
<1>4. NoCuts(stack)
  BY <1>2, NobodyCut DEF IInv
<1>5. stack[Len(stack) - 1] \in FrameSet
  BY <1>3, Facts DEF IInv
<1>6. Len(stack) - 2 \in Nat /\ Len(stack) - 2 + 1 = Len(stack) - 1
  BY <1>2, <1>3
<1> QED
  BY <1>2, <1>3, <1>4, <1>5, <1>6

LEMMA ReturnKeepsIInv ==
  ASSUME IInv, Return
  PROVE  IInv'
<1> DEFINE f == stack[Len(stack) - 1]
<1>1. Running({"script"}) /\ UNCHANGED <<scheduled, undefined>>
  BY DEF Return
<1>2. PICK g \in After(f, FALSE) : stack' = Append(SubSeq(stack, 1, Len(stack) - 2), g)
  BY DEF Return, Below
<1>3. g \in FrameSet /\ g.kind # "script" /\ (g.cut => f.cut)
  BY <1>1, <1>2, ScriptFacts, AfterTyped
<1>4. Sound(stack', scheduled)
  BY <1>1, <1>2, <1>3, ScriptFacts, GoesOn
<1> QED
  BY <1>1, <1>4 DEF IInv

LEMMA CatchKeepsIInv ==
  ASSUME IInv, Catch
  PROVE  IInv'
<1>1. NoCuts(stack) /\ scheduled' = FALSE /\ UNCHANGED <<stack, undefined>>
  BY ScriptFacts DEF Catch
<1>2. CutsWait(stack, FALSE)
  BY <1>1 DEF NoCuts, CutsWait
<1>3. Sound(stack, FALSE)
  BY <1>2 DEF IInv, Sound
<1> QED
  BY <1>1, <1>3 DEF IInv

LEMMA ResizeKeepsIInv ==
  ASSUME IInv, NEW i \in DOMAIN stack, NEW n \in 1 .. MaxReads, Resize(i, n)
  PROVE  IInv'
<1>1. /\ Running({"script"}) /\ stack[i].kind = "convert"
      /\ stack' = [stack EXCEPT ![i].left = n]
      /\ UNCHANGED <<scheduled, undefined>>
  BY DEF Resize
<1>2. stack \in Seq(FrameSet) /\ i \in 1 .. Len(stack) /\ stack[i] \in FrameSet
  BY Facts DEF IInv
<1>3. PICK g \in FrameSet : /\ g = [stack[i] EXCEPT !.left = n]
                            /\ g.kind = "convert" /\ g.left = n /\ g.cut = stack[i].cut
  <2> DEFINE g == [stack[i] EXCEPT !.left = n]
  <2>1. g \in FrameSet /\ g.kind = "convert" /\ g.left = n /\ g.cut = stack[i].cut
    BY <1>1, <1>2, ExceptionsAssumption DEF FrameSet
  <2>2. g = [stack[i] EXCEPT !.left = n]
    OBVIOUS
  <2> HIDE DEF g
  <2> QED
    BY <2>1, <2>2
<1>4. stack' = [stack EXCEPT ![i] = g]
  BY <1>1, <1>3
<1>5. /\ stack' \in Seq(FrameSet) /\ Len(stack') = Len(stack)
      /\ \A j \in 1 .. Len(stack) : stack'[j] = IF j = i THEN g ELSE stack[j]
  <2> HIDE DEF FrameSet
  <2> QED
    BY <1>2, <1>4, ExceptSeq
<1>6. \A j \in 1 .. Len(stack) : /\ stack'[j].kind = stack[j].kind
                                 /\ stack'[j].cut = stack[j].cut
                                 /\ Operates(stack[j]) => Operates(stack'[j])
  <2>1. Operates(g)
    BY <1>3, ExceptionsAssumption DEF Operates, Operations
  <2> QED
    BY <1>1, <1>3, <1>5, <2>1
<1>7. ScriptsCalled(stack')
  <2> SUFFICES ASSUME NEW j \in 1 .. Len(stack), IsScript(stack', j)
               PROVE  j - 1 \in 1 .. Len(stack) /\ Operates(stack'[j - 1])
    BY <1>5 DEF ScriptsCalled
  <2>1. IsScript(stack, j)
    BY <1>6 DEF IsScript
  <2>2. j - 1 \in 1 .. Len(stack) /\ Operates(stack[j - 1])
    BY <2>1 DEF IInv, Sound, ScriptsCalled
  <2> QED
    BY <1>6, <2>2
<1>8. CutsWait(stack', scheduled)
  <2>1. NoCuts(stack)
    BY <1>1, ScriptFacts
  <2>2. NoCuts(stack')
    BY <1>5, <1>6, <2>1 DEF NoCuts, IsScript
  <2> QED
    BY <2>2 DEF NoCuts, CutsWait
<1>9. Sound(stack', scheduled)
  BY <1>5, <1>7, <1>8 DEF Sound
<1> QED
  BY <1>1, <1>9 DEF IInv

\* A value that is lost below a script leaves an exception for it.
LEMMA ThrowKeepsIInv ==
  ASSUME IInv, Throw
  PROVE  IInv'
<1> DEFINE f == stack[Len(stack) - 1]
           n == Len(stack) - 2
<1>1. /\ Running({"script"})
      /\ \/ /\ f.kind \in {"text", "report"}
            /\ undefined' = "null string"
            /\ UNCHANGED <<stack, scheduled>>
         \/ /\ f.kind = "convert"
            /\ stack' = Append(SubSeq(stack, 1, n), AfterRead(f, FALSE))
            /\ scheduled' = FALSE
            /\ UNCHANGED undefined
         \/ /\ f.kind \notin {"text", "report"}
            /\ \E g \in After(f, TRUE) : stack' = Append(SubSeq(stack, 1, n), g)
            /\ scheduled' = (f.kind \notin Guarded /\ ScriptIn(SubSeq(stack, 1, n)))
            /\ UNCHANGED undefined
  BY DEF Throw, Below
<1>2. /\ f \in FrameSet /\ Operates(f) /\ NoCuts(stack)
      /\ n \in Nat /\ n + 1 <= Len(stack) /\ stack[n + 1] = f
  <2>1. /\ f \in FrameSet /\ Operates(f) /\ NoCuts(stack)
        /\ Len(stack) - 1 \in 1 .. Len(stack) /\ Len(stack) \in Nat
        /\ n \in Nat /\ n + 1 = Len(stack) - 1
    BY <1>1, ScriptFacts
  <2> HIDE DEF n
  <2>2. n + 1 <= Len(stack)
    BY <2>1
  <2>3. stack[n + 1] = f
    BY <2>1
  <2> QED
    BY <2>1, <2>2, <2>3
<1>4. CASE f.kind \in {"text", "report"} /\ UNCHANGED <<stack, scheduled>>
           /\ undefined' = "null string"
  BY <1>4 DEF IInv
<1>5. CASE /\ f.kind = "convert" /\ scheduled' = FALSE /\ UNCHANGED undefined
           /\ stack' = Append(SubSeq(stack, 1, n), AfterRead(f, FALSE))
  <2>1. AfterRead(f, FALSE) \in After(f, FALSE)
    BY <1>5 DEF After, Counted
  <2>2. PICK g \in After(f, FALSE) : g = AfterRead(f, FALSE)
    BY <2>1
  <2>3. g \in FrameSet /\ g.kind # "script" /\ (g.cut => stack[n + 1].cut)
    BY <1>2, AfterTyped
  <2> HIDE DEF f, n
  <2>4. Sound(Append(SubSeq(stack, 1, n), g), FALSE)
    BY <1>2, <2>3, GoesOn
  <2> QED
    BY <1>5, <2>2, <2>4 DEF IInv
<1>6. CASE /\ f.kind \notin {"text", "report"} /\ UNCHANGED undefined
           /\ \E g \in After(f, TRUE) : stack' = Append(SubSeq(stack, 1, n), g)
           /\ scheduled' = (f.kind \notin Guarded /\ ScriptIn(SubSeq(stack, 1, n)))
  <2> HIDE DEF f, n
  <2>1. PICK g \in After(f, TRUE) : stack' = Append(SubSeq(stack, 1, n), g)
    BY <1>6
  <2>2. g \in FrameSet /\ g.kind # "script" /\ (g.cut => f.kind \in Counted)
    BY <1>2, <1>6, AfterTyped
  <2>3. PICK later \in BOOLEAN : later = scheduled'
    BY <1>6
  <2>4. g.cut => later \/ \A j \in 1 .. n : ~IsScript(stack, j)
    <3>1. g.cut => f.kind \notin Guarded
      BY <1>6, <2>2 DEF Counted, Guarded
    <3>2. /\ DOMAIN SubSeq(stack, 1, n) = 1 .. n
          /\ \A j \in 1 .. n : SubSeq(stack, 1, n)[j] = stack[j]
      <4>1. stack \in Seq(FrameSet) /\ Len(stack) \in Nat
        BY Facts DEF IInv
      <4>2. n <= Len(stack)
        BY <1>2, <4>1
      <4> HIDE DEF FrameSet
      <4> QED
        BY <1>2, <4>1, <4>2, Prefix
    <3>3. ScriptIn(SubSeq(stack, 1, n)) \/ \A j \in 1 .. n : ~IsScript(stack, j)
      BY <3>2 DEF ScriptIn, IsScript
    <3> QED
      BY <1>6, <2>3, <3>1, <3>3
  <2>5. Sound(Append(SubSeq(stack, 1, n), g), later)
    BY <1>2, <2>2, <2>4, GoesOn
  <2> QED
    BY <1>6, <2>1, <2>3, <2>5 DEF IInv
<1> QED
  BY <1>1, <1>4, <1>5, <1>6

-----------------------------------------------------------------------------
(* The specification.                                                      *)

LEMMA Implied ==
  IInv => ExceptionsTypeOK /\ CutMessagesAreNoticed
<1> SUFFICES ASSUME IInv PROVE ExceptionsTypeOK /\ CutMessagesAreNoticed
  OBVIOUS
<1>1. ExceptionsTypeOK
  BY DEF IInv, Sound, FrameSet, ExceptionsTypeOK
<1>2. CutMessagesAreNoticed
  <2> SUFFICES ASSUME NEW i \in DOMAIN stack, stack[i].kind = "send", stack[i].cut,
                      ScriptIn(SubSeq(stack, 1, i))
               PROVE  scheduled
    BY DEF CutMessagesAreNoticed
  <2>1. stack \in Seq(FrameSet) /\ i \in 1 .. Len(stack) /\ Len(stack) \in Nat
    BY Facts DEF IInv
  <2>2. /\ DOMAIN SubSeq(stack, 1, i) = 1 .. i
        /\ \A j \in 1 .. i : SubSeq(stack, 1, i)[j] = stack[j]
    <3>1. i \in Nat /\ i <= Len(stack)
      BY <2>1
    <3> HIDE DEF FrameSet
    <3> QED
      BY <2>1, <3>1, Prefix
  <2>3. PICK j \in 1 .. i : IsScript(stack, j)
    BY <2>2 DEF ScriptIn, IsScript
  <2>4. j \in 1 .. Len(stack) /\ j < i
    BY <2>1, <2>3 DEF IsScript
  <2> QED
    BY <2>1, <2>3, <2>4 DEF IInv, Sound, CutsWait
<1> QED
  BY <1>1, <1>2

\* The invariant holds whatever scripts throw and whatever patches answer.
THEOREM ExceptionsInvariant == Spec => []IInv
<1>1. Init => IInv
  <2> SUFFICES ASSUME Init PROVE IInv
    OBVIOUS
  <2>1. stack \in Seq(FrameSet) /\ Len(stack) = 0
    <3> HIDE DEF FrameSet
    <3> QED
      BY EmptySeq DEF Init
  <2>2. \A i \in 1 .. Len(stack) : FALSE
    BY <2>1
  <2>3. ScriptsCalled(stack) /\ CutsWait(stack, scheduled)
    BY <2>2 DEF ScriptsCalled, CutsWait
  <2> QED
    BY <2>1, <2>3 DEF Init, IInv, Sound
<1>2. IInv /\ [Next]_vars => IInv'
  <2> SUFFICES ASSUME IInv, [Next]_vars PROVE IInv'
    OBVIOUS
  <2>1. CASE UNCHANGED vars
    BY <2>1 DEF vars, IInv
  <2>2. CASE Operate \/ RunScript \/ Finished \/ Leave
    BY <2>2, OperateKeepsIInv, RunScriptKeepsIInv, FinishedKeepsIInv, LeaveKeepsIInv
  <2>3. ASSUME NEW kind \in {"load", "lookup", "property", "argument", "text"},
               Deliver(kind) \/ CallHost(kind)
        PROVE  IInv'
    BY <2>3, CallKeepsIInv DEF Operations
  <2>4. CASE Require \/ Return \/ Throw \/ Catch
    BY <2>4, RequireKeepsIInv, ReturnKeepsIInv, ThrowKeepsIInv, CatchKeepsIInv
  <2>5. ASSUME NEW i \in DOMAIN stack, NEW n \in 1 .. MaxReads, Resize(i, n) PROVE IInv'
    BY <2>5, ResizeKeepsIInv
  <2> QED
    BY <2>1, <2>2, <2>3, <2>4, <2>5 DEF Next
<1> QED
  BY <1>1, <1>2, PTL DEF Spec

\* Type correctness: in particular no loop over values counts below zero.
THEOREM ExceptionsTypeCorrect == Spec => []ExceptionsTypeOK
  BY ExceptionsInvariant, Implied, PTL

\* Whoever sends a message from which a value was lost is told: the exception
\* waits for the script below until outlet or messnamed returns.
THEOREM CutMessagesAreAlwaysNoticed == Spec => []CutMessagesAreNoticed
  BY ExceptionsInvariant, Implied, PTL
=============================================================================
