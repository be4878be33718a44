------------------------ MODULE InOrderWindowProofs ------------------------
(***************************************************************************)
(* The safety of InOrderWindow, for any number of jobs, any width and any  *)
(* number of replies held per slot.                                        *)
(***************************************************************************)
EXTENDS InOrderWindow, FiniteSetTheorems, TLAPS

(* How many jobs a window head .. drawn has.                               *)
LEMMA WindowSize ==
    ASSUME NEW a \in Nat, NEW b \in Nat, a <= b + 1, a >= 1
    PROVE  IsFiniteSet(a .. b) /\ Cardinality(a .. b) = b - a + 1
<1>1. IsFiniteSet(a .. b) /\ Cardinality(a .. b) = IF a > b THEN 0 ELSE b - a + 1
  BY FS_Interval
<1> QED BY <1>1

(* The limit on the replies held is a positive number.                     *)
LEMMA HeldIsPositive == Held \in Nat /\ Held >= 1
<1>1. \A x, y \in Nat \ {0} : x * y \in Nat /\ x * y >= 1
  BY SMT
<1> QED BY <1>1, SizesAssumption DEF Held

(* A window that lost jobs, or calls that returned, is still bounded.      *)
LEMMA StaysBounded ==
    ASSUME TypeOK, Bounded, drawn' \in Nat, head' \in Nat, 1 <= head',
           head' <= drawn' + 1, Window' \subseteq Window, Out' \subseteq Out
    PROVE  Bounded'
<1>1. IsFiniteSet(Window)
  BY WindowSize, SizesAssumption DEF TypeOK, Window
<1>2. Out \subseteq Window
  BY DEF Out
<1>3. IsFiniteSet(Out)
  BY <1>1, <1>2, FS_Subset
<1>4. /\ Cardinality(Out') <= Cardinality(Out)
      /\ Cardinality(Window') <= Cardinality(Window)
  BY <1>1, <1>3, FS_Subset
<1>5. /\ Cardinality(Out) \in Nat /\ Cardinality(Window) \in Nat
      /\ Cardinality(Out') \in Nat /\ Cardinality(Window') \in Nat
  BY <1>1, <1>3, FS_Subset, FS_CardinalityType
<1> QED BY <1>4, <1>5, HeldIsPositive, SizesAssumption DEF Bounded, Held

(* The inductive invariant: one step of the proof for each thing the main  *)
(* thread or a call can do.                                                *)
THEOREM WindowInvariant == Spec => []WindowInv
<1> USE SizesAssumption
<1>1. Init => WindowInv
  <2> SUFFICES ASSUME Init PROVE WindowInv
    OBVIOUS
  <2>1. TypeOK /\ Settled /\ LookedUp /\ Emptied
    BY DEF Init, TypeOK, Place, Settled, LookedUp, Emptied
  <2>2. Window = {} /\ Out = {}
    BY DEF Init, Window, Out
  <2>3. Bounded
    BY <2>2, FS_EmptySet, HeldIsPositive DEF Bounded
  <2> QED BY <2>1, <2>3 DEF WindowInv
<1>2. WindowInv /\ [Next]_vars => WindowInv'
  <2> SUFFICES ASSUME WindowInv, [Next]_vars PROVE WindowInv'
    OBVIOUS
  <2> USE DEF WindowInv
  <2>1. ASSUME NEW j \in Job, Answer(j) PROVE WindowInv'
    <3>1. TypeOK'
      <4>1. raised' \subseteq 1 .. drawn
        BY <2>1 DEF Answer, TypeOK
      <4> QED BY <2>1, <4>1 DEF Answer, TypeOK
    <3>2. raised \subseteq raised'
      BY <2>1 DEF Answer
    <3>3. Settled' /\ Emptied'
      BY <2>1, <3>2 DEF Answer, Settled, Emptied
    <3>4. Window' = Window /\ Out' \subseteq Out
      BY <2>1 DEF Answer, Window, Out, Done
    <3>5. LookedUp'
      BY <2>1, <3>4 DEF Answer, LookedUp
    <3>6. Bounded'
      BY <3>1, <3>4, StaysBounded DEF TypeOK
    <3> QED BY <3>1, <3>3, <3>5, <3>6
  <2>2. CASE Take
    <3>1. TypeOK'
      BY <2>2 DEF Take, TypeOK
    <3>2. Settled' /\ Emptied' /\ LookedUp'
      BY <2>2 DEF Take, TypeOK, Settled, Emptied, LookedUp
    <3>3. Window' \subseteq Window /\ Out' \subseteq Out
      BY <2>2 DEF Take, TypeOK, Window, Out, Done
    <3>4. Bounded'
      BY <3>1, <3>3, StaysBounded DEF TypeOK
    <3> QED BY <3>1, <3>2, <3>4
  <2>3. CASE Finish
    <3>1. TypeOK'
      BY <2>3 DEF Finish, TypeOK
    <3>2. Window' = Window /\ Out' = Out
      BY <2>3 DEF Finish, Window, Out, Done
    <3>3. Settled' /\ Emptied' /\ LookedUp'
      BY <2>3, <3>2 DEF Finish, TypeOK, Settled, Emptied, LookedUp
    <3>4. Bounded'
      BY <3>2 DEF Bounded, Held
    <3> QED BY <3>1, <3>3, <3>4
  <2>4. CASE FinishRaises
    <3>1. TypeOK'
      BY <2>4 DEF FinishRaises, Error, TypeOK, Place
    <3>2. Window' = Window /\ Out' = Out
      BY <2>4 DEF FinishRaises, Window, Out, Done
    <3>3. Settled' /\ Emptied' /\ LookedUp'
      BY <2>4, <3>2 DEF FinishRaises, Error, TypeOK, Settled, Emptied, LookedUp
    <3>4. Bounded'
      BY <3>2 DEF Bounded, Held
    <3> QED BY <3>1, <3>3, <3>4
  <2>5. CASE NoneDone
    <3>1. Window' = Window /\ Out' = Out
      BY <2>5 DEF NoneDone, Window, Out, Done
    <3>2. Out \subseteq Window
      BY DEF Out
    <3>3. TypeOK'
      BY <2>5, <3>2 DEF NoneDone, TypeOK, Place, Window
    <3>4. Settled' /\ Emptied'
      BY <2>5 DEF NoneDone, TypeOK, Settled, Emptied
    <3>5. LookedUp'
      BY <2>5, <3>1, <3>2 DEF NoneDone, LookedUp
    <3>6. Bounded'
      BY <3>1 DEF Bounded, Held
    <3> QED BY <3>3, <3>4, <3>5, <3>6
  <2>6. CASE Draw
    <3>1. TypeOK'
      <4>1. drawing' \in BOOLEAN /\ at' \in Place
        BY <2>6, Zenon DEF Draw, Error, TypeOK, Place
      <4>2. drawn' = drawn \/ (drawn < N /\ drawn' = drawn + 1)
        BY <2>6, Zenon DEF Draw
      <4>3. UNCHANGED <<head, taken, answered, raised, pending, finished, arrived>>
        BY <2>6, Zenon DEF Draw
      <4>4. /\ drawn' \in 0 .. N /\ head' \in 1 .. drawn' + 1
            /\ 1 .. drawn \subseteq 1 .. drawn' /\ 0 .. drawn \subseteq 0 .. drawn'
        BY <4>2, <4>3 DEF TypeOK
      <4> QED BY <4>1, <4>3, <4>4 DEF TypeOK
    <3>2. Settled' /\ Emptied' /\ LookedUp'
      BY <2>6 DEF Draw, Error, TypeOK, Settled, Emptied, LookedUp
    <3>3. CASE drawn' = drawn
      <4>1. Window' = Window /\ Out' = Out
        BY <2>6, <3>3 DEF Draw, Window, Out, Done
      <4>2. Bounded'
        BY <4>1 DEF Bounded, Held
      <4> QED BY <3>1, <3>2, <4>2
    <3>4. CASE drawn' = drawn + 1
      <4>1. /\ IsFiniteSet(Window) /\ Cardinality(Window) = drawn - head + 1
            /\ Cardinality(Window') = drawn - head + 2
        BY <2>6, <3>1, <3>4, WindowSize DEF Draw, TypeOK, Window
      <4>2. /\ IsFiniteSet(pending) /\ Cardinality(pending) \in Nat
            /\ Cardinality(pending) < Width
            /\ Cardinality(Window) < Held + Cardinality(pending)
        BY <2>6, <4>1, FS_Subset, FS_CardinalityType DEF Draw, Room, LookedUp
      <4>3. Out' \subseteq pending \cup {drawn + 1}
        BY <2>6, <3>4 DEF Draw, TypeOK, LookedUp, Window, Out, Done
      <4>4. /\ IsFiniteSet(pending \cup {drawn + 1})
            /\ Cardinality(pending \cup {drawn + 1}) <= Cardinality(pending) + 1
        BY <4>2, FS_AddElement
      <4>5. /\ Cardinality(Out') <= Cardinality(pending \cup {drawn + 1})
            /\ Cardinality(Out') \in Nat
            /\ Cardinality(pending \cup {drawn + 1}) \in Nat
        BY <4>3, <4>4, FS_Subset, FS_CardinalityType
      <4>6. Bounded'
        BY <4>1, <4>2, <4>4, <4>5, HeldIsPositive DEF Bounded, Held, TypeOK
      <4> QED BY <3>1, <3>2, <4>6
    <3> QED BY <2>6, <3>3, <3>4 DEF Draw
  <2>7. CASE Wait
    <3>1. TypeOK' /\ Settled' /\ Emptied' /\ LookedUp'
      BY <2>7 DEF Wait, TypeOK, Place, Settled, Emptied, LookedUp
    <3>2. Window' = Window /\ Out' = Out
      BY <2>7 DEF Wait, Window, Out, Done
    <3>3. Bounded'
      BY <3>2 DEF Bounded, Held
    <3> QED BY <3>1, <3>3
  <2>8. CASE DrainNext
    <3>1. TypeOK'
      BY <2>8 DEF DrainNext, TypeOK, Place
    <3>2. Settled' /\ Emptied' /\ LookedUp'
      BY <2>8 DEF DrainNext, TypeOK, Settled, Emptied, LookedUp
    <3>3. Window' \subseteq Window /\ Out' \subseteq Out
      BY <2>8 DEF DrainNext, TypeOK, Window, Out, Done
    <3>4. Bounded'
      BY <3>1, <3>3, StaysBounded DEF TypeOK
    <3> QED BY <3>1, <3>2, <3>4
  <2>9. CASE Sweep
    <3>1. TypeOK'
      <4>1. CASE head > drawn
        BY <2>9, <4>1 DEF Sweep, TypeOK, Place
      <4>2. CASE head <= drawn
        <5>1. /\ head' = head + 1 /\ at' = at
              /\ raised' \subseteq raised \cup {head} /\ finished' \subseteq finished \cup {head}
          BY <2>9, <4>2 DEF Sweep, TypeOK
        <5> QED BY <2>9, <4>2, <5>1 DEF Sweep, TypeOK
      <4> QED BY <4>1, <4>2 DEF TypeOK
    <3>2. at' \in {"sweep", "interrupted"} /\ taken' = 0
      BY <2>9 DEF Sweep, Settled
    <3>5. Settled' /\ Emptied' /\ LookedUp'
      BY <3>2 DEF Settled, Emptied, LookedUp
    <3>3. Window' \subseteq Window /\ Out' \subseteq Out
      BY <2>9 DEF Sweep, TypeOK, Window, Out, Done
    <3>4. Bounded'
      BY <3>1, <3>3, StaysBounded DEF TypeOK
    <3> QED BY <3>1, <3>4, <3>5
  <2>10. CASE Interrupt
    <3>1. TypeOK'
      BY <2>10 DEF Interrupt, TypeOK, Place, Window
    <3>2. Settled' /\ Emptied' /\ LookedUp'
      BY <2>10 DEF Interrupt, TypeOK, Settled, Emptied, LookedUp
    <3>3. Window' = Window /\ Out' = Out
      BY <2>10 DEF Interrupt, Window, Out, Done
    <3>4. Bounded'
      BY <3>3 DEF Bounded, Held
    <3> QED BY <3>1, <3>2, <3>4
  <2>11. CASE UNCHANGED vars
    BY <2>11 DEF vars, TypeOK, Settled, LookedUp, Emptied, Bounded, Window, Out, Done, Held
  <2> QED
    BY <2>1, <2>2, <2>3, <2>4, <2>5, <2>6, <2>7, <2>8, <2>9, <2>10, <2>11
       DEF Next, MainStep, Over
<1> QED BY <1>1, <1>2, PTL DEF Spec

(* The state always has its shape.                                         *)
THEOREM TypeCorrect == Spec => []TypeOK
<1>1. WindowInv => TypeOK
  BY DEF WindowInv
<1> QED BY <1>1, WindowInvariant, PTL

(* No more than Width calls are ever in flight, and fewer than             *)
(* Held + Width jobs are ever in the window.                               *)
THEOREM NeverOverfull == Spec => []Bounded
<1>1. WindowInv => Bounded
  BY DEF WindowInv
<1> QED BY <1>1, WindowInvariant, PTL

(* An interrupt's sweep passes over no reply it found in the window.       *)
LEMMA SweepInvariant == Spec => []Swept
<1>1. Init => Swept
  BY DEF Init, Swept
<1>2. WindowInv /\ Swept /\ [Next]_vars => Swept'
  <2> SUFFICES ASSUME TypeOK, Settled, Swept, [Next]_vars PROVE Swept'
    BY DEF WindowInv
  <2>1. ASSUME NEW j \in Job, Answer(j) PROVE Swept'
    BY <2>1 DEF Answer, Swept, Done
  <2>2. CASE Take \/ Finish \/ FinishRaises \/ NoneDone \/ Draw \/ Wait \/ DrainNext
    <3>1. at' \notin {"sweep", "interrupted"}
      BY <2>2 DEF Take, Finish, FinishRaises, NoneDone, Draw, Wait, DrainNext, Error, Settled
    <3> QED BY <3>1 DEF Swept
  <2>3. CASE Sweep
    <3>1. arrived' = arrived /\ answered' = answered /\ drawn' = drawn
      BY <2>3 DEF Sweep
    <3>2. CASE head > drawn
      BY <2>3, <3>1, <3>2, SizesAssumption DEF Sweep, Swept, TypeOK, Done
    <3>3. CASE ~(head > drawn)
      <4>1. /\ head' = head + 1 /\ at' = "sweep"
            /\ finished \subseteq finished' /\ raised \subseteq raised'
            /\ Done(head) => head \in finished' \cup raised'
        BY <2>3, <3>3 DEF Sweep
      <4>2. \A j \in arrived : j < head' => j < head \/ j = head
        BY <4>1, SizesAssumption DEF TypeOK
      <4> QED BY <2>3, <3>1, <4>1, <4>2 DEF Sweep, Swept, Done
    <3> QED BY <3>2, <3>3
  <2>4. CASE Interrupt
    <3>1. \A j \in Window : ~(j < head)
      BY SizesAssumption DEF TypeOK, Window
    <3> QED BY <2>4, <3>1 DEF Interrupt, Swept, Done
  <2>5. CASE UNCHANGED vars
    BY <2>5 DEF vars, Swept, Done
  <2> QED
    BY <2>1, <2>2, <2>3, <2>4, <2>5 DEF Next, MainStep, Over
<1> QED BY <1>1, <1>2, WindowInvariant, PTL DEF Spec

(* The window neither returns nor raises while a drawn job has no record,  *)
(* and an interrupt leaves only when the replies it found have theirs.     *)
THEOREM NoJobIsLost == Spec => []NoneLeft
<1>1. WindowInv /\ Swept => NoneLeft
  <2> SUFFICES ASSUME WindowInv, Swept PROVE NoneLeft
    OBVIOUS
  <2>1. ASSUME at \in {"returned", "raised"} PROVE finished \cup raised = 1 .. drawn
    <3>1. head = drawn + 1 /\ taken = 0
      BY <2>1 DEF WindowInv, Emptied
    <3>2. \A i \in 1 .. drawn : i \in finished \cup raised
      BY <2>1, <3>1, SizesAssumption DEF WindowInv, Settled, TypeOK
    <3>3. finished \cup raised \subseteq 1 .. drawn
      BY DEF WindowInv, TypeOK
    <3> QED BY <3>2, <3>3
  <2>2. ASSUME at = "interrupted" PROVE arrived \subseteq finished \cup raised
    BY <2>2, SizesAssumption DEF WindowInv, TypeOK, Swept
  <2> QED BY <2>1, <2>2 DEF NoneLeft
<1> QED BY <1>1, WindowInvariant, SweepInvariant, PTL

(* Records are published in the order a serial pass publishes them.        *)
THEOREM OrderIsSerial == Spec => FinishedInOrder
<1> DEFINE InOrder == \A j \in finished' \ finished :
                         at # "sweep" => \A i \in 1 .. j - 1 : i \in finished \cup raised
<1>1. WindowInv /\ [Next]_vars => [InOrder]_vars
  <2> SUFFICES ASSUME WindowInv, Next, NEW j \in finished' \ finished, at # "sweep",
                      NEW i \in 1 .. j - 1
               PROVE  i \in finished \cup raised
    BY DEF vars
  <2>1. Finish
    BY DEF Next, MainStep, Over, vars, Answer, Take, FinishRaises, NoneDone, Draw, Wait,
           DrainNext, Sweep, Interrupt
  <2>2. j = taken /\ taken # 0 /\ at # "interrupted" /\ taken = head - 1
    <3>1. j = taken /\ taken # 0
      BY <2>1 DEF Finish
    <3>2. taken = head - 1
      BY <3>1 DEF WindowInv, Settled
    <3>3. at # "interrupted"
      BY <3>1 DEF WindowInv, Settled
    <3> QED BY <3>1, <3>2, <3>3
  <2> QED BY <2>1, <2>2, SizesAssumption DEF WindowInv, Settled, TypeOK
<1> QED BY <1>1, WindowInvariant, PTL DEF Spec, FinishedInOrder
=============================================================================
