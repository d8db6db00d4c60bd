----------------------------- MODULE Encoder_proofs -----------------------------
(***************************************************************************)
(* Proofs about Encoder, for any travel of the shaft and any number of     *)
(* presses.                                                                *)
(***************************************************************************)
EXTENDS Encoder, TLAPS

(* A read of the two phases is a state of two bits.                         *)
LEMMA ReadStateType ==
  ASSUME NEW first \in Int, NEW second \in Int
  PROVE  ReadState(first, second) \in 0 .. 3
BY DEF ReadState

(* kTransitionTable counts exactly the changes of one phase, by one.        *)
LEMMA TransitionIs ==
  ASSUME NEW old \in 0 .. 3, NEW new \in 0 .. 3
  PROVE  /\ Transition(old, new) \in {-1, 0, 1}
         /\ Transition(old, new) = 0 <=> (old = new \/ old + new = 3)
<1>1. old \in {0, 1, 2, 3} /\ new \in {0, 1, 2, 3}
  OBVIOUS
<1> QED BY <1>1 DEF Transition, TransitionTable

(* One edge of the shaft is decoded as one step in its direction, and none  *)
(* as none.                                                                 *)
LEMMA OneEdge ==
  ASSUME NEW from \in Int, NEW to \in {from - 1, from, from + 1}
  PROVE  Transition(ReadState(from, from), ReadState(to, to)) = to - from
<1>1. from % 4 \in {0, 1, 2, 3}
  OBVIOUS
<1>2. /\ (from + 1) % 4 = (IF from % 4 = 3 THEN 0 ELSE (from % 4) + 1)
      /\ (from - 1) % 4 = (IF from % 4 = 0 THEN 3 ELSE (from % 4) - 1)
  OBVIOUS
<1>3. CASE to = from
  BY <1>1, <1>3 DEF ReadState, PhaseA, PhaseB, Transition, TransitionTable
<1>4. CASE to = from + 1
  BY <1>1, <1>2, <1>4 DEF ReadState, PhaseA, PhaseB, Transition, TransitionTable
<1>5. CASE to = from - 1
  BY <1>1, <1>2, <1>5 DEF ReadState, PhaseA, PhaseB, Transition, TransitionTable
<1> QED BY <1>3, <1>4, <1>5

(* Phases read at two neighbouring positions are those of one of the two.   *)
LEMMA TornRead ==
  ASSUME NEW first \in Int, NEW second \in {first - 1, first, first + 1}
  PROVE  \/ ReadState(first, second) = ReadState(second, second)
         \/ ReadState(first, second) = ReadState(first, first)
<1>1. first % 4 \in {0, 1, 2, 3}
  OBVIOUS
<1>2. /\ (first + 1) % 4 = (IF first % 4 = 3 THEN 0 ELSE (first % 4) + 1)
      /\ (first - 1) % 4 = (IF first % 4 = 0 THEN 3 ELSE (first % 4) - 1)
  OBVIOUS
<1>3. CASE second = first
  BY <1>3
<1>4. CASE second # first
  BY <1>1, <1>2, <1>4 DEF ReadState, PhaseA, PhaseB
<1> QED BY <1>3, <1>4

-----------------------------------------------------------------------------
(* The types.                                                               *)
LEMMA TypeStep ==
  ASSUME TypeOK, [Next]_vars
  PROVE  TypeOK'
<1>1. CountType'
  <2> USE DEF TypeOK, CountType
  <2>1. CASE FinishIsr
    <3>1. ReadState(seen, shaft) \in 0 .. 3
      BY ReadStateType
    <3>2. Transition(last_state, ReadState(seen, shaft)) \in Int
      BY <3>1, TransitionIs
    <3> QED BY <2>1, <3>1, <3>2 DEF FinishIsr, button
  <2>2. ASSUME NEW pressed \in BOOLEAN, Poll(pressed) PROVE CountType'
    BY <2>2 DEF Poll, knob
  <2>3. ASSUME NEW to \in {shaft - 1, shaft + 1}, Turn(to) PROVE CountType'
    BY <2>3 DEF Turn, button
  <2>4. ASSUME NEW pin \in {"A", "B"}, EnterIsr(pin) PROVE CountType'
    BY <2>4 DEF EnterIsr, button
  <2>5. CASE Press \/ Release \/ ThresholdPasses \/ UNCHANGED vars
    BY <2>5 DEF Press, Release, ThresholdPasses, vars, knob, button
  <2> QED BY <2>1, <2>2, <2>3, <2>4, <2>5 DEF Next
<1>2. FlagType'
  <2> USE DEF TypeOK, FlagType
  <2>1. CASE FinishIsr
    BY <2>1 DEF FinishIsr, button
  <2>2. ASSUME NEW pressed \in BOOLEAN, Poll(pressed) PROVE FlagType'
    BY <2>2, Zenon DEF Poll, knob
  <2>3. ASSUME NEW to \in {shaft - 1, shaft + 1}, Turn(to) PROVE FlagType'
    BY <2>3 DEF Turn, EdgeOf, button
  <2>4. ASSUME NEW pin \in {"A", "B"}, EnterIsr(pin) PROVE FlagType'
    BY <2>4 DEF EnterIsr, button
  <2>5. CASE Press \/ Release \/ ThresholdPasses \/ UNCHANGED vars
    BY <2>5 DEF Press, Release, ThresholdPasses, vars, knob, button
  <2> QED BY <2>1, <2>2, <2>3, <2>4, <2>5 DEF Next
<1> QED BY <1>1, <1>2 DEF TypeOK

LEMMA TypeInit ==
  ASSUME Init PROVE TypeOK
<1>1. CountType
  BY ReadStateType DEF Init, CountType
<1>2. FlagType
  BY DEF Init, FlagType
<1> QED BY <1>1, <1>2 DEF TypeOK

-----------------------------------------------------------------------------
(* The shaft.                                                               *)

\* What the handler has seen is what there is, unless an edge is latched.
IsrInv ==
  /\ (pending = {} /\ ~reading) => last_state = ReadState(shaft, shaft)
  /\ (pending = {} /\ reading) => seen = shaft

\* The decoder's state and its count have the same parity.
ParityInv ==
  (origin + accumulated_count) % 2 = IF last_state \in {1, 2} THEN 1 ELSE 0

\* With a handler that keeps up, they are the same position.
CountInv ==
  LET position == origin + accumulated_count
  IN
  /\ last_state = ReadState(position, position)
  /\ shaft - position \in -1 .. 1
  /\ reading => seen - position \in -1 .. 1 /\ shaft - seen \in -1 .. 1
  /\ Served => shaft = position

LEMMA IsrStep ==
  ASSUME TypeOK, IsrInv, [Next]_vars
  PROVE  IsrInv'
<1> USE DEF TypeOK, CountType, FlagType, IsrInv
<1>1. ASSUME NEW to \in {shaft - 1, shaft + 1}, Turn(to) PROVE IsrInv'
  BY <1>1 DEF Turn
<1>2. ASSUME NEW pin \in {"A", "B"}, EnterIsr(pin) PROVE IsrInv'
  BY <1>2 DEF EnterIsr
<1>3. CASE FinishIsr
  BY <1>3 DEF FinishIsr
<1>4. CASE UNCHANGED knob
  BY <1>4 DEF knob
<1> QED BY <1>1, <1>2, <1>3, <1>4 DEF Next, Press, Release, ThresholdPasses, Poll, vars

LEMMA ParityStep ==
  ASSUME TypeOK, ParityInv, [Next]_vars
  PROVE  ParityInv'
<1> USE DEF TypeOK, CountType, ParityInv
<1>1. CASE FinishIsr
  <2> DEFINE new == ReadState(seen, shaft)
             step == Transition(last_state, new)
  <2>1. new \in 0 .. 3 /\ step \in {-1, 0, 1}
        /\ (step = 0 <=> (last_state = new \/ last_state + new = 3))
    BY ReadStateType, TransitionIs
  <2>2. last_state' = new /\ accumulated_count' = accumulated_count + step /\ origin' = origin
    BY <1>1 DEF FinishIsr
  <2> HIDE DEF new, step
  <2>3. CASE step = 0
    BY <2>1, <2>2, <2>3
  <2>4. CASE step # 0
    <3>1. (last_state \in {1, 2}) <=> ~(new \in {1, 2})
      BY <2>1, <2>4
    <3>2. ((origin + accumulated_count) + step) % 2 = 1 - ((origin + accumulated_count) % 2)
      BY <2>1, <2>4
    <3>3. (origin + accumulated_count)' = (origin + accumulated_count) + step
      BY <2>1, <2>2
    <3> QED BY <2>1, <2>2, <3>1, <3>2, <3>3
  <2> QED BY <2>3, <2>4
<1>2. CASE UNCHANGED <<origin, last_state, accumulated_count>>
  BY <1>2
<1> QED BY <1>1, <1>2 DEF Next, Turn, EnterIsr, Press, Release, ThresholdPasses, Poll, vars, knob

LEMMA CountStep ==
  ASSUME Slip = 1, TypeOK, IsrInv, CountInv, [Next]_vars
  PROVE  CountInv'
<1> USE DEF TypeOK, CountType, CountInv, Served
<1>1. ASSUME NEW to \in {shaft - 1, shaft + 1}, Turn(to) PROVE CountInv'
  BY <1>1 DEF Turn
<1>2. ASSUME NEW pin \in {"A", "B"}, EnterIsr(pin) PROVE CountInv'
  BY <1>2 DEF EnterIsr
<1>3. CASE FinishIsr
  <2> DEFINE position == origin + accumulated_count
  <2>1. reading /\ position \in Int /\ shaft \in {seen - 1, seen, seen + 1}
    BY <1>3 DEF FinishIsr
  <2>2. PICK p \in {seen, shaft} : ReadState(seen, shaft) = ReadState(p, p)
    BY <2>1, TornRead
  <2>3. p \in {position - 1, position, position + 1}
    BY <2>1, <2>2
  <2>4. Transition(last_state, ReadState(seen, shaft)) = p - position
    BY <2>1, <2>2, <2>3, OneEdge
  <2>5. origin' + accumulated_count' = p /\ last_state' = ReadState(p, p)
    BY <1>3, <2>2, <2>3, <2>4 DEF FinishIsr
  <2>6. UNCHANGED <<shaft, seen, pending>> /\ reading' = FALSE
    BY <1>3 DEF FinishIsr
  <2>7. pending = {} => p = shaft
    BY <2>1, <2>2 DEF IsrInv
  <2> QED BY <2>1, <2>2, <2>3, <2>5, <2>6, <2>7
<1>4. CASE UNCHANGED knob
  BY <1>4 DEF knob
<1> QED BY <1>1, <1>2, <1>3, <1>4 DEF Next, Press, Release, ThresholdPasses, Poll, vars

(* No edge is lost or counted twice by an interrupt handler that keeps up,  *)
(* although it reads the two phases one after the other (OnGpioIsr).        *)
THEOREM CountsSteps ==
  ASSUME Slip = 1
  PROVE  Spec => []StepsAreCounted
<1>1. ASSUME Init PROVE TypeOK /\ IsrInv /\ CountInv
  <2>1. TypeOK
    BY <1>1, TypeInit
  <2> QED BY <1>1, <2>1 DEF Init, TypeOK, CountType, IsrInv, CountInv, Served
<1>2. TypeOK /\ IsrInv /\ CountInv /\ [Next]_vars => TypeOK' /\ IsrInv' /\ CountInv'
  BY TypeStep, IsrStep, CountStep
<1>3. TypeOK /\ CountInv => StepsAreCounted
  BY DEF TypeOK, CountType, CountInv, StepsAreCounted
<1> QED BY <1>1, <1>2, <1>3, PTL DEF Spec

(* Whatever the handler misses, it loses an even number of edges and knows  *)
(* the phases again as soon as it has caught up (kTransitionTable).         *)
THEOREM LosesPairs == Spec => []StepsAreLostInPairs
<1>1. ASSUME NEW position \in Int
      PROVE  (position % 2 = 1) <=> ReadState(position, position) \in {1, 2}
  <2>1. position % 4 \in {0, 1, 2, 3} /\ position % 2 = (position % 4) % 2
    OBVIOUS
  <2> QED BY <2>1 DEF ReadState, PhaseA, PhaseB
<1>2. ASSUME Init PROVE TypeOK /\ IsrInv /\ ParityInv
  <2>1. TypeOK /\ origin \in Int
    BY <1>2, TypeInit DEF TypeOK, CountType
  <2>2. (origin + accumulated_count) % 2 = origin % 2 /\ origin % 2 \in {0, 1}
    BY <1>2, <2>1 DEF Init
  <2>3. ParityInv
    BY <1>1, <1>2, <2>1, <2>2 DEF Init, ParityInv
  <2> QED BY <1>2, <2>1, <2>3 DEF Init, IsrInv
<1>3. TypeOK /\ IsrInv /\ ParityInv /\ [Next]_vars => TypeOK' /\ IsrInv' /\ ParityInv'
  BY TypeStep, IsrStep, ParityStep
<1>4. TypeOK /\ IsrInv /\ ParityInv => StepsAreLostInPairs
  <2> SUFFICES ASSUME TypeOK, IsrInv, ParityInv, Served PROVE StepsAreLostInPairs
    BY DEF StepsAreLostInPairs
  <2>1. last_state = ReadState(shaft, shaft)
    BY DEF Served, IsrInv
  <2>2. shaft % 2 = (origin + accumulated_count) % 2
    BY <1>1, <2>1 DEF ParityInv, TypeOK, CountType
  <2>3. (shaft - origin - accumulated_count) % 2 = 0
    BY <2>2 DEF TypeOK, CountType
  <2> QED BY <2>1, <2>3 DEF StepsAreLostInPairs
<1> QED BY <1>2, <1>3, <1>4, PTL DEF Spec

-----------------------------------------------------------------------------
(* The button.                                                              *)

\* How a press stands with the app task: not noticed, being held, or told.
PressInv ==
  /\ told = 0 \/ told = 1
  /\ finger /\ settling => ~noticed
  /\ ~noticed => ~was_pressed /\ told = 0
  /\ was_pressed => told = IF fired THEN 1 ELSE 0
  /\ ~was_pressed /\ noticed => told = 1
  /\ noticed /\ (finger \/ settling) => was_pressed

(* A press that was noticed is told with exactly one event, although        *)
(* nothing debounces the button: a pass outlasts the bouncing (Poll).       *)
THEOREM TellsPressOnce == Spec => []PressToldOnce
<1>1. ASSUME Init PROVE TypeOK /\ PressInv
  BY <1>1, TypeInit DEF Init, PressInv
<1>2. TypeOK /\ PressInv /\ [Next]_vars => TypeOK' /\ PressInv'
  <2>1. ASSUME TypeOK, PressInv, [Next]_vars PROVE PressInv'
    <3> USE DEF TypeOK, PressInv
    <3>1. CASE Press \/ Release \/ ThresholdPasses
      BY <2>1, <3>1 DEF Press, Release, ThresholdPasses
    <3>2. ASSUME NEW pressed \in BOOLEAN, Poll(pressed) PROVE PressInv'
      <4>1. /\ told' \in {told, told + 1} /\ was_pressed' = pressed
            /\ (noticed' <=> (noticed \/ pressed)) /\ settling' = FALSE /\ finger' = finger
            /\ settling \/ pressed = finger
        BY <3>2 DEF Poll
      <4>2. CASE pressed /\ ~was_pressed
        <5>1. told' = told /\ fired' = FALSE
          BY <3>2, <4>2 DEF Poll
        <5>2. told = 0
          BY <2>1, <3>2, <4>1, <4>2
        <5> QED BY <2>1, <4>1, <4>2, <5>1, <5>2
      <4>3. CASE pressed /\ was_pressed
        <5>1. \/ told' = told /\ fired' = fired
              \/ ~fired /\ fired' = TRUE /\ told' = told + 1
          BY <3>2, <4>3 DEF Poll
        <5> QED BY <2>1, <4>1, <4>3, <5>1
      <4>4. CASE ~pressed
        <5>1. \/ was_pressed /\ ~fired /\ told' = told + 1
              \/ (fired \/ ~was_pressed) /\ told' = told
          BY <3>2, <4>4 DEF Poll
        <5> QED BY <2>1, <4>1, <4>4, <5>1
      <4> QED BY <3>2, <4>2, <4>3, <4>4
    <3>3. CASE UNCHANGED button
      BY <2>1, <3>3 DEF button
    <3> QED BY <2>1, <3>1, <3>2, <3>3 DEF Next, Turn, EnterIsr, FinishIsr, vars
  <2> QED BY <2>1, TypeStep
<1>3. TypeOK /\ PressInv => PressToldOnce
  BY DEF PressInv, PressToldOnce
<1> QED BY <1>1, <1>2, <1>3, PTL DEF Spec

=============================================================================
