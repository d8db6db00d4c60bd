--------------------------------- MODULE Encoder ---------------------------------
(***************************************************************************)
(* The rotary encoder and its button: RotaryEncoder, whose interrupt       *)
(* handler decodes every edge of the two phases, and EncoderInput::Poll,   *)
(* which the app task calls once per pass.  External: the shaft, the       *)
(* finger, the contacts and the GPIO controller, which latches an edge of  *)
(* a pin until its handler is entered.  The shaft may move between the     *)
(* handler's two reads, and the contacts of the button bounce, for less    *)
(* than a pass.                                                            *)
(***************************************************************************)
EXTENDS Integers

CONSTANTS
  MaxTurn,  \* bound on the shaft's position, in edges
  Slip      \* how many edges the shaft may get ahead of the interrupt handler

VARIABLES
  shaft,              \* the position of the shaft, in edges
  origin,             \* where it was when Init read it
  pending,            \* the pins with a latched edge
  reading,            \* OnGpioIsr has read phase A and not yet phase B
  seen,               \* where the shaft was when it read phase A
  last_state,         \* last_state_
  accumulated_count,  \* accumulated_count_
  last_position       \* last_position_: what EncoderEvents have told in all

VARIABLES
  finger,       \* the button is held down
  settling,     \* its contacts bounce
  was_pressed,  \* button_was_pressed_
  over,         \* kLongPressThresholdUs have passed since press_start_us_
  fired,        \* long_press_fired_
  noticed,      \* a Poll has read the present press, or the last one
  told          \* how many events it was told with

knob == <<shaft, origin, pending, reading, seen, last_state, accumulated_count>>
button == <<finger, settling, was_pressed, over, fired, noticed, told>>
vars == <<knob, last_position, button>>

-----------------------------------------------------------------------------
(* The two phases, a quarter of a period apart.                            *)

PhaseA(position) == position % 4 \in {1, 2}
PhaseB(position) == position % 4 \in {2, 3}

\* ReadState, with phase A and phase B read at two positions.
ReadState(first, second) ==
  (IF PhaseA(first) THEN 2 ELSE 0) + (IF PhaseB(second) THEN 1 ELSE 0)

\* Which pin changes on the way from one position to the next.
EdgeOf(from, to) == IF PhaseA(from) = PhaseA(to) THEN "B" ELSE "A"

\* A step of the shaft by one edge, at most Slip ahead of what is decoded and of
\* what the handler has read so far.
Turn(to) ==
  /\ to \in {shaft - 1, shaft + 1} /\ to \in -MaxTurn .. MaxTurn
  /\ to - origin - accumulated_count \in -Slip .. Slip
  /\ reading => to - seen \in -Slip .. Slip
  /\ shaft' = to
  /\ pending' = pending \cup {EdgeOf(shaft, to)}
  /\ UNCHANGED <<origin, reading, seen, last_state, accumulated_count,
                 last_position, button>>

-----------------------------------------------------------------------------
(* OnGpioIsr, entered once for each pin with an edge.                       *)

EnterIsr(pin) ==
  /\ ~reading /\ pin \in pending
  /\ pending' = pending \ {pin}
  /\ reading' = TRUE /\ seen' = shaft
  /\ UNCHANGED <<shaft, origin, last_state, accumulated_count, last_position, button>>

\* kTransitionTable, and its index.
TransitionTable ==
  << 0, -1,  1,  0,
     1,  0,  0, -1,
    -1,  0,  0,  1,
     0,  1, -1,  0 >>

Transition(old, new) == TransitionTable[4 * old + new + 1]

FinishIsr ==
  LET new_state == ReadState(seen, shaft)
  IN
  /\ reading
  /\ reading' = FALSE
  /\ last_state' = new_state
  /\ accumulated_count' = accumulated_count + Transition(last_state, new_state)
  /\ UNCHANGED <<shaft, origin, pending, seen, last_position, button>>

-----------------------------------------------------------------------------
(* The button.                                                              *)

\* No finger is back on the button within the two passes that see it released.
Press ==
  /\ ~finger /\ ~settling /\ ~was_pressed
  /\ finger' = TRUE /\ settling' = TRUE
  /\ noticed' = FALSE /\ told' = 0
  /\ UNCHANGED <<knob, last_position, was_pressed, over, fired>>

Release ==
  /\ finger
  /\ finger' = FALSE /\ settling' = TRUE
  /\ UNCHANGED <<knob, last_position, was_pressed, over, fired, noticed, told>>

ThresholdPasses ==
  /\ was_pressed /\ ~over
  /\ over' = TRUE
  /\ UNCHANGED <<knob, last_position, finger, settling, was_pressed, fired, noticed,
                 told>>

\* EncoderInput::Poll.  While the contacts bounce either level may be read.
Poll(pressed) ==
  /\ settling \/ pressed = finger
  /\ last_position' = accumulated_count
  /\ \/ /\ pressed /\ ~was_pressed
        /\ over' = FALSE /\ fired' = FALSE
        /\ UNCHANGED told
     \/ /\ pressed /\ was_pressed /\ ~fired /\ over
        /\ fired' = TRUE /\ told' = told + 1
        /\ UNCHANGED over
     \/ /\ ~pressed /\ was_pressed /\ ~fired
        /\ told' = told + 1
        /\ UNCHANGED <<over, fired>>
     \/ /\ \/ pressed /\ was_pressed /\ (fired \/ ~over)
           \/ ~pressed /\ (fired \/ ~was_pressed)
        /\ UNCHANGED <<told, over, fired>>
  /\ was_pressed' = pressed
  /\ noticed' = (noticed \/ pressed)
  /\ settling' = FALSE
  /\ UNCHANGED <<knob, finger>>

-----------------------------------------------------------------------------
Init ==
  /\ origin \in 0 .. 3 /\ shaft = origin
  /\ pending = {} /\ reading = FALSE /\ seen = origin
  /\ last_state = ReadState(origin, origin)
  /\ accumulated_count = 0 /\ last_position = 0
  /\ finger = FALSE /\ settling = FALSE
  /\ was_pressed = FALSE /\ over = FALSE /\ fired = FALSE
  /\ noticed = FALSE /\ told = 0

Next ==
  \/ \E to \in {shaft - 1, shaft + 1} : Turn(to)
  \/ \E pin \in {"A", "B"} : EnterIsr(pin)
  \/ FinishIsr
  \/ Press \/ Release \/ ThresholdPasses
  \/ \E pressed \in BOOLEAN : Poll(pressed)

Spec == Init /\ [][Next]_vars

-----------------------------------------------------------------------------
CountType ==
  /\ shaft \in Int /\ origin \in Int /\ seen \in Int
  /\ last_state \in 0 .. 3
  /\ accumulated_count \in Int /\ last_position \in Int
  /\ told \in Nat

FlagType ==
  /\ pending \subseteq {"A", "B"} /\ reading \in BOOLEAN
  /\ finger \in BOOLEAN /\ settling \in BOOLEAN
  /\ was_pressed \in BOOLEAN /\ over \in BOOLEAN /\ fired \in BOOLEAN
  /\ noticed \in BOOLEAN

TypeOK == CountType /\ FlagType

Served == pending = {} /\ ~reading

(* No edge is lost or counted twice, whatever the shaft does while the      *)
(* handler reads its phases one after the other, as long as it never gets   *)
(* two edges ahead of it (OnGpioIsr).                                       *)
StepsAreCounted == Served => accumulated_count = shaft - origin

(* And if it does, what is lost is an even number of edges, and the decoder *)
(* has found the phases again (kTransitionTable).                           *)
StepsAreLostInPairs ==
  Served => /\ (shaft - origin - accumulated_count) % 2 = 0
            /\ last_state = ReadState(shaft, shaft)

(* A press that was noticed at all is told with exactly one event, short or *)
(* long, although nothing debounces the button: "simple debouncing is left  *)
(* to the caller" (button.hpp:8), and Poll does not.                        *)
PressToldOnce ==
  /\ told <= 1
  /\ (~finger /\ ~settling /\ ~was_pressed) => told = (IF noticed THEN 1 ELSE 0)

================================================================================
