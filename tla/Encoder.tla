------------------------------- MODULE Encoder -------------------------------
(***************************************************************************)
(* The left knob of the transmitter (drv_encoder.c) and the part of the    *)
(* radio thread that selects a flight mode with it (radio_thread.c).       *)
(*                                                                         *)
(* The knob is at quarter turns of a click; pins A and B follow the        *)
(* waveforms drawn at the head of drv_encoder.c.  An edge of pin A sets    *)
(* its flag; the interrupt handler may be late, and the knob may turn, or  *)
(* a contact bounce, between any two of its steps.  The thread reads the   *)
(* position anew in each of its comparisons, and interrupts may come       *)
(* between two of them.  pos has 16 bits in the code; its overflow, after  *)
(* more than 32767 counts, is left out.  Proofs extend this module         *)
(* together with Sampler, hence the Knob in the names.                     *)
(***************************************************************************)
EXTENDS Integers

CONSTANT MaxTurns   \* bound: quarter turns in a power-on

VARIABLES
    knob,           \* quarter turns, clockwise, from pins A and B high
    edge,           \* the edge of pin A that interrupts
    irq,            \* pin A's bit of R16_PA_INT_IF
    hpc,            \* where GPIOA_IRQHandler stands
    astat, bstat,
    state, pos,     \* encoder_data[0]
    kpc,            \* where the radio thread stands
    left_last_pos, new_mode,
    turns,          \* history: quarter turns since power-on
    now, last,      \* history: where the knob was at this sample of the pins
                    \* and at the one before, and whether it stood still
    counted,        \* history: where the knob was at the last count
    prompt,         \* history: no quarter turn came before an interrupt was over
    selections      \* history: flight modes selected since power-on

handlerVars == <<hpc, astat, bstat, edge, state, pos, now, last, counted>>
turnVars    == <<knob, turns, prompt>>
selectVars  == <<kpc, left_last_pos, new_mode, selections>>
knobVars    == <<handlerVars, irq, turnVars, selectVars>>

-----------------------------------------------------------------------------
\* The waveforms: clockwise, pin B goes first.
A(k) == IF k % 4 \in {0, 1} THEN 1 ELSE 0
B(k) == IF k % 4 \in {0, 3} THEN 1 ELSE 0

Pins(k) == 2 * A(k) + B(k)

\* Static data and encoder_hw_init; the knob rests anywhere.
KnobInit ==
    /\ knob \in 0..3 /\ turns = 0 /\ prompt = TRUE
    /\ edge = "fall" /\ irq = FALSE /\ hpc = "idle" /\ astat = 0 /\ bstat = 0
    /\ state = 0 /\ pos = 0
    /\ kpc = "start" /\ left_last_pos = 0 /\ new_mode = 1 /\ selections = 0
    /\ now = [at |-> knob, still |-> FALSE] /\ last = now /\ counted = knob

-----------------------------------------------------------------------------
Interrupts(to) ==
    \/ edge = "fall" /\ A(knob) = 1 /\ A(to) = 0
    \/ edge = "rise" /\ A(knob) = 0 /\ A(to) = 1

\* A quarter turn, or a contact that bounces.
Turn(d) ==
    /\ turns < MaxTurns
    /\ turns' = turns + 1
    /\ knob' = knob + d
    /\ irq' = (irq \/ Interrupts(knob + d))
    /\ prompt' = (prompt /\ hpc = "idle" /\ ~irq)
    /\ UNCHANGED <<handlerVars, selectVars>>

-----------------------------------------------------------------------------
(***************************************************************************)
(* GPIOA_IRQHandler, in the order of its accesses.                         *)
(***************************************************************************)
ReadA ==
    /\ hpc = "idle" /\ irq
    /\ astat' = A(knob) /\ hpc' = "read B"
    /\ now' = [at |-> knob, still |-> TRUE]
    /\ UNCHANGED <<bstat, edge, state, pos, last, counted, irq, turnVars, selectVars>>

ReadB ==
    /\ hpc = "read B"
    /\ bstat' = B(knob) /\ hpc' = "count"
    /\ now' = [now EXCEPT !.still = (knob = now.at)]
    /\ UNCHANGED <<astat, edge, state, pos, last, counted, irq, turnVars, selectVars>>

\* The switch of state_change: clockwise and anticlockwise states.
Count(before, after) ==
    CASE 4 * before + after \in {1, 7, 8, 14}  -> 1
      [] 4 * before + after \in {2, 4, 11, 13} -> -1
      [] OTHER -> 0

state_change ==
    /\ hpc = "count"
    /\ state' = 2 * astat + bstat
    /\ pos' = pos + Count(state, 2 * astat + bstat)
    /\ hpc' = "arm" /\ last' = now
    /\ counted' = IF pos' # pos THEN knob ELSE counted
    /\ UNCHANGED <<astat, bstat, edge, now, irq, turnVars, selectVars>>

\* GPIOA_ITModeCfg: the other edge than the one of astat.
Arm ==
    /\ hpc = "arm"
    /\ edge' = IF astat = 1 THEN "fall" ELSE "rise"
    /\ hpc' = "armed"
    /\ UNCHANGED <<astat, bstat, state, pos, now, last, counted, irq, turnVars, selectVars>>

\* The flag is cleared when the edge has been armed, and again in the end: an
\* edge that came in the meantime is lost.
ClearItFlag ==
    /\ \/ hpc = "armed" /\ hpc' = "end"
       \/ hpc = "end" /\ hpc' = "idle"
    /\ irq' = FALSE
    /\ UNCHANGED <<astat, bstat, edge, state, pos, now, last, counted, turnVars, selectVars>>

GPIOA_IRQHandler == ReadA \/ ReadB \/ state_change \/ Arm \/ ClearItFlag

-----------------------------------------------------------------------------
(***************************************************************************)
(* radio_thread_entry.                                                     *)
(***************************************************************************)
Distance(a, b) == IF a > b THEN a - b ELSE b - a

pinVars == <<handlerVars, irq, turnVars>>

StartThread ==
    /\ kpc = "start"
    /\ left_last_pos' = pos /\ kpc' = "look"
    /\ UNCHANGED <<pinVars, new_mode, selections>>

\* Two counts from the last selection.
Look ==
    /\ kpc = "look"
    /\ Distance(pos, left_last_pos) >= 2
    /\ kpc' = "direction"
    /\ UNCHANGED <<pinVars, left_last_pos, new_mode, selections>>

\* The next mode, or the one before; the position may have changed since Look.
Direction ==
    /\ kpc = "direction"
    /\ new_mode' = IF pos > left_last_pos THEN (new_mode + 1) % 3
                   ELSE (new_mode + 2) % 3
    /\ kpc' = "keep" /\ selections' = selections + 1
    /\ UNCHANGED <<pinVars, left_last_pos>>

Keep ==
    /\ kpc = "keep"
    /\ left_last_pos' = pos
    /\ kpc' = "look"
    /\ UNCHANGED <<pinVars, new_mode, selections>>

KnobNext ==
    \/ \E d \in {-1, 1} : Turn(d)
    \/ GPIOA_IRQHandler
    \/ StartThread \/ Look \/ Direction \/ Keep

KnobSpec == KnobInit /\ [][KnobNext]_knobVars

-----------------------------------------------------------------------------
\* state_change: "1 count per click".  Once the knob has been turned by two
\* clicks from where it was last counted, it has been counted again, if no
\* interrupt was late.
EveryClickCounts ==
    prompt /\ hpc = "idle" /\ ~irq => Distance(knob, counted) < 8

\* The other side of it: turned as far as one likes, with prompt interrupts
\* the count keeps to the few values that a reversal and the first interrupt
\* give it, and a power-on sees at most one selection.
CountStands == prompt => pos \in -1..2

SelectsAtMostOnce == prompt => selections <= 1

\* Late interrupts: a count goes the way the knob was turned between the two
\* samples, also when edges were lost, unless the knob moved while its pins
\* were being read or was turned by three quarters of a click or more.
RightWay ==
    [][pos' # pos /\ last.still /\ now.still /\ Distance(now.at, last.at) <= 2
         => pos' - pos = now.at - last.at]_knobVars
=============================================================================
