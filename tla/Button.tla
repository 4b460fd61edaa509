------------------------------- MODULE Button -------------------------------
(***************************************************************************)
(* One key of the transmitter (button.c).  The radio thread calls          *)
(* button_process at the end of every pass with the levels key_scan read;  *)
(* button_handler debounces the level of its key and drives a state        *)
(* machine that calls back on press, release, clicks and long presses.     *)
(* The left key's click confirms a flight mode, the right key's long press *)
(* restarts the calibration (module Calibration).                          *)
(*                                                                         *)
(* The keys share nothing, so one is modelled; a step is one call of       *)
(* button_handler.                                                         *)
(***************************************************************************)
EXTENDS Integers, FiniteSets

CONSTANTS
    DEBOUNCE_TICKS, SHORT_TICKS, LONG_TICKS,
    RepeatMod,  \* repeat wraps here: 2^4
    TickMod,    \* ticks wraps here: 2^16
    MaxPresses  \* bound: presses of one gesture

ASSUME ConstantsAssumption ==
    /\ DEBOUNCE_TICKS \in Nat \ {0}
    /\ SHORT_TICKS \in Nat /\ LONG_TICKS \in Nat
    /\ RepeatMod \in Nat /\ RepeatMod > 2
    /\ TickMod \in Nat /\ TickMod > SHORT_TICKS + 1 /\ TickMod > LONG_TICKS + 1
    /\ MaxPresses \in Nat

VARIABLES
    state,        \* 0 idle, 1 first press, 2 released, 3 pressed again, 5 long
    ticks, repeat, debounce_cnt, key_state,
    fired,        \* the callbacks of this pass
    presses,      \* history: debounced presses of this gesture
    held,         \* history: passes since key_state changed, up to TickMod
    verdicts,     \* history: clicks, repeats and long presses of this gesture
    level, steady \* history: the last reading, and how often in a row, up to 3

vars == <<state, ticks, repeat, debounce_cnt, key_state,
          fired, presses, held, verdicts, level, steady>>

-----------------------------------------------------------------------------
Events == {"PRESS_DOWN", "PRESS_UP", "PRESS_REPEAT", "SINGLE_CLICK",
           "DOUBLE_CLICK", "LONG_RRESS_START", "LONG_PRESS_HOLD"}

\* The events that tell what a gesture was.
Verdicts == {"PRESS_REPEAT", "SINGLE_CLICK", "LONG_RRESS_START"}

Levels == {"down", "up"}

\* button_init: key_state is 0, neither of the levels.
Init ==
    /\ state = 0 /\ ticks = 0 /\ repeat = 0 /\ debounce_cnt = 0
    /\ key_state = "none"
    /\ fired = {}
    /\ presses = 0 /\ held = 0 /\ verdicts = 0
    /\ level = "up" /\ steady = 0

\* Mutant: the counter is not reset when the level returns.
DebounceKeepsCount(l) ==
    IF l = key_state
    THEN key_state' = key_state /\ debounce_cnt' = debounce_cnt
    ELSE IF debounce_cnt + 1 >= DEBOUNCE_TICKS
         THEN key_state' = l /\ debounce_cnt' = 0
         ELSE key_state' = key_state /\ debounce_cnt' = debounce_cnt + 1

\* Mutant: one reading more is asked for than debounce_cnt has room for.
DebounceOffByOne(l) ==
    \/ /\ l = key_state
       /\ key_state' = key_state /\ debounce_cnt' = 0
    \/ /\ l # key_state /\ debounce_cnt + 1 > DEBOUNCE_TICKS
       /\ key_state' = l /\ debounce_cnt' = 0
    \/ /\ l # key_state /\ debounce_cnt + 1 <= DEBOUNCE_TICKS
       /\ key_state' = key_state /\ debounce_cnt' = debounce_cnt + 1

\* A new level counts when it was read DEBOUNCE_TICKS times in a row.
Debounce(l) ==
    \/ /\ l = key_state
       /\ key_state' = key_state /\ debounce_cnt' = 0
    \/ /\ l # key_state /\ debounce_cnt + 1 >= DEBOUNCE_TICKS
       /\ key_state' = l /\ debounce_cnt' = 0
    \/ /\ l # key_state /\ debounce_cnt + 1 < DEBOUNCE_TICKS
       /\ key_state' = key_state /\ debounce_cnt' = debounce_cnt + 1

Down == key_state' = "down"

\* Incremented, in a field that wraps at `mod'.
Inc(n, mod) == IF n + 1 = mod THEN 0 ELSE n + 1

\* The counter runs in every state but 0.
Ticked == Inc(ticks, TickMod)

\* What the state machine leaves behind.
Goes(s, t, r, f) == state' = s /\ ticks' = t /\ repeat' = r /\ fired' = f

\* The events of a gesture that has ended.
Clicks ==
    (IF repeat = 1 THEN {"SINGLE_CLICK"} ELSE {})
    \union (IF repeat = 2 THEN {"DOUBLE_CLICK"} ELSE {})
    \union (IF repeat > 1 THEN {"PRESS_REPEAT"} ELSE {})

Idle ==
    /\ state = 0
    /\ \/ Down /\ Goes(1, 0, 1, {"PRESS_DOWN"})
       \/ ~Down /\ Goes(0, ticks, repeat, {})

\* Mutant: the long press also ends when the key is let go, as a click.
FirstPressThenClick ==
    /\ state = 1
    /\ \/ ~Down /\ Goes(2, 0, repeat, {"PRESS_UP"})
       \/ Down /\ Ticked > LONG_TICKS /\ Goes(1, Ticked, repeat, {"LONG_RRESS_START"})
       \/ Down /\ Ticked <= LONG_TICKS /\ Goes(1, Ticked, repeat, {})

FirstPress ==
    /\ state = 1
    /\ \/ ~Down /\ Goes(2, 0, repeat, {"PRESS_UP"})
       \/ Down /\ Ticked > LONG_TICKS /\ Goes(5, Ticked, repeat, {"LONG_RRESS_START"})
       \/ Down /\ Ticked <= LONG_TICKS /\ Goes(1, Ticked, repeat, {})

\* Mutant: the wait for another press is not counted from the release.
ReleasedAtOnce ==
    /\ state = 2
    /\ \/ Down /\ Goes(3, 0, Inc(repeat, RepeatMod), {"PRESS_DOWN"})
       \/ ~Down /\ Goes(0, Ticked, repeat, Clicks)

Released ==
    /\ state = 2
    /\ \/ Down /\ Goes(3, 0, Inc(repeat, RepeatMod), {"PRESS_DOWN"})
       \/ ~Down /\ Ticked > SHORT_TICKS /\ Goes(0, Ticked, repeat, Clicks)
       \/ ~Down /\ Ticked <= SHORT_TICKS /\ Goes(2, Ticked, repeat, {})

PressedAgain ==
    /\ state = 3
    /\ \/ ~Down /\ Ticked < SHORT_TICKS /\ Goes(2, 0, repeat, {"PRESS_UP"})
       \/ /\ ~Down /\ Ticked >= SHORT_TICKS
          /\ Goes(0, Ticked, repeat, {"PRESS_UP"} \union (Clicks \ {"SINGLE_CLICK"}))
       \/ Down /\ Goes(3, Ticked, repeat, {})

\* Mutant: the release of a long press is not reported.
LongStays ==
    /\ state = 5
    /\ \/ Down /\ Goes(5, Ticked, repeat, {"LONG_PRESS_HOLD"})
       \/ ~Down /\ Goes(5, Ticked, repeat, {"PRESS_UP"})

Long ==
    /\ state = 5
    /\ \/ Down /\ Goes(5, Ticked, repeat, {"LONG_PRESS_HOLD"})
       \/ ~Down /\ Goes(0, Ticked, repeat, {"PRESS_UP"})

UpTo(n, max) == IF n < max THEN n ELSE max

History(l) ==
    /\ presses' = IF "PRESS_DOWN" \in fired'
                  THEN IF state = 0 THEN 1 ELSE presses + 1
                  ELSE presses
    /\ presses' <= MaxPresses
    /\ held' = IF key_state' # key_state THEN 0 ELSE UpTo(held + 1, TickMod)
    /\ verdicts' = (IF state = 0 THEN IF state' = 0 THEN verdicts ELSE 0 ELSE verdicts)
                      + Cardinality(fired' \intersect Verdicts)
    /\ level' = l
    /\ steady' = IF l = level THEN UpTo(steady + 1, 3) ELSE 1

\* button_handler: debounce first, then the state machine on the result.
button_handler(l) ==
    /\ Debounce(l)
    /\ Idle \/ FirstPress \/ Released \/ PressedAgain \/ Long
    /\ History(l)

Next == \E l \in Levels : button_handler(l)

Spec == Init /\ [][Next]_vars

\* The radio thread calls button_process every 20 ms.
FairSpec == Spec /\ WF_vars(Next)

-----------------------------------------------------------------------------
\* The fields keep within their widths: repeat : 4, debounce_cnt : 3, state : 3.
TypeOK ==
    /\ state \in {0, 1, 2, 3, 5}
    /\ ticks \in 0..(TickMod - 1) /\ repeat \in 0..(RepeatMod - 1)
    /\ debounce_cnt \in 0..(DEBOUNCE_TICKS - 1)
    /\ key_state \in Levels \union {"none"}
    /\ fired \subseteq Events
    /\ presses \in Nat /\ held \in 0..TickMod /\ verdicts \in Nat
    /\ level \in Levels /\ steady \in 0..3

\* The firmware acts on clicks and long presses alone, so a gesture must be
\* exactly one of them: a long press is no click when it ends, a second
\* press takes back the first one's click.  (From RepeatMod presses on the
\* four bits of repeat forget the gesture.)
OneVerdict ==
    /\ verdicts <= 1
    /\ state \in {1, 2, 3} => verdicts = 0
    /\ state = 0 /\ presses \in 1..(RepeatMod - 1) => verdicts = 1

\* A click is one press and then SHORT_TICKS of rest; a double click is two
\* presses; a long press is one press held beyond LONG_TICKS.
VerdictFits ==
    /\ "SINGLE_CLICK" \in fired /\ presses < RepeatMod
          => presses = 1 /\ key_state = "up" /\ held > SHORT_TICKS
    /\ "DOUBLE_CLICK" \in fired /\ presses < RepeatMod => presses = 2
    /\ "PRESS_REPEAT" \in fired => presses >= 2
    /\ "LONG_RRESS_START" \in fired
          => presses = 1 /\ key_state = "down" /\ held = LONG_TICKS + 1

\* The state machine never loses track of the key: it waits in a pressed
\* state exactly while the debounced key is down, so that no press or
\* release goes unreported.
StateFollowsKey == state \in {1, 3, 5} <=> key_state = "down"

\* A bouncing contact is not a press: the debounced level changes only to a
\* level that was read DEBOUNCE_TICKS times in a row.  (Not so for the first
\* level after power-on: key_state starts as neither level, and there any
\* two readings will do.)
Debounced ==
    [][key_state # "none" /\ key_state' # key_state
         => level' = key_state' /\ steady' >= UpTo(DEBOUNCE_TICKS, 3)]_vars

\* When the key is left alone its gesture ends, and the next press is a new one.
GestureEnds == <>[](level = "up") => <>[](state = 0)
=============================================================================
