---------------------------- MODULE UserInterface ---------------------------
(***************************************************************************)
(* What the pilot sees and hears: the screen (gui.c, ui_thread.c) and the  *)
(* tones (tone_play_thread.c) that follow the radio thread, with the event *)
(* of rt-thread/src/ipc.c between it and the tone player.                  *)
(*                                                                         *)
(* The radio thread has the highest priority: what it does in one pass is  *)
(* one step, which may come between any two reads of the others.  The text *)
(* on the screen is the value it was made of; colours are left out.        *)
(* page_index is 0 for ever, and while page0_init draws, the radio thread  *)
(* still sleeps.                                                           *)
(***************************************************************************)
EXTENDS Integers

CONSTANTS
    Lines,      \* channels on the screen: 6
    Values      \* of a channel

ASSUME LinesAssumption == Lines \in Nat \ {0} /\ Values # {}

VARIABLES
    radio,      \* radio.channels, flight_mode and new_mode
    data,       \* what gui.c has drawn, by its own account
    screen,     \* what is on the screen
    upc, line,  \* where the ui thread stands, and the channel it is at
    read,       \* radio.new_mode as page0_update has read it
    reflush,    \* mode_reflush
    flash,      \* 500 ticks since mode_last_tick
    midway,     \* history: a mode was confirmed between NoteMode and DrawMode
    tone_id, evt,
    tpc,        \* where the tone player stands
    owed        \* history: a request came while the player had yet to look at
                \* tone_id, and no tone has been played since

ui     == <<data, screen, upc, line, read, reflush, flash, midway>>
player == <<tone_id, evt, tpc, owed>>
uiVars == <<radio, ui, player>>

-----------------------------------------------------------------------------
\* flight_mode_t.
Modes    == 0..2
ALT_HOLD == 1

\* radio_thread_init and page0_init; the power-on tune is playing.
UiInit ==
    /\ \E c \in [1..Lines -> Values] :
           /\ radio = [channels |-> c, flight_mode |-> ALT_HOLD, new_mode |-> ALT_HOLD]
           /\ data = [channels |-> c, flight_mode |-> ALT_HOLD]
           /\ screen = [channels |-> c, mode |-> ALT_HOLD]
    /\ upc = "sleep" /\ line = 1 /\ read = ALT_HOLD /\ reflush = FALSE /\ flash = FALSE /\ midway = FALSE
    /\ tone_id = "none" /\ evt = FALSE /\ tpc = "power on" /\ owed = FALSE

-----------------------------------------------------------------------------
(***************************************************************************)
(* The radio thread.                                                       *)
(***************************************************************************)
\* Mutant: an event nobody waits for is not kept.
SentToWaiting == tpc' = (IF tpc = "blocked" THEN "switch" ELSE tpc) /\ UNCHANGED evt

\* rt_event_send: a thread that waits takes the event with it.
Sent == IF tpc = "blocked" THEN tpc' = "switch" /\ UNCHANGED evt
        ELSE evt' = TRUE /\ UNCHANGED tpc

\* A request before the player's next look at tone_id is owed a tone.
tones_play_background(id) ==
    /\ tone_id' = id
    /\ Sent
    /\ owed' = (owed \/ tpc \in {"power on", "receive", "blocked", "switch"})

\* The sticks move.
Steer(c) ==
    /\ radio' = [radio EXCEPT !.channels = c]
    /\ UNCHANGED <<ui, player>>

\* The knob selects a mode, up or down.
SelectMode(d) ==
    /\ radio' = [radio EXCEPT !.new_mode = (@ + d) % 3]
    /\ tones_play_background("click")
    /\ UNCHANGED ui

\* btn_clicked_callback: the left key confirms the mode.
Click(left) ==
    /\ radio' = IF left THEN [radio EXCEPT !.flight_mode = radio.new_mode] ELSE radio
    /\ midway' = (midway \/ (radio' # radio /\ upc = "draw mode"))
    /\ tones_play_background("click")
    /\ UNCHANGED <<data, screen, upc, line, read, reflush, flash>>

\* btn_long_press_callback.
LongPress ==
    /\ tones_play_background("long click")
    /\ UNCHANGED <<radio, ui>>

RadioThread ==
    \/ \E c \in [1..Lines -> Values] : Steer(c)
    \/ \E d \in {1, -1} : SelectMode(d)
    \/ \E left \in BOOLEAN : Click(left)
    \/ LongPress

-----------------------------------------------------------------------------
(***************************************************************************)
(* The ui thread: page0_update.                                            *)
(***************************************************************************)
\* rt_tick_get() - mode_last_tick > 500.
FlashTime ==
    /\ ~flash /\ flash' = TRUE
    /\ UNCHANGED <<radio, data, screen, upc, line, read, reflush, midway, player>>

Wake ==
    /\ upc = "sleep"
    /\ upc' = "channel" /\ line' = 1
    /\ UNCHANGED <<radio, data, screen, read, reflush, flash, midway, player>>

NextLine ==
    \/ line < Lines /\ line' = line + 1 /\ upc' = "channel"
    \/ line = Lines /\ line' = 1 /\ upc' = "mode"

CompareChannel ==
    /\ upc = "channel"
    /\ \/ data.channels[line] # radio.channels[line] /\ upc' = "draw" /\ UNCHANGED line
       \/ data.channels[line] = radio.channels[line] /\ NextLine
    /\ UNCHANGED <<radio, data, screen, read, reflush, flash, midway, player>>

\* The channel is read again, and the text is made from data.
DrawChannel ==
    /\ upc = "draw"
    /\ data' = [data EXCEPT !.channels[line] = radio.channels[line]]
    /\ screen' = [screen EXCEPT !.channels[line] = radio.channels[line]]
    /\ NextLine
    /\ UNCHANGED <<radio, read, reflush, flash, midway, player>>

ReadNewMode ==
    /\ upc = "mode"
    /\ read' = radio.new_mode /\ upc' = "compare"
    /\ UNCHANGED <<radio, data, screen, line, reflush, flash, midway, player>>

\* Mutant: the mode is not drawn anew after it has flashed.
FlashForgotten == UNCHANGED reflush

Flashes == reflush' = TRUE

\* An unconfirmed mode flashes.
CompareMode ==
    /\ upc = "compare"
    /\ \/ /\ read # radio.flight_mode /\ flash
          /\ flash' = FALSE /\ Flashes /\ midway' = FALSE
          /\ upc' = "draw new"
       \/ /\ read # radio.flight_mode /\ ~flash
          /\ upc' = "sleep" /\ UNCHANGED <<flash, reflush, midway>>
       \/ /\ read = radio.flight_mode
          /\ upc' = "test" /\ UNCHANGED <<flash, reflush, midway>>
    /\ UNCHANGED <<radio, data, screen, line, read, player>>

DrawNewMode ==
    /\ upc = "draw new"
    /\ screen' = [screen EXCEPT !.mode = radio.new_mode]
    /\ upc' = "sleep"
    /\ UNCHANGED <<radio, data, line, read, reflush, flash, midway, player>>

\* Drawn if it is another mode or has flashed.
TestMode ==
    /\ upc = "test"
    /\ IF data.flight_mode # radio.flight_mode \/ reflush
       THEN upc' = "note" /\ reflush' = FALSE /\ midway' = FALSE
       ELSE upc' = "sleep" /\ UNCHANGED <<reflush, midway>>
    /\ UNCHANGED <<radio, data, screen, line, read, flash, player>>

NoteMode ==
    /\ upc = "note"
    /\ data' = [data EXCEPT !.flight_mode = radio.flight_mode]
    /\ upc' = "draw mode"
    /\ UNCHANGED <<radio, screen, line, read, reflush, flash, midway, player>>

DrawMode ==
    /\ upc = "draw mode"
    /\ screen' = [screen EXCEPT !.mode = radio.flight_mode]
    /\ upc' = "sleep"
    /\ UNCHANGED <<radio, data, line, read, reflush, flash, midway, player>>

gui_update ==
    \/ Wake \/ CompareChannel \/ DrawChannel
    \/ ReadNewMode \/ CompareMode \/ DrawNewMode \/ TestMode \/ NoteMode \/ DrawMode

-----------------------------------------------------------------------------
(***************************************************************************)
(* The tone player.                                                        *)
(***************************************************************************)
PowerOnTune ==
    /\ tpc = "power on"
    /\ tpc' = "receive"
    /\ UNCHANGED <<radio, ui, tone_id, evt, owed>>

\* rt_event_recv: takes the event that is there, or waits.
Receive ==
    /\ tpc = "receive"
    /\ IF evt THEN evt' = FALSE /\ tpc' = "switch"
       ELSE tpc' = "blocked" /\ UNCHANGED evt
    /\ UNCHANGED <<radio, ui, tone_id, owed>>

\* switch (tone_id).
Switch ==
    /\ tpc = "switch"
    /\ tpc' = IF tone_id = "none" THEN "clear" ELSE "play"
    /\ owed' = (owed /\ tone_id = "none")
    /\ UNCHANGED <<radio, ui, tone_id, evt>>

\* The last note of play_tones is over.
Played ==
    /\ tpc = "play"
    /\ tpc' = "clear"
    /\ UNCHANGED <<radio, ui, tone_id, evt, owed>>

\* tone_id = TONE_NONE.
Clear ==
    /\ tpc = "clear"
    /\ tone_id' = "none" /\ tpc' = "receive"
    /\ UNCHANGED <<radio, ui, evt, owed>>

Player == PowerOnTune \/ Receive \/ Switch \/ Played \/ Clear

-----------------------------------------------------------------------------
UiNext == RadioThread \/ FlashTime \/ gui_update \/ Player

UiSpec == UiInit /\ [][UiNext]_uiVars

\* The threads above sleep most of the time, and time passes.
FairUiSpec == UiSpec /\ WF_uiVars(gui_update) /\ WF_uiVars(Player) /\ WF_uiVars(FlashTime)

-----------------------------------------------------------------------------
\* A tone that is asked for while the player has yet to look at tone_id is
\* heard, or a later one in its place: while the power-on tune plays, while
\* the player waits, is about to receive the event or has received it.  From
\* its look at tone_id (line 98) until it clears it (line 130) a request is
\* lost, and that is more than the time a tone plays: the event of a lost
\* request is left over, and the player then goes from line 98 to 130 without
\* a tone.
RequestSounds == owed ~> ~owed

\* When the sticks and modes rest, the screen comes to show every channel and
\* the mode that is flown or, flashing, the one that waits to be confirmed,
\* whatever changed between the reads of the update before.  One case is left
\* out: a mode confirmed between lines 118 and 121 of gui.c is drawn but not
\* noted, and when the mode noted there is confirmed next, before an update
\* that finds a difference, it is not drawn again.
ScreenSettles ==
    <>[][FALSE]_radio =>
        <>[](midway \/ (screen.channels = radio.channels /\ screen.mode = radio.new_mode))
=============================================================================
