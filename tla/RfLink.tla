------------------------------- MODULE RfLink -------------------------------
(***************************************************************************)
(* The control link from the sticks to the receiver: the radio thread's    *)
(* passes, the RF task of the transmitter, which main runs at a lower      *)
(* priority (Firmware/drivers/drv_radio.c), an air that loses packets, and *)
(* the receiver as module Failsafe promises it.                            *)
(*                                                                         *)
(* A pass has all its effects in one step: main does not run between them. *)
(* But it comes between any two steps of the RF task, and so between any   *)
(* two of the bytes that memcpy moves to the packet.  Of a byte only its   *)
(* age is kept: it is that of the last pass that wrote radio.channels, or  *)
(* of one before, or was never written.  rb_cdc_rx is always empty (no     *)
(* code puts into it), so usbd_cdc_acm_read gives nothing to send.         *)
(***************************************************************************)
EXTENDS Integers

CONSTANTS
    Size,       \* bytes of radio.channels: CHANNEL_MAX * 2
    Boot,       \* ticks before the first pass
    Pass,       \* ticks between two passes, or one more
    Task,       \* ticks between two events of the RF task
    Delay,      \* bound: ticks by which other work delays the RF task
    Limit, Longest, Race

ASSUME ConstantsAssumption ==
    /\ Size \in Nat \ {0} /\ Boot \in Nat /\ Pass \in Nat \ {0} /\ Task \in Nat \ {0}
    /\ Delay \in Nat /\ Limit \in Nat /\ Longest \in Nat /\ Race \in Nat

VARIABLES
    on,             \* the transmitter is on
    calibrating,    \* radio.calibra_step # JOYSTICK_CALIBRA_NONE
    steered,        \* a pass has written radio.channels since power-on
    news,           \* last_update # radio.last_update
    wake,           \* ticks to the next pass
    mpc,            \* where the RF task stands
    at,             \* the byte that memcpy moves next
    due,            \* ticks to its next event
    late,           \* ticks since that event, or since it began
    packet,         \* rf_tx_payload.data
    air,            \* "sending" or "idle"
    clear,          \* the air brings packets to the receiver
    good,           \* history: ticks for which passes were made and the air clear
    uncalibrated,   \* history: the transmitter was switched on uncalibrated
    failsafe, silence

Receiver == INSTANCE Failsafe

thread   == <<calibrating, steered, wake>>
task     == <<mpc, at, due, late, packet, air>>
receiver == <<failsafe, silence>>
history  == <<good, uncalibrated>>
vars     == <<on, thread, news, task, clear, history, receiver>>

-----------------------------------------------------------------------------
Unwritten == [b \in 1..Size |-> "zero"]

Init ==
    /\ on = FALSE /\ clear = TRUE
    /\ calibrating = FALSE /\ steered = FALSE /\ wake = 0 /\ news = FALSE
    /\ mpc = "loop" /\ at = 1 /\ due = 0 /\ late = 0
    /\ packet = Unwritten /\ air = "idle"
    /\ good = 0 /\ uncalibrated = FALSE
    /\ Receiver!Init

\* Mutant: the first event already sends a packet.
NewsAtOnce == TRUE

\* Both times are zero at power-on.
NewsAtPowerOn == FALSE

PowerOn ==
    /\ ~on /\ on' = TRUE
    /\ calibrating' \in BOOLEAN /\ uncalibrated' = calibrating'
    /\ wake' = Boot /\ steered' = FALSE /\ news' = NewsAtPowerOn
    /\ mpc' = "loop" /\ at' = 1 /\ due' = 0 /\ late' = 0 /\ packet' = Unwritten
    /\ UNCHANGED <<air, clear, good, receiver>>

PowerOff ==
    /\ on /\ on' = FALSE
    /\ calibrating' = FALSE /\ uncalibrated' = FALSE
    /\ wake' = 0 /\ steered' = FALSE /\ news' = FALSE
    /\ mpc' = "loop" /\ at' = 1 /\ due' = 0 /\ late' = 0 /\ packet' = Unwritten
    /\ air' = "idle" /\ good' = 0
    /\ UNCHANGED <<clear, receiver>>

Fade ==
    /\ clear' = ~clear /\ good' = 0
    /\ UNCHANGED <<on, thread, news, task, uncalibrated, receiver>>

-----------------------------------------------------------------------------
Least(n) == IF n = 0 THEN 0 ELSE n - 1

\* No packet heard for longer than this while the air is clear.
Answer == Pass + 1 + Task + Delay

Waiting == mpc = "loop" /\ due > 0

\* The thread wakes in time, the task with delay; a packet, of a millisecond,
\* is off the air.
Tick ==
    /\ air = "idle"
    /\ on => wake > 0 /\ (Waiting \/ late < Delay)
    /\ wake' = Least(wake)
    /\ due' = Least(due)
    /\ late' = IF ~on \/ Waiting THEN 0 ELSE late + 1
    /\ good' = IF on /\ clear /\ (news \/ good > 0) /\ good < Answer + 1 THEN good + 1 ELSE good
    /\ Receiver!Time
    /\ UNCHANGED <<on, calibrating, steered, news, mpc, at, packet, air, clear, uncalibrated>>

\* One pass of the radio thread.  A calibration leaves radio.channels alone;
\* the pass may end it, and the right key may begin it.
RadioPass ==
    /\ on /\ wake = 0
    /\ IF calibrating THEN UNCHANGED <<steered, packet>>
       ELSE /\ steered' = TRUE
            /\ packet' = [b \in 1..Size |-> IF packet[b] = "new" THEN "old" ELSE packet[b]]
    /\ news' = TRUE
    /\ calibrating' \in BOOLEAN
    /\ wake' \in {Pass, Pass + 1}
    /\ UNCHANGED <<on, mpc, at, due, late, air, clear, history, receiver>>

-----------------------------------------------------------------------------
\* SBP_RF_PERIODIC_EVT: RF_Shut.
PeriodicEvent ==
    /\ on /\ mpc = "loop" /\ due = 0
    /\ air' = "idle"
    /\ mpc' = "compare"
    /\ UNCHANGED <<on, thread, news, at, due, late, packet, clear, history, receiver>>

\* Mutant: the delay is given in another unit.
RestartSlow == due' = 4 * Task /\ late' = 0 /\ mpc' = "loop"

\* tmos_start_task.
Restart == due' = Task /\ late' = 0 /\ mpc' = "loop"

Compare ==
    /\ mpc = "compare"
    /\ \/ news /\ mpc' = "note" /\ UNCHANGED <<due, late>>
       \/ ~news /\ Restart
    /\ UNCHANGED <<on, thread, news, at, packet, air, clear, history, receiver>>

\* last_update = radio.last_update.
Note ==
    /\ mpc = "note"
    /\ news' = FALSE
    /\ mpc' = "copy" /\ at' = 1
    /\ UNCHANGED <<on, thread, due, late, packet, air, clear, history, receiver>>

\* A byte of radio.channels is as new as the last pass that wrote there.
Newest == IF steered THEN "new" ELSE "zero"

\* memcpy, byte by byte: the packet's data is not aligned.
Copy ==
    /\ mpc = "copy"
    /\ packet' = [packet EXCEPT ![at] = Newest]
    /\ \/ at < Size /\ at' = at + 1 /\ mpc' = mpc
       \/ at = Size /\ at' = 1 /\ mpc' = "send"
    /\ UNCHANGED <<on, thread, news, due, late, air, clear, history, receiver>>

\* Mutant: the time is noted when the packet is out.
SentNotes == news' = FALSE

Sent == news' = news

\* RF_Tx.
Send ==
    /\ mpc = "send"
    /\ air' = "sending"
    /\ Sent
    /\ Restart
    /\ UNCHANGED <<on, thread, at, packet, clear, history, receiver>>

RF_ProcessEvent == PeriodicEvent \/ Compare \/ Note \/ Copy \/ Send

-----------------------------------------------------------------------------
\* The packet is heard or lost.  (The acknowledgement and its telemetry are
\* in modules Receiver and Usb.)
Arrive ==
    /\ air = "sending"
    /\ air' = "idle"
    /\ IF clear THEN Receiver!Heard ELSE UNCHANGED receiver
    /\ UNCHANGED <<on, thread, news, mpc, at, due, late, packet, clear, history>>

ReceiverRaises ==
    /\ Receiver!Raise
    /\ UNCHANGED <<on, thread, news, task, clear, history>>

Next ==
    \/ PowerOn \/ PowerOff \/ Fade
    \/ Tick
    \/ RadioPass
    \/ RF_ProcessEvent
    \/ Arrive
    \/ ReceiverRaises

Spec == Init /\ [][Next]_vars

-----------------------------------------------------------------------------
\* When the RF task rests and knows of no later pass, its packet holds every
\* byte of the last sticks.  A packet that mixes two passes, as memcpy may
\* leave it, is therefore followed by a whole one at the task's next event.
AllSent ==
    mpc = "loop" /\ ~news => \A b \in 1..Size : packet[b] = Newest

\* No packet goes out before the sticks have been read and mapped, but by a
\* transmitter that was switched on uncalibrated: its passes set last_update
\* and leave radio.channels zero.
OnlyReadSticks ==
    air = "sending" /\ ~uncalibrated => \A b \in 1..Size : packet[b] # "zero"

\* While the transmitter runs and the air is clear, the receiver hears it
\* again and again: a pass and an event of the RF task apart at most, however
\* the two fall, calibrations included.  So it stays out of failsafe but for
\* the raced alarm of its own check, which the next packet ends.
HeardOften == good >= Answer => silence <= Answer
=============================================================================
