------------------------------ MODULE Receiver ------------------------------
(***************************************************************************)
(* The receiver: the RF callback (interrupt), the main thread that runs    *)
(* the RF task's event handler, and the radio thread that raises failsafe  *)
(* (Receiver/drivers/drv_radio.c, Receiver/applications/radio_thread.c).   *)
(*                                                                         *)
(* The callback runs between any two steps of the threads and is one step. *)
(* The radio thread reads the tick, the time of the last packet and sets   *)
(* the flag in steps of its own, and so does the handler with its calls of *)
(* the RF library.  The library (external) is in one of the states its     *)
(* header names: listening, sending the acknowledgement (which carries the *)
(* reply given to RF_Rx), or idle.                                         *)
(*                                                                         *)
(* Of the telemetry only the numbers of the complete frames are kept: the  *)
(* frames the UART has brought, and the frame or heartbeat of each reply.  *)
(* bind_ack is set nowhere, so its branch of the handler is left out.      *)
(***************************************************************************)
EXTENDS Integers, Sequences

CONSTANTS
    Wrap,       \* the tick counter wraps here: 2^32
    Limit,      \* silence that raises failsafe: 3 s
    Boot,       \* ticks before the first check: 1 s
    Period,     \* ticks between two checks: 100 ms
    MaxDelay,   \* bound: ticks by which interrupts may delay a check
    MaxFrames   \* bound: telemetry frames in a behaviour

ASSUME ConstantsAssumption ==
    /\ Wrap \in Nat /\ Limit \in Nat /\ Period \in Nat \ {0} /\ MaxDelay \in Nat
    /\ Boot \in 0..Limit
    /\ Wrap > Limit + Period + 2 * MaxDelay + 1
    /\ MaxFrames \in Nat

VARIABLES
    tick,          \* rt_tick_get()
    failsafe,      \* radio.failsafe
    last_update,   \* radio.last_update
    pc,            \* where the radio thread stands
    operand,       \* the operand of `timeout' it has read first
    wake,          \* ticks left of its rt_thread_mdelay
    late,          \* ticks since it should have woken
    silence,       \* history: ticks since the last accepted packet, capped
    raced,         \* history: a packet was accepted during this check
    link,          \* the RF library
    event,         \* SBP_RF_RF_RX_EVT is set
    mpc,           \* where the handler stands
    reply,         \* what RF_Rx was given: a frame's number, 0 a heartbeat
    arrived,       \* complete frames the UART has brought
    taken,         \* frames the handler has parsed
    onAir          \* history: the frames acknowledgements have carried

failsafeVars == <<failsafe, last_update, silence, raced>>
threadVars   == <<pc, operand, wake, late>>
linkVars     == <<link, event, mpc, reply, arrived, taken, onAir>>
vars         == <<tick, failsafeVars, threadVars, linkVars>>

-----------------------------------------------------------------------------
\* The longest silence a receiver out of failsafe can have seen.
Longest == Limit + Period + 2 * MaxDelay

UpTo(n, max) == IF n < max THEN n ELSE max

\* main: failsafe is set before the threads start and the radio listens.
Init ==
    /\ tick = 0 /\ failsafe = TRUE /\ last_update = 0
    /\ pc = "sleep" /\ operand = 0 /\ wake = Boot /\ late = 0
    /\ silence = Longest + 1 /\ raced = FALSE
    /\ link = "listening" /\ event = FALSE /\ mpc = "loop" /\ reply = 0
    /\ arrived = 0 /\ taken = 0 /\ onAir = <<>>

\* Mutant: the counter does not wrap.
NextTickUnbounded == tick + 1

NextTick == (tick + 1) % Wrap

\* The radio thread has the highest priority but one interrupt after another
\* may delay it.
Tick ==
    /\ wake = 0 => late < MaxDelay
    /\ tick' = NextTick
    /\ wake' = IF wake = 0 THEN 0 ELSE wake - 1
    /\ late' = IF wake = 0 THEN late + 1 ELSE 0
    /\ silence' = UpTo(silence + 1, Longest + 1)
    /\ UNCHANGED <<failsafe, last_update, raced, pc, operand, linkVars>>

-----------------------------------------------------------------------------
\* Mutant: the difference of the ticks is taken as a signed number.
TimeoutSigned(now, last) == now - last

\* uint32_t timeout.
Timeout(now, last) == (now - last) % Wrap

Sleep ==
    /\ pc' = "sleep" /\ wake' = Period /\ late' = 0 /\ operand' = 0

\* The two operands are read in the order the compiler chose.
ReadFirst ==
    /\ pc = "sleep" /\ wake = 0
    /\ \/ pc' = "tick_read" /\ operand' = tick
       \/ pc' = "last_read" /\ operand' = last_update
    /\ raced' = FALSE
    /\ UNCHANGED <<tick, failsafe, last_update, silence, wake, late, linkVars>>

ReadSecond ==
    LET timeout == IF pc = "tick_read" THEN Timeout(operand, last_update)
                   ELSE Timeout(tick, operand)
    IN  /\ pc \in {"tick_read", "last_read"}
        /\ \/ timeout > Limit /\ pc' = "set" /\ operand' = 0 /\ UNCHANGED <<wake, late>>
           \/ timeout <= Limit /\ Sleep
        /\ UNCHANGED <<tick, failsafeVars, linkVars>>

SetFailsafe ==
    /\ pc = "set"
    /\ failsafe' = TRUE
    /\ Sleep
    /\ UNCHANGED <<tick, last_update, silence, raced, linkVars>>

RadioThread == ReadFirst \/ ReadSecond \/ SetFailsafe

-----------------------------------------------------------------------------
\* Mutant: the packet ends failsafe but its time is not noted.
HeardNoTime == failsafe' = FALSE /\ last_update' = last_update

\* The packet goes out on the UART, ends failsafe and is noted.
Heard == failsafe' = FALSE /\ last_update' = tick

\* Mutant: the event is not set for a packet with a CRC error.
RxDataIntactOnly(bind, intact) ==
    /\ link = "listening"
    /\ \/ intact /\ link' = "acking"
       \/ ~intact /\ link' \in {"acking", "idle", "listening"}
    /\ event' = (event \/ intact)
    /\ IF intact /\ ~(bind /\ failsafe)
       THEN Heard /\ silence' = 0 /\ raced' = TRUE
       ELSE UNCHANGED failsafeVars
    /\ UNCHANGED <<tick, threadVars, mpc, reply, arrived, taken, onAir>>

\* RX_MODE_RX_DATA: a bind packet counts only out of failsafe.  The library
\* acknowledges an intact packet and may do what it likes with another.
RxData(bind, intact) ==
    /\ link = "listening"
    /\ \/ intact /\ link' = "acking"
       \/ ~intact /\ link' \in {"acking", "idle", "listening"}
    /\ event' = TRUE
    /\ IF intact /\ ~(bind /\ failsafe)
       THEN Heard /\ silence' = 0 /\ raced' = TRUE
       ELSE UNCHANGED failsafeVars
    /\ UNCHANGED <<tick, threadVars, mpc, reply, arrived, taken, onAir>>

\* RX_MODE_TX_FINISH: the acknowledgement with the reply is out.
TxFinish ==
    /\ link = "acking"
    /\ link' = "idle"
    /\ event' = TRUE
    /\ onAir' = IF reply > 0 THEN Append(onAir, reply) ELSE onAir
    /\ UNCHANGED <<tick, failsafeVars, threadVars, mpc, reply, arrived, taken>>

\* RX_MODE_TX_FAIL: the callback does nothing.
TxFail ==
    /\ link = "acking"
    /\ link' = "idle"
    /\ UNCHANGED <<tick, failsafeVars, threadVars, event, mpc, reply, arrived, taken, onAir>>

\* The last byte of a telemetry frame comes in on the UART.
UartFrame ==
    /\ arrived < MaxFrames
    /\ arrived' = arrived + 1
    /\ UNCHANGED <<tick, failsafeVars, threadVars, link, event, mpc, reply, taken, onAir>>

-----------------------------------------------------------------------------
\* TMOS takes the event and calls RF_ProcessEvent.
TakeEvent ==
    /\ mpc = "loop" /\ event
    /\ event' = FALSE
    /\ mpc' = "shut"
    /\ UNCHANGED <<tick, failsafeVars, threadVars, link, reply, arrived, taken, onAir>>

\* RF_Shut: an acknowledgement under way is cut off.
Shut ==
    /\ mpc = "shut"
    /\ link' = "idle"
    /\ mpc' = "reply"
    /\ UNCHANGED <<tick, failsafeVars, threadVars, event, reply, arrived, taken, onAir>>

\* Mutant: without a new frame the last one is sent again.
ReplyAgain ==
    IF taken < arrived THEN reply' = taken + 1 /\ taken' = taken + 1
    ELSE reply' = taken /\ taken' = taken

\* The next frame the UART has brought, or a heartbeat.
Reply ==
    IF taken < arrived THEN reply' = taken + 1 /\ taken' = taken + 1
    ELSE reply' = 0 /\ taken' = taken

\* RF_Rx with the reply.
Listen ==
    /\ mpc = "reply"
    /\ Reply
    /\ link' = "listening"
    /\ mpc' = "loop"
    /\ UNCHANGED <<tick, failsafeVars, threadVars, event, arrived, onAir>>

RF_ProcessEvent == TakeEvent \/ Shut \/ Listen

Next ==
    \/ Tick
    \/ RadioThread
    \/ \E bind, intact \in BOOLEAN : RxData(bind, intact)
    \/ TxFinish
    \/ TxFail
    \/ UartFrame
    \/ RF_ProcessEvent

Spec == Init /\ [][Next]_vars

\* The main loop calls TMOS_SystemProcess every millisecond.
FairSpec == Spec /\ WF_vars(RF_ProcessEvent)

-----------------------------------------------------------------------------
TypeOK ==
    /\ tick \in 0..(Wrap - 1) /\ last_update \in 0..(Wrap - 1)
    /\ failsafe \in BOOLEAN
    /\ pc \in {"sleep", "tick_read", "last_read", "set"}
    /\ operand \in 0..(Wrap - 1)
    /\ wake \in Nat /\ late \in 0..MaxDelay
    /\ silence \in 0..(Longest + 1) /\ raced \in BOOLEAN
    /\ link \in {"listening", "acking", "idle"} /\ event \in BOOLEAN
    /\ mpc \in {"loop", "shut", "reply"}
    /\ arrived \in 0..MaxFrames /\ taken \in 0..arrived /\ reply \in 0..taken
    /\ onAir \in Seq(1..MaxFrames)

\* A receiver that lost its transmitter notices: out of failsafe the silence
\* is shorter than the limit and one period, also when the tick counter wraps
\* and whatever packets came between the steps of a check.
LossNoticed == ~failsafe => silence <= Longest

\* No false alarm, but for a packet that comes inside the check itself.
NoFalseAlarm ==
    [][~failsafe /\ failsafe' => silence > Limit \/ raced]_vars

\* However its callbacks and the handler interleave, the radio listens again.
ListensAgain == link # "listening" ~> link = "listening"

\* Failsafe alone is as module Failsafe promises it: raised in time, and only
\* for a silence or when a packet has come inside the check.
Promise == INSTANCE Failsafe WITH Race <- MaxDelay

IsFailsafe == Promise!Spec

\* Telemetry goes out in the order in which it came, each frame at most once.
TelemetryInOrder ==
    \A i, j \in 1..Len(onAir) : i < j => onAir[i] < onAir[j]
=============================================================================
