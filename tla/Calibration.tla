---------------------------- MODULE Calibration ----------------------------
(***************************************************************************)
(* The transmitter's parameters and its radio thread.                      *)
(*                                                                         *)
(* params.c keeps one record in the data EEPROM: the range of every stick, *)
(* a "calibraed" flag, a magic number and a checksum.  params_init loads   *)
(* it at power-on and replaces an unusable record by the defaults.  The    *)
(* radio thread (radio_thread.c) reads the sticks every 20 ms and either   *)
(* maps them onto the transmitted channels or, in calibration, widens the  *)
(* ranges, records the middle positions and saves the record.              *)
(*                                                                         *)
(* One step of the radio thread is one pass of its loop, except that       *)
(* params_save takes three: the call, the end of EEPROM_ERASE and the end  *)
(* of EEPROM_WRITE.  The power may fail between any two steps, also inside *)
(* the erase and the write.                                                *)
(***************************************************************************)
EXTENDS Integers, Normalize

CONSTANTS
    Sticks,        \* the joystick channels (JOYSTICK_ADC_MAX_CHANNELS of them)
    Reversed,      \* those the thread mirrors: ROLL and THROTTLE
    Adc,           \* the readings adc_read may return
    MidAfter,      \* passes before STEP2 records the middle (2 s)
    FinishAfter,   \* passes before STEP1 or STEP2 may end (5 s)
    MaxInputs,     \* bound: encoder turns and key presses in a behaviour
    MaxFails       \* bound: power failures in a behaviour

UINT16_MAX == 65535

ASSUME ConstantsAssumption ==
    /\ Reversed \subseteq Sticks
    /\ Adc \subseteq 0..UINT16_MAX
    /\ MidAfter \in Nat /\ FinishAfter \in Nat /\ MidAfter < FinishAfter
    /\ MaxInputs \in Nat /\ MaxFails \in Nat

VARIABLES
    pc,            \* where params_init, params_save and the thread stand
    eeprom,        \* the record in the data EEPROM
    params,        \* the record in RAM
    step,          \* radio.calibra_step
    elapsed,       \* rt_tick_get() - timeout in passes, Off while timeout is 0
    channels,      \* the static channels[]: the latest reading of every stick
    out,           \* radio.channels[]: the stick values the RF task sends
    aux,           \* radio.channels[AUX1]: the flight mode the RF task sends
    last_update,   \* radio.last_update, a tick: here only that a pass changes it
    new_mode,      \* radio.new_mode, the mode the encoder has selected
    flight_mode,   \* radio.flight_mode, the mode the pilot has confirmed
    inputs, fails, \* counters of the bounds
    stay,          \* history: passes of this visit to STEP1 or STEP2
    everCalibrated \* history: a calibration has been saved to its end

vars == <<pc, eeprom, params, step, elapsed, channels, out, aux, last_update,
          new_mode, flight_mode, inputs, fails, stay, everCalibrated>>

-----------------------------------------------------------------------------
NONE  == 0
STEP1 == 1
STEP2 == 2
STEP3 == 3

STAB     == 0
ALT_HOLD == 1
LOITER   == 2
Modes    == {STAB, ALT_HOLD, LOITER}

Off == -1

RANGE_MIN == 1500
RANGE_MID == 2500
RANGE_MAX == 3500

All(v) == [s \in Sticks |-> v]

\* The flag and the ranges: what params_t holds beside magic and checksum.
Record(cal, min, mid, max) ==
    [calibraed |-> cal, min |-> min, mid |-> mid, max |-> max]

Cleared == Record(FALSE, All(0), All(0), All(0))

\* What a read of the EEPROM finds: data, whether the magic number is there
\* and whether the checksum fits the data.
Stored(data, magic, intact) == [data |-> data, magic |-> magic, intact |-> intact]

\* After EEPROM_ERASE every byte is 0xFF, so the flag reads as set.
Erased == Stored(Record(TRUE, All(UINT16_MAX), All(UINT16_MAX), All(UINT16_MAX)), FALSE, FALSE)

\* A write or an erase that the power cut short.  The checksum is the last
\* word of the record and no sum of its bytes reaches 0xFF000000, so a
\* record whose last byte is missing never passes; the rest may have arrived.
Torn(data, cal, magic) == Stored([data EXCEPT !.calibraed = cal], magic, FALSE)

AbsDiff(a, b) == IF a > b THEN a - b ELSE b - a

\* Mutant: the checksum is not compared.
ValidUnchecked(r) ==
    /\ r.magic
    /\ \A s \in Sticks : AbsDiff(r.data.max[s], r.data.min[s]) >= 500

params_is_valid(r) ==
    /\ r.magic
    /\ \A s \in Sticks :
          /\ r.data.min[s] >= 100 /\ r.data.max[s] <= 4095
          /\ AbsDiff(r.data.max[s], r.data.min[s]) >= 500
    /\ r.intact

\* params_load_default writes the ranges and leaves the flag as it was read.
params_load_default(p) ==
    Record(p.calibraed, All(RANGE_MIN), All(RANGE_MID), All(RANGE_MAX))

\* What radio.channels[AUX1] means to the flight controller.
AuxOf(mode) == CASE mode = STAB     -> 1000
                 [] mode = ALT_HOLD -> 1500
                 [] mode = LOITER   -> 2000

\* Mutant: the encoder runs past the last mode.
TurnedNoWrap(mode, turn) ==
    CASE turn = "cw"   -> mode + 1
      [] turn = "ccw"  -> IF mode = STAB THEN LOITER ELSE mode - 1
      [] turn = "none" -> mode

\* The encoder moved by two counts or more since the last mode change.
Turned(mode, turn) ==
    CASE turn = "cw"   -> IF mode = LOITER THEN STAB ELSE mode + 1
      [] turn = "ccw"  -> IF mode = STAB THEN LOITER ELSE mode - 1
      [] turn = "none" -> mode

\* Mutant: the two comparisons are swapped.
RangeNarrowed(p, r) ==
    [p EXCEPT !.min = [s \in Sticks |-> IF p.min[s] < r[s] THEN r[s] ELSE p.min[s]],
              !.max = [s \in Sticks |-> IF p.max[s] > r[s] THEN r[s] ELSE p.max[s]]]

radio_update_range_min_max(p, r) ==
    [p EXCEPT !.min = [s \in Sticks |-> IF p.min[s] > r[s] THEN r[s] ELSE p.min[s]],
              !.max = [s \in Sticks |-> IF p.max[s] < r[s] THEN r[s] ELSE p.max[s]]]

WideEnough(p) == \A s \in Sticks : p.max[s] - p.min[s] >= 1200

\* The tick advances while the thread sleeps; past FinishAfter it tells nothing.
Later(e) == IF e > FinishAfter THEN e ELSE e + 1

\* The thread's timeout after a pass: cleared when the pass ended the step.
\* Mutant: it is not.
TimeoutKept(over, since) == Later(since)

NextTimeout(over, since) == IF over THEN Off ELSE Later(since)

OutOf(p, r) ==
    [s \in Sticks |-> StickOutput(r[s], p.min[s], p.mid[s], p.max[s], s \in Reversed)]

-----------------------------------------------------------------------------
\* An unused device: the EEPROM is erased and main has not called params_init.
Init ==
    /\ pc = "off"
    /\ eeprom = Erased
    /\ params = Cleared
    /\ step = NONE /\ elapsed = Off
    /\ channels = All(0) /\ out = All(0) /\ aux = 0 /\ last_update = 0
    /\ new_mode = ALT_HOLD /\ flight_mode = ALT_HOLD
    /\ inputs = 0 /\ fails = 0
    /\ stay = 0
    /\ everCalibrated = FALSE

\* params_init, up to the call of params_save that replaces a bad record.
params_init ==
    /\ pc = "off"
    /\ IF params_is_valid(eeprom) /\ eeprom.data.calibraed
       THEN /\ params' = eeprom.data
            /\ pc' = "run"
       ELSE /\ params' = params_load_default(eeprom.data)
            /\ pc' = "erase_default"
    /\ UNCHANGED <<eeprom, step, elapsed, channels, out, aux,
                   last_update, new_mode, flight_mode, inputs, fails, stay, everCalibrated>>

\* params_save of params_load_default: EEPROM_ERASE has ended.
EraseForDefault ==
    /\ pc = "erase_default"
    /\ eeprom' = Erased
    /\ pc' = "write_default"
    /\ UNCHANGED <<params, step, elapsed, channels, out, aux,
                   last_update, new_mode, flight_mode, inputs, fails, stay, everCalibrated>>

\* EEPROM_WRITE has ended; params_init clears the flag in RAM, after the
\* save, and the radio thread starts in STEP1.
WriteDefault ==
    /\ pc = "write_default"
    /\ eeprom' = Stored(params, TRUE, TRUE)
    /\ params' = [params EXCEPT !.calibraed = FALSE]
    /\ step' = STEP1
    /\ pc' = "run"
    /\ UNCHANGED <<elapsed, channels, out, aux,
                   last_update, new_mode, flight_mode, inputs, fails, stay, everCalibrated>>

\* The loop's top: the converted sticks and the encoder.
Sample(r, turn) ==
    /\ channels' = r
    /\ new_mode' = Turned(new_mode, turn)

\* The loop's end: button_process runs the callbacks on the values the pass
\* has computed.  A long press of RIGHT does not touch the thread's timeout.
Buttons(press, s, p) ==
    /\ step' = IF press = "right_long" THEN STEP1 ELSE s
    /\ params' = IF press = "right_long" THEN [p EXCEPT !.calibraed = FALSE] ELSE p
    /\ flight_mode' = IF press = "left_click" THEN new_mode' ELSE flight_mode
    /\ last_update' = 1 - last_update
    /\ stay' = IF step \in {STEP1, STEP2} /\ s = step /\ press # "right_long"
               THEN Later(stay) ELSE 0

\* Mutant: the mode the encoder shows is sent before the pilot confirms it.
SteerUnconfirmed(r, turn, press) ==
    /\ step = NONE
    /\ Sample(r, turn)
    /\ out' = OutOf(params, r)
    /\ aux' = AuxOf(new_mode)
    /\ Buttons(press, NONE, params)
    /\ UNCHANGED <<pc, elapsed>>

\* Not calibrating: map the sticks.
Steer(r, turn, press) ==
    /\ step = NONE
    /\ Sample(r, turn)
    /\ out' = OutOf(params, r)
    /\ aux' = AuxOf(flight_mode)
    /\ Buttons(press, NONE, params)
    /\ UNCHANGED <<pc, elapsed>>

\* STEP1: the first pass sets the nominal range, every pass widens it.
CollectRange(r, turn, press) ==
    LET begun == IF elapsed = Off
                 THEN [params EXCEPT !.min = All(RANGE_MIN), !.max = All(RANGE_MAX)]
                 ELSE params
        since == IF elapsed = Off THEN 0 ELSE elapsed
        p     == radio_update_range_min_max(begun, r)
        over  == since > FinishAfter /\ WideEnough(p)
    IN  /\ step = STEP1
        /\ Sample(r, turn)
        /\ elapsed' = NextTimeout(over, since)
        /\ Buttons(press, IF over THEN STEP2 ELSE STEP1, p)
        /\ UNCHANGED <<pc, out, aux>>

\* STEP2: record the middle once the sticks had time to return to it.
CollectMid(r, turn, press) ==
    LET since == IF elapsed = Off THEN 0 ELSE elapsed
        p     == IF since > MidAfter THEN [params EXCEPT !.mid = r] ELSE params
        over  == since > FinishAfter /\ WideEnough(p)
    IN  /\ step = STEP2
        /\ Sample(r, turn)
        /\ elapsed' = NextTimeout(over, since)
        /\ Buttons(press, IF over THEN STEP3 ELSE STEP2, p)
        /\ UNCHANGED <<pc, out, aux>>

\* STEP3: set the flag and call params_save.
BeginSave(r, turn, press) ==
    /\ step = STEP3
    /\ press = "none"
    /\ Sample(r, turn)
    /\ params' = [params EXCEPT !.calibraed = TRUE]
    /\ pc' = "erase"
    /\ UNCHANGED <<step, elapsed, out, aux, last_update, flight_mode, stay>>

\* A pass of the loop up to its end, or up to the erase of a params_save.
Pass ==
    /\ pc = "run"
    /\ \E r \in [Sticks -> Adc], turn \in {"none", "cw", "ccw"},
          press \in {"none", "left_click", "right_long"} :
          /\ Steer(r, turn, press) \/ CollectRange(r, turn, press)
                \/ CollectMid(r, turn, press) \/ BeginSave(r, turn, press)
          /\ inputs' = inputs + (IF turn = "none" THEN 0 ELSE 1)
                              + (IF press = "none" THEN 0 ELSE 1)
    /\ inputs' <= MaxInputs
    /\ UNCHANGED <<eeprom, fails, everCalibrated>>

\* params_save of STEP3: EEPROM_ERASE has ended.
EraseForSave ==
    /\ pc = "erase"
    /\ eeprom' = Erased
    /\ pc' = "write"
    /\ UNCHANGED <<params, step, elapsed, channels, out, aux,
                   last_update, new_mode, flight_mode, inputs, fails, stay, everCalibrated>>

\* EEPROM_WRITE has ended; the pass goes on to its buttons.
EndSave ==
    /\ pc = "write"
    /\ eeprom' = Stored(params, TRUE, TRUE)
    /\ new_mode' = new_mode
    /\ \E press \in {"none", "left_click", "right_long"} :
          /\ Buttons(press, NONE, params)
          /\ inputs' = inputs + (IF press = "none" THEN 0 ELSE 1)
    /\ inputs' <= MaxInputs
    /\ everCalibrated' = TRUE
    /\ pc' = "run"
    /\ UNCHANGED <<elapsed, channels, out, aux, fails>>

\* The power goes and comes back: RAM is lost, an erase or a write under way
\* leaves a torn record.
PowerFail ==
    /\ pc # "off"
    /\ fails < MaxFails
    /\ fails' = fails + 1
    /\ \/ eeprom' = eeprom
       \/ pc # "run" /\ eeprom' = Erased
       \/ /\ pc # "run"
          /\ \E cal, magic \in BOOLEAN :
                eeprom' = Torn(IF pc \in {"write", "write_default"} THEN params
                               ELSE eeprom.data, cal, magic)
    /\ pc' = "off"
    /\ params' = Cleared
    /\ step' = NONE /\ elapsed' = Off
    /\ channels' = All(0) /\ out' = All(0) /\ aux' = 0 /\ last_update' = 0
    /\ new_mode' = ALT_HOLD /\ flight_mode' = ALT_HOLD
    /\ stay' = 0
    /\ UNCHANGED <<inputs, everCalibrated>>

Thread == params_init \/ EraseForDefault \/ WriteDefault
             \/ Pass \/ EraseForSave \/ EndSave

Next == Thread \/ PowerFail

Spec == Init /\ [][Next]_vars

\* The radio thread has the highest priority of the firmware, sleeps 20 ms a
\* pass and waits for nothing else, so it always runs again.
FairSpec == Spec /\ WF_vars(Thread)

-----------------------------------------------------------------------------
Values  == 0..UINT16_MAX
Records == [calibraed : BOOLEAN, min : [Sticks -> Values],
            mid : [Sticks -> Values], max : [Sticks -> Values]]

\* Every variable keeps its type; in particular both modes stay indices of
\* the mode names the display shows and of AUX1's three positions.
TypeOK ==
    /\ pc \in {"off", "erase_default", "write_default", "run", "erase", "write"}
    /\ eeprom \in [data : Records, magic : BOOLEAN, intact : BOOLEAN]
    /\ params \in Records
    /\ step \in {NONE, STEP1, STEP2, STEP3}
    /\ elapsed \in {Off} \union 0..(FinishAfter + 1)
    /\ stay \in 0..(FinishAfter + 1)
    /\ channels \in [Sticks -> Values]
    /\ out \in [Sticks -> Int]
    /\ aux \in {0, 1000, 1500, 2000}
    /\ last_update \in {0, 1}
    /\ new_mode \in Modes /\ flight_mode \in Modes
    /\ inputs \in Nat /\ fails \in Nat
    /\ everCalibrated \in BOOLEAN

\* While the sticks are mapped, the mapping in RAM is a whole record that the
\* EEPROM holds: a save precedes every return to STEP NONE, and no power
\* failure inside params_save lets params_init take half a record.
MappingIsStored ==
    pc = "run" /\ step = NONE => eeprom = Stored(params, TRUE, TRUE)

\* Calibration only ever widens the nominal range, restarted or not, so the
\* test "max - min < 1200" that ends STEP1 and STEP2 can never refuse and a
\* mapping never divides a reading by a sliver of its range.
RangeCoversNominal ==
    pc # "off" => \A s \in Sticks :
        params.min[s] <= RANGE_MIN /\ RANGE_MAX <= params.max[s]

\* Once a stick has been mapped it is transmitted inside 1000..2000, also
\* when the recorded middle lies on or beyond an end of the range.
OutInRange ==
    out = All(0) \/ \A s \in Sticks : out[s] \in NORM_MIN_VALUE..NORM_MAX_VALUE

\* STEP2 always gives its full time to centre the sticks, whatever presses
\* restarted the calibration before, and hands over the last reading as middle.
CentreTimeGiven ==
    [][step = STEP2 /\ step' = STEP3
         => stay > FinishAfter /\ params'.mid = channels']_vars

\* The flag "calibrated" (params.h: whether calibrated; params.c: set the
\* uncalibrated state) holds only on a device that has been calibrated.
CalibraedMeansCalibrated ==
    pc = "run" /\ params.calibraed => everCalibrated

\* A calibration ends by itself, with the sticks mapped or the power gone.
CalibrationEnds ==
    pc = "run" /\ step # NONE ~> pc # "run" \/ step = NONE

\* When the pilot leaves the keys alone, the flight mode that is transmitted
\* becomes the one he confirmed, though a calibration may hold it back.
AuxFollowsMode == <>[](aux = AuxOf(flight_mode))
=============================================================================
