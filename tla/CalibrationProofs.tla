------------------------- MODULE CalibrationProofs -------------------------
(***************************************************************************)
(* Type correctness and the safety properties of Calibration, for every    *)
(* set of sticks and readings, every pair of delays and any number of key  *)
(* presses and power failures.                                             *)
(***************************************************************************)
EXTENDS Calibration, TLAPS

-----------------------------------------------------------------------------
(***************************************************************************)
(* Where radio_data_normalize lands, for every reading and every range     *)
(* with lo <= hi, wherever the middle lies.                                *)
(***************************************************************************)
\* A quotient of a part by the whole, scaled by k, stays between 0 and k.
LEMMA ScaledQuotient ==
    ASSUME NEW n \in Nat, NEW d \in Nat, d # 0, n <= d, NEW k \in Nat
    PROVE  /\ (n * k) \div d \in Int
           /\ 0 <= (n * k) \div d
           /\ (n * k) \div d <= k
<1> DEFINE p == n * k
<1>1. p \in Nat /\ p <= d * k
  BY SMT
<1> DEFINE q == p \div d
<1>2. q \in Int /\ d * q <= p /\ p < d * (q + 1)
  BY <1>1, SMT
<1>3. q >= 0
  <2>1. SUFFICES ASSUME q + 1 <= 0 PROVE FALSE
    BY <1>2, SMT
  <2> QED
    BY <1>1, <1>2, <2>1, SMT
<1>4. q <= k
  <2>1. SUFFICES ASSUME q >= k + 1 PROVE FALSE
    BY <1>2, SMT
  <2>2. d * q >= d * (k + 1)
    BY <1>2, <2>1, SMT
  <2>3. d * (k + 1) = d * k + d
    BY SMT
  <2> QED
    BY <1>1, <1>2, <2>2, <2>3, SMT
<1> QED
  BY <1>2, <1>3, <1>4

\* The same of Quotient, for the 500 output units of a segment.
LEMMA SegmentQuotient ==
    ASSUME NEW n \in Nat, NEW d \in Nat, d # 0, n <= d
    PROVE  Quotient(n * 500, d) \in 0..500
<1>1. /\ (n * 500) \div d \in Int
      /\ 0 <= (n * 500) \div d
      /\ (n * 500) \div d <= 500
  <2>1. 500 \in Nat
    OBVIOUS
  <2> QED
    BY <2>1, ScaledQuotient
<1>2. Quotient(n * 500, d) = (n * 500) \div d
  BY DEF Quotient
<1> QED
  BY <1>1, <1>2

\* The two clamps leave a value of the range.
LEMMA ClampInRange ==
    ASSUME NEW value \in Int, NEW lo \in Int, NEW hi \in Int, lo <= hi
    PROVE  Clamp(value, lo, hi) \in lo..hi
BY DEF Clamp

\* One stick's output lies in 1000..2000 for every reading, every range with
\* lo <= hi and every middle, the division by zero at mid = hi included.
THEOREM StickOutputInRange ==
    ASSUME NEW value \in Nat, NEW lo \in Nat, NEW mid \in Nat, NEW hi \in Nat,
           lo <= hi, NEW reversed \in BOOLEAN
    PROVE  StickOutput(value, lo, mid, hi, reversed)
              \in NORM_MIN_VALUE..NORM_MAX_VALUE
<1> DEFINE v == Clamp(value, lo, hi)
           norm == Segment(v, lo, mid, hi, 1000, 1500, 2000)
<1>1. v \in Nat /\ lo <= v /\ v <= hi
  BY ClampInRange
<1> HIDE DEF v
<1>2. norm \in 1000..2000
  <2>1. CASE v >= mid
    <3>1. norm = 1500 + Quotient((v - mid) * 500, hi - mid)
      BY <2>1 DEF Segment
    <3>2. CASE hi = mid
      BY <3>1, <3>2, <1>1 DEF Quotient
    <3>3. CASE hi # mid
      <4>1. v - mid \in Nat /\ hi - mid \in Nat /\ hi - mid # 0 /\ v - mid <= hi - mid
        BY <1>1, <2>1, <3>3
      <4>2. Quotient((v - mid) * 500, hi - mid) \in 0..500
        BY <4>1, SegmentQuotient
      <4> QED
        BY <3>1, <4>2
    <3> QED
      BY <3>2, <3>3
  <2>2. CASE v < mid
    <3>1. norm = 1000 + Quotient((v - lo) * 500, mid - lo)
      BY <2>2, <1>1 DEF Segment
    <3>2. v - lo \in Nat /\ mid - lo \in Nat /\ mid - lo # 0 /\ v - lo <= mid - lo
      BY <1>1, <2>2
    <3>3. Quotient((v - lo) * 500, mid - lo) \in 0..500
      BY <3>2, SegmentQuotient
    <3> QED
      BY <3>1, <3>3
  <2> QED
    BY <1>1, <2>1, <2>2
<1>3. StickOutput(value, lo, mid, hi, reversed) = IF reversed THEN 3000 - norm ELSE norm
  BY DEF StickOutput, radio_data_normalize, NORM_MIN_VALUE, NORM_MID_VALUE,
         NORM_MAX_VALUE, v
<1> QED
  BY <1>2, <1>3 DEF NORM_MIN_VALUE, NORM_MAX_VALUE

-----------------------------------------------------------------------------

Steps == {NONE, STEP1, STEP2, STEP3}

EepromRecords == [data : Records, magic : BOOLEAN, intact : BOOLEAN]

USE DEF NONE, STEP1, STEP2, STEP3, Off

LEMMA RecordsOf ==
    ASSUME NEW c \in BOOLEAN, NEW lo \in [Sticks -> Values],
           NEW mid \in [Sticks -> Values], NEW hi \in [Sticks -> Values]
    PROVE  Record(c, lo, mid, hi) \in Records
BY DEF Record, Records

LEMMA AllInValues ==
    ASSUME NEW v \in Values
    PROVE  All(v) \in [Sticks -> Values]
BY DEF All

LEMMA UintMax == UINT16_MAX \in Nat /\ 4095 < UINT16_MAX
BY SMT DEF UINT16_MAX

LEMMA ValuesAreNat == Values \subseteq Nat
BY UintMax DEF Values

LEMMA FixedRecords ==
    Cleared \in Records
        /\ Record(TRUE, All(UINT16_MAX), All(UINT16_MAX), All(UINT16_MAX)) \in Records
<1>1. 0 \in Values /\ UINT16_MAX \in Values
  BY UintMax DEF Values
<1>2. All(0) \in [Sticks -> Values] /\ All(UINT16_MAX) \in [Sticks -> Values]
  BY <1>1, AllInValues
<1>3. Cleared \in Records
  BY <1>2 DEF Cleared, Record, Records
<1>4. Record(TRUE, All(UINT16_MAX), All(UINT16_MAX), All(UINT16_MAX)) \in Records
  BY <1>2 DEF Record, Records
<1> QED
  BY <1>3, <1>4

LEMMA DefaultRecord ==
    ASSUME NEW p \in Records
    PROVE  params_load_default(p) \in Records
<1>1. 1500 \in Values /\ 2500 \in Values /\ 3500 \in Values
  BY UintMax DEF Values
<1>2. /\ All(RANGE_MIN) \in [Sticks -> Values]
      /\ All(RANGE_MID) \in [Sticks -> Values]
      /\ All(RANGE_MAX) \in [Sticks -> Values]
  BY <1>1, AllInValues DEF RANGE_MIN, RANGE_MID, RANGE_MAX
<1>3. p.calibraed \in BOOLEAN
  BY DEF Records
<1> QED
  BY <1>2, <1>3, RecordsOf DEF params_load_default

LEMMA WidenedRecord ==
    ASSUME NEW p \in Records, NEW r \in [Sticks -> Values]
    PROVE  radio_update_range_min_max(p, r) \in Records
BY DEF radio_update_range_min_max, Records

\* The radio thread's readings are values of the record.
LEMMA ReadingsAreValues ==
    ASSUME NEW r \in [Sticks -> Adc]
    PROVE  r \in [Sticks -> Values]
<1>1. Adc \subseteq Values
  BY ConstantsAssumption DEF Values
<1> QED
  BY <1>1

LEMMA TurnedInModes ==
    ASSUME NEW mode \in Modes, NEW turn \in {"none", "cw", "ccw"}
    PROVE  Turned(mode, turn) \in Modes
BY DEF Turned, Modes, STAB, ALT_HOLD, LOITER

LEMMA AuxOfMode ==
    ASSUME NEW mode \in Modes
    PROVE  AuxOf(mode) \in {1000, 1500, 2000}
BY DEF AuxOf, Modes, STAB, ALT_HOLD, LOITER

LEMMA LaterInRange ==
    ASSUME NEW e \in 0..(FinishAfter + 1)
    PROVE  Later(e) \in 0..(FinishAfter + 1)
<1>1. FinishAfter \in Nat
  BY ConstantsAssumption
<1> QED
  BY <1>1 DEF Later

LEMMA ButtonsType ==
    ASSUME TypeOK, NEW s \in Steps, NEW p \in Records,
           NEW press \in {"none", "left_click", "right_long"},
           new_mode' \in Modes, Buttons(press, s, p)
    PROVE  /\ step' \in Steps /\ params' \in Records /\ flight_mode' \in Modes
           /\ last_update' \in {0, 1} /\ stay' \in 0..(FinishAfter + 1)
<1>1. [p EXCEPT !.calibraed = FALSE] \in Records
  BY DEF Records
<1>2. params' \in Records
  BY <1>1 DEF Buttons
<1>3. stay' \in 0..(FinishAfter + 1)
  <2>1. Later(stay) \in 0..(FinishAfter + 1)
    BY LaterInRange DEF TypeOK
  <2>2. 0 \in 0..(FinishAfter + 1)
    BY ConstantsAssumption
  <2> QED
    BY <2>1, <2>2 DEF Buttons
<1>4. step' \in Steps /\ flight_mode' \in Modes
  BY DEF Buttons, Steps, TypeOK
<1>5. last_update' \in {0, 1}
  BY DEF Buttons, TypeOK
<1> QED
  BY <1>2, <1>3, <1>4, <1>5

LEMMA StoredType ==
    ASSUME NEW d \in Records, NEW m \in BOOLEAN, NEW i \in BOOLEAN
    PROVE  /\ Stored(d, m, i) \in EepromRecords
           /\ Stored(d, m, i).data = d
           /\ Stored(d, m, i).magic = m
           /\ Stored(d, m, i).intact = i
BY DEF Stored, EepromRecords

LEMMA TornType ==
    ASSUME NEW data \in Records, NEW c \in BOOLEAN, NEW m \in BOOLEAN
    PROVE  Torn(data, c, m) \in EepromRecords /\ ~Torn(data, c, m).intact
<1>1. [data EXCEPT !.calibraed = c] \in Records
  BY DEF Records
<1> QED
  BY <1>1 DEF Torn, Stored, EepromRecords

LEMMA ErasedType == Erased \in EepromRecords /\ ~Erased.intact
<1> DEFINE d == Record(TRUE, All(UINT16_MAX), All(UINT16_MAX), All(UINT16_MAX))
<1>1. d \in Records
  BY FixedRecords
<1> HIDE DEF d
<1>2. Stored(d, FALSE, FALSE) \in EepromRecords /\ ~Stored(d, FALSE, FALSE).intact
  BY <1>1 DEF Stored, EepromRecords
<1>3. Erased = Stored(d, FALSE, FALSE)
  BY DEF Erased, d
<1> QED
  BY <1>2, <1>3

\* What a pass of the loop shares with the other steps it may be.
LEMMA SampleType ==
    ASSUME TypeOK, NEW r \in [Sticks -> Adc], NEW turn \in {"none", "cw", "ccw"},
           Sample(r, turn)
    PROVE  channels' \in [Sticks -> Values] /\ new_mode' \in Modes
BY ReadingsAreValues, TurnedInModes DEF Sample, TypeOK

LEMMA OutputsInRange ==
    ASSUME NEW p \in Records, NEW r \in [Sticks -> Values],
           \A s \in Sticks : p.min[s] <= RANGE_MIN /\ RANGE_MAX <= p.max[s]
    PROVE  OutOf(p, r) \in [Sticks -> NORM_MIN_VALUE..NORM_MAX_VALUE]
<1>1. SUFFICES ASSUME NEW s \in Sticks
               PROVE  StickOutput(r[s], p.min[s], p.mid[s], p.max[s], s \in Reversed)
                         \in NORM_MIN_VALUE..NORM_MAX_VALUE
  BY DEF OutOf
<1> DEFINE lo == p.min[s]  mid == p.mid[s]  hi == p.max[s]  v == r[s]
<1>2. /\ v \in Nat /\ lo \in Nat /\ mid \in Nat /\ hi \in Nat
      /\ lo <= hi
  <2>1. /\ p.min \in [Sticks -> Values] /\ p.mid \in [Sticks -> Values]
        /\ p.max \in [Sticks -> Values]
    BY DEF Records
  <2>2. v \in Values /\ lo \in Values /\ mid \in Values /\ hi \in Values
    BY <2>1
  <2>4. v \in Nat /\ lo \in Nat /\ mid \in Nat /\ hi \in Nat
    BY <2>2, ValuesAreNat
  <2>3. lo <= 1500 /\ 3500 <= hi
    BY DEF RANGE_MIN, RANGE_MAX
  <2> QED
    BY <2>3, <2>4
<1>3. (s \in Reversed) \in BOOLEAN
  OBVIOUS
<1> QED
  BY <1>2, <1>3, StickOutputInRange

-----------------------------------------------------------------------------
(***************************************************************************)
(* The inductive invariant.  A record whose checksum fits is whole: it has *)
(* the magic number and ranges that cover the nominal one.  It is what     *)
(* lets params_init trust a record, and every save re-establishes it.  In  *)
(* STEP2 the thread's timer counts exactly the passes of this visit.       *)
(***************************************************************************)
Covers(p) == \A s \in Sticks : p.min[s] <= RANGE_MIN /\ RANGE_MAX <= p.max[s]

IntactIsWhole == eeprom.intact => eeprom.magic /\ Covers(eeprom.data)

Step2Timed == step = STEP2 => stay = IF elapsed = Off THEN 0 ELSE elapsed

IInv == /\ TypeOK
        /\ IntactIsWhole
        /\ MappingIsStored
        /\ pc # "off" => Covers(params)
        /\ OutInRange
        /\ Step2Timed

LEMMA InitIInv == Init => IInv
<1> SUFFICES ASSUME Init PROVE IInv
  OBVIOUS
<1>1. All(0) \in [Sticks -> Values] /\ All(0) \in [Sticks -> Int]
  <2>1. 0 \in Values
    BY UintMax DEF Values
  <2> QED
    BY <2>1 DEF All
<1>2. eeprom \in EepromRecords /\ ~eeprom.intact
  BY ErasedType DEF Init
<1>3. params \in Records
  BY FixedRecords DEF Init
<1>4. TypeOK
  <2>1. channels \in [Sticks -> Values] /\ out \in [Sticks -> Int]
    BY <1>1 DEF Init
  <2>2. elapsed \in {Off} \union 0..(FinishAfter + 1) /\ stay \in 0..(FinishAfter + 1)
    BY ConstantsAssumption DEF Init
  <2>3. new_mode \in Modes /\ flight_mode \in Modes
    BY DEF Init, Modes, ALT_HOLD
  <2>4. /\ pc \in {"off", "erase_default", "write_default", "run", "erase", "write"}
        /\ step \in Steps /\ aux \in {0, 1000, 1500, 2000} /\ last_update \in {0, 1}
        /\ inputs \in Nat /\ fails \in Nat
    BY DEF Init, Steps
  <2>5. everCalibrated \in BOOLEAN
    BY DEF Init
  <2> QED
    BY <1>2, <1>3, <2>1, <2>2, <2>3, <2>4, <2>5 DEF TypeOK, EepromRecords, Steps
<1> QED
  BY <1>2, <1>4 DEF Init, IInv, IntactIsWhole, MappingIsStored, OutInRange, Step2Timed

\* Setting the flag disturbs nothing else of the record.
LEMMA FlagSet ==
    ASSUME NEW p \in Records, NEW c \in BOOLEAN
    PROVE  /\ [p EXCEPT !.calibraed = c] \in Records
           /\ [p EXCEPT !.calibraed = c].min = p.min
           /\ [p EXCEPT !.calibraed = c].mid = p.mid
           /\ [p EXCEPT !.calibraed = c].max = p.max
BY DEF Records

LEMMA WholeRecord ==
    ASSUME NEW e \in EepromRecords, e.magic, e.intact
    PROVE  e = Stored(e.data, TRUE, TRUE)
BY DEF EepromRecords, Stored

LEMMA DefaultCovers == ASSUME NEW p PROVE Covers(params_load_default(p))
BY DEF Covers, params_load_default, Record, All, RANGE_MIN, RANGE_MAX

LEMMA BootStep == IInv /\ params_init => IInv'
<1> SUFFICES ASSUME IInv, params_init PROVE IInv'
  OBVIOUS
<1> USE DEF IInv
<1>1. eeprom \in EepromRecords /\ eeprom.data \in Records
  BY DEF TypeOK, EepromRecords
<1>2. UNCHANGED <<eeprom, step, elapsed, channels, out, aux, last_update, new_mode,
                  flight_mode, inputs, fails, stay, everCalibrated>>
  BY DEF params_init
<1>3. params' \in Records /\ pc' \in {"run", "erase_default"}
  BY <1>1, DefaultRecord DEF params_init
<1>4. TypeOK'
  BY <1>2, <1>3 DEF TypeOK
<1>5. MappingIsStored' /\ Covers(params')
  <2>1. CASE params_is_valid(eeprom) /\ eeprom.data.calibraed
    <3>1. eeprom.magic /\ eeprom.intact /\ params' = eeprom.data
      BY <2>1 DEF params_init, params_is_valid
    <3> QED
      BY <1>1, <1>2, <3>1, WholeRecord DEF MappingIsStored, IntactIsWhole
  <2>2. CASE ~(params_is_valid(eeprom) /\ eeprom.data.calibraed)
    BY <2>2, DefaultCovers DEF params_init, MappingIsStored
  <2> QED
    BY <2>1, <2>2
<1>6. Covers(params)'
  BY <1>5 DEF Covers
<1>7. IntactIsWhole' /\ OutInRange' /\ Step2Timed'
  BY <1>2 DEF IntactIsWhole, OutInRange, Step2Timed, Covers
<1> QED
  BY <1>4, <1>5, <1>6, <1>7

LEMMA EraseStep == IInv /\ (EraseForDefault \/ EraseForSave) => IInv'
<1> SUFFICES ASSUME IInv, EraseForDefault \/ EraseForSave PROVE IInv'
  OBVIOUS
<1> USE DEF IInv
<1>1. UNCHANGED <<params, step, elapsed, channels, out, aux, last_update, new_mode,
                  flight_mode, inputs, fails, stay, everCalibrated>>
  BY DEF EraseForDefault, EraseForSave
<1>2. /\ eeprom' = Erased /\ pc' \in {"write_default", "write"} /\ pc # "off"
  BY DEF EraseForDefault, EraseForSave
<1>3. eeprom' \in EepromRecords /\ ~eeprom'.intact
  BY <1>2, ErasedType
<1>4. TypeOK'
  BY <1>1, <1>2, <1>3 DEF TypeOK, EepromRecords
<1>5. IntactIsWhole' /\ MappingIsStored' /\ Covers(params)' /\ OutInRange' /\ Step2Timed'
  BY <1>1, <1>2, <1>3 DEF IntactIsWhole, MappingIsStored, OutInRange, Step2Timed, Covers
<1> QED
  BY <1>4, <1>5

LEMMA WriteDefaultStep == IInv /\ WriteDefault => IInv'
<1> SUFFICES ASSUME IInv, WriteDefault PROVE IInv'
  OBVIOUS
<1> USE DEF IInv
<1>1. UNCHANGED <<elapsed, channels, out, aux, last_update, new_mode,
                  flight_mode, inputs, fails, stay, everCalibrated>>
  BY DEF WriteDefault
<1>2. step' = STEP1 /\ pc' = "run" /\ pc # "off"
  BY DEF WriteDefault
<1>7. /\ eeprom' = Stored(params, TRUE, TRUE)
      /\ params' = [params EXCEPT !.calibraed = FALSE]
  BY DEF WriteDefault
<1>3. params \in Records /\ params' \in Records /\ Covers(params)'
  <2>1. params \in Records
    BY DEF TypeOK
  <2>2. params' \in Records /\ params'.min = params.min /\ params'.max = params.max
    BY <1>7, <2>1, FlagSet
  <2> QED
    BY <1>2, <2>1, <2>2 DEF Covers
<1>4. eeprom' \in EepromRecords /\ eeprom'.data = params /\ eeprom'.magic
  BY <1>3, <1>7, StoredType
<1>5. TypeOK'
  BY <1>1, <1>2, <1>3, <1>4 DEF TypeOK, EepromRecords
<1>6. IntactIsWhole' /\ MappingIsStored' /\ OutInRange' /\ Step2Timed'
  <2>1. IntactIsWhole'
    BY <1>2, <1>4 DEF IntactIsWhole, Covers
  <2>2. MappingIsStored' /\ OutInRange' /\ Step2Timed'
    BY <1>1, <1>2 DEF MappingIsStored, OutInRange, Step2Timed
  <2> QED
    BY <2>1, <2>2
<1> QED
  BY <1>3, <1>5, <1>6

LEMMA PowerFailStep == IInv /\ PowerFail => IInv'
<1> SUFFICES ASSUME IInv, PowerFail PROVE IInv'
  OBVIOUS
<1> USE DEF IInv
<1>1. eeprom' \in EepromRecords /\ (eeprom' = eeprom \/ ~eeprom'.intact)
  <2>1. CASE eeprom' = eeprom
    BY <2>1 DEF TypeOK, EepromRecords
  <2>2. CASE eeprom' = Erased
    BY <2>2, ErasedType
  <2>3. CASE \E cal, magic \in BOOLEAN :
                eeprom' = Torn(IF pc \in {"write", "write_default"} THEN params
                               ELSE eeprom.data, cal, magic)
    <3>1. PICK cal \in BOOLEAN, magic \in BOOLEAN :
             eeprom' = Torn(IF pc \in {"write", "write_default"} THEN params
                            ELSE eeprom.data, cal, magic)
      BY <2>3
    <3>2. params \in Records /\ eeprom.data \in Records
      BY DEF TypeOK
    <3>3. (IF pc \in {"write", "write_default"} THEN params ELSE eeprom.data) \in Records
      BY <3>2
    <3> QED
      BY <3>1, <3>3, TornType
  <2> QED
    BY <2>1, <2>2, <2>3 DEF PowerFail
<1>2. /\ pc' = "off" /\ params' = Cleared /\ step' = NONE /\ elapsed' = Off
      /\ channels' = All(0) /\ out' = All(0) /\ aux' = 0 /\ last_update' = 0
      /\ new_mode' = ALT_HOLD /\ flight_mode' = ALT_HOLD /\ stay' = 0
      /\ inputs' = inputs /\ fails' = fails + 1 /\ everCalibrated' = everCalibrated
  BY DEF PowerFail
<1>3. All(0) \in [Sticks -> Values] /\ All(0) \in [Sticks -> Int]
  <2>1. 0 \in Values
    BY UintMax DEF Values
  <2> QED
    BY <2>1 DEF All
<1>4. TypeOK'
  <2>1. channels' \in [Sticks -> Values] /\ out' \in [Sticks -> Int] /\ params' \in Records
    BY <1>2, <1>3, FixedRecords
  <2>2. elapsed' \in {Off} \union 0..(FinishAfter + 1) /\ stay' \in 0..(FinishAfter + 1)
    BY <1>2, ConstantsAssumption
  <2>3. new_mode' \in Modes /\ flight_mode' \in Modes
    BY <1>2 DEF Modes, ALT_HOLD
  <2>4. inputs' \in Nat /\ fails' \in Nat /\ everCalibrated' \in BOOLEAN
    BY <1>2 DEF TypeOK
  <2> QED
    BY <1>1, <1>2, <2>1, <2>2, <2>3, <2>4 DEF TypeOK, EepromRecords
<1>5. IntactIsWhole'
  BY <1>1 DEF IntactIsWhole, Covers
<1>6. MappingIsStored' /\ OutInRange' /\ Step2Timed'
  BY <1>2 DEF MappingIsStored, OutInRange, Step2Timed
<1> QED
  BY <1>2, <1>4, <1>5, <1>6

\* The buttons at the end of a pass keep the ranges the pass has computed.
LEMMA ButtonsCover ==
    ASSUME NEW s \in Steps, NEW p \in Records,
           NEW press \in {"none", "left_click", "right_long"},
           Covers(p), Buttons(press, s, p)
    PROVE  Covers(params)'
<1>1. params' = p \/ params' = [p EXCEPT !.calibraed = FALSE]
  BY DEF Buttons
<1>2. params'.min = p.min /\ params'.max = p.max
  BY <1>1, FlagSet
<1> QED
  BY <1>2 DEF Covers

\* What the parts of a pass share: the type of everything but out and aux.
LEMMA PassType ==
    ASSUME TypeOK, NEW r \in [Sticks -> Adc], NEW turn \in {"none", "cw", "ccw"},
           NEW press \in {"none", "left_click", "right_long"},
           NEW s \in Steps, NEW p \in Records,
           Sample(r, turn), Buttons(press, s, p),
           UNCHANGED <<pc, eeprom, fails, everCalibrated>>, inputs' \in Nat,
           out' \in [Sticks -> Int], aux' \in {0, 1000, 1500, 2000},
           elapsed' \in {Off} \union 0..(FinishAfter + 1)
    PROVE  TypeOK'
<1>1. channels' \in [Sticks -> Values] /\ new_mode' \in Modes
  BY SampleType
<1>2. /\ step' \in Steps /\ params' \in Records /\ flight_mode' \in Modes
      /\ last_update' \in {0, 1} /\ stay' \in 0..(FinishAfter + 1)
  BY <1>1, ButtonsType
<1> QED
  BY <1>1, <1>2 DEF TypeOK, Steps

LEMMA SteerStep ==
    ASSUME IInv, pc = "run", NEW r \in [Sticks -> Adc],
           NEW turn \in {"none", "cw", "ccw"},
           NEW press \in {"none", "left_click", "right_long"},
           UNCHANGED <<eeprom, fails, everCalibrated>>, inputs' \in Nat,
           Steer(r, turn, press)
    PROVE  IInv'
<1> USE DEF IInv
<1>1. /\ step = NONE /\ Sample(r, turn) /\ Buttons(press, NONE, params)
      /\ UNCHANGED <<pc, elapsed>>
  BY DEF Steer
<1>2. params \in Records /\ NONE \in Steps /\ r \in [Sticks -> Values] /\ Covers(params)
  BY ReadingsAreValues DEF TypeOK, Steps
<1>3. out' \in [Sticks -> NORM_MIN_VALUE..NORM_MAX_VALUE]
  <2>1. OutOf(params, r) \in [Sticks -> NORM_MIN_VALUE..NORM_MAX_VALUE]
    BY <1>2, OutputsInRange DEF Covers
  <2> QED
    BY <2>1 DEF Steer
<1>4. OutInRange'
  BY <1>3 DEF OutInRange
<1>5. TypeOK'
  <2>1. out' \in [Sticks -> Int]
    BY <1>3 DEF NORM_MIN_VALUE, NORM_MAX_VALUE
  <2>2. aux' \in {0, 1000, 1500, 2000}
    BY AuxOfMode DEF Steer, TypeOK
  <2>3. elapsed' \in {Off} \union 0..(FinishAfter + 1)
    BY <1>1 DEF TypeOK
  <2> QED
    BY <1>1, <1>2, <2>1, <2>2, <2>3, PassType
<1>6. Covers(params)'
  BY <1>1, <1>2, ButtonsCover
<1>7. MappingIsStored'
  <2>1. CASE press = "right_long"
    BY <1>1, <2>1 DEF MappingIsStored, Buttons
  <2>2. CASE press # "right_long"
    <3>1. params' = params /\ eeprom' = eeprom
      BY <1>1, <2>2 DEF Buttons
    <3>2. eeprom = Stored(params, TRUE, TRUE)
      BY <1>1 DEF MappingIsStored
    <3> QED
      BY <3>1, <3>2 DEF MappingIsStored
  <2> QED
    BY <2>1, <2>2
<1>8. IntactIsWhole' /\ Step2Timed'
  BY <1>1 DEF IntactIsWhole, Step2Timed, Buttons, Covers
<1> QED
  BY <1>4, <1>5, <1>6, <1>7, <1>8

LEMMA CollectRangeStep ==
    ASSUME IInv, pc = "run", NEW r \in [Sticks -> Adc],
           NEW turn \in {"none", "cw", "ccw"},
           NEW press \in {"none", "left_click", "right_long"},
           UNCHANGED <<eeprom, fails, everCalibrated>>, inputs' \in Nat,
           CollectRange(r, turn, press)
    PROVE  IInv'
<1> USE DEF IInv
<1> DEFINE begun == IF elapsed = Off
                    THEN [params EXCEPT !.min = All(RANGE_MIN), !.max = All(RANGE_MAX)]
                    ELSE params
           since == IF elapsed = Off THEN 0 ELSE elapsed
           p     == radio_update_range_min_max(begun, r)
           over  == since > FinishAfter /\ WideEnough(p)
           s     == IF over THEN STEP2 ELSE STEP1
<1>1. /\ step = STEP1 /\ Sample(r, turn) /\ Buttons(press, s, p)
      /\ elapsed' = NextTimeout(over, since) /\ UNCHANGED <<pc, out, aux>>
  BY DEF CollectRange
<1>2. r \in [Sticks -> Values]
  BY ReadingsAreValues
<1>3. begun \in Records /\ Covers(begun)
  <2>1. CASE elapsed = Off
    <3>1. 1500 \in Values /\ 3500 \in Values
      BY UintMax DEF Values
    <3>2. All(RANGE_MIN) \in [Sticks -> Values] /\ All(RANGE_MAX) \in [Sticks -> Values]
      BY <3>1 DEF All, RANGE_MIN, RANGE_MAX
    <3>3. params \in Records
      BY DEF TypeOK
    <3>4. [params EXCEPT !.min = All(RANGE_MIN), !.max = All(RANGE_MAX)] \in Records
      BY <3>2, <3>3 DEF Records
    <3>5. begun.min = All(RANGE_MIN) /\ begun.max = All(RANGE_MAX)
      BY <2>1, <3>3 DEF Records
    <3> QED
      BY <2>1, <3>4, <3>5 DEF Covers, All, RANGE_MIN, RANGE_MAX
  <2>2. CASE elapsed # Off
    BY <2>2 DEF TypeOK
  <2> QED
    BY <2>1, <2>2
<1>4. since \in 0..(FinishAfter + 1)
  BY ConstantsAssumption DEF TypeOK
<1> HIDE DEF begun, since
<1>5. p \in Records /\ Covers(p)
  <2>1. p \in Records
    BY <1>2, <1>3, WidenedRecord
  <2>2. ASSUME NEW x \in Sticks
        PROVE  p.min[x] <= begun.min[x] /\ begun.max[x] <= p.max[x]
    <3>1. begun.min \in [Sticks -> Values] /\ begun.max \in [Sticks -> Values]
      BY <1>3 DEF Records
    <3>2. begun.min[x] \in Nat /\ begun.max[x] \in Nat /\ r[x] \in Nat
      BY <1>2, <3>1, ValuesAreNat
    <3>3. /\ p.min[x] = IF begun.min[x] > r[x] THEN r[x] ELSE begun.min[x]
          /\ p.max[x] = IF begun.max[x] < r[x] THEN r[x] ELSE begun.max[x]
      BY <1>3 DEF radio_update_range_min_max, Records
    <3> QED
      BY <3>2, <3>3
  <2>3. ASSUME NEW x \in Sticks
        PROVE  p.min[x] <= RANGE_MIN /\ RANGE_MAX <= p.max[x]
    <3>1. /\ begun.min \in [Sticks -> Values] /\ begun.max \in [Sticks -> Values]
          /\ p.min \in [Sticks -> Values] /\ p.max \in [Sticks -> Values]
      BY <1>3, <2>1 DEF Records
    <3>2. begun.min[x] \in Nat /\ begun.max[x] \in Nat /\ p.min[x] \in Nat /\ p.max[x] \in Nat
      BY <3>1, ValuesAreNat
    <3>3. begun.min[x] <= 1500 /\ 3500 <= begun.max[x]
      BY <1>3 DEF Covers, RANGE_MIN, RANGE_MAX
    <3> QED
      BY <2>2, <3>2, <3>3 DEF RANGE_MIN, RANGE_MAX
  <2> QED
    BY <2>1, <2>3 DEF Covers
<1> HIDE DEF p, over
<1>6. s \in Steps
  BY DEF Steps
<1>7. TypeOK'
  <2>1. elapsed' \in {Off} \union 0..(FinishAfter + 1)
    BY <1>1, <1>4, LaterInRange DEF NextTimeout
  <2>2. out' \in [Sticks -> Int] /\ aux' \in {0, 1000, 1500, 2000}
    BY <1>1 DEF TypeOK
  <2> QED
    BY <1>1, <1>5, <1>6, <2>1, <2>2, PassType
<1>8. Covers(params)'
  BY <1>1, <1>5, <1>6, ButtonsCover
<1>9. step' # NONE /\ (step' = STEP2 => over /\ stay' = 0)
  BY <1>1 DEF Buttons
<1>10. MappingIsStored' /\ Step2Timed'
  BY <1>1, <1>9 DEF MappingIsStored, Step2Timed, NextTimeout
<1>11. IntactIsWhole' /\ OutInRange'
  BY <1>1 DEF IntactIsWhole, OutInRange, Covers
<1> QED
  BY <1>7, <1>8, <1>10, <1>11

LEMMA CollectMidStep ==
    ASSUME IInv, pc = "run", NEW r \in [Sticks -> Adc],
           NEW turn \in {"none", "cw", "ccw"},
           NEW press \in {"none", "left_click", "right_long"},
           UNCHANGED <<eeprom, fails, everCalibrated>>, inputs' \in Nat,
           CollectMid(r, turn, press)
    PROVE  /\ IInv'
           /\ step' = STEP3 => stay > FinishAfter /\ params'.mid = channels'
<1> USE DEF IInv
<1> DEFINE since == IF elapsed = Off THEN 0 ELSE elapsed
           p     == IF since > MidAfter THEN [params EXCEPT !.mid = r] ELSE params
           over  == since > FinishAfter /\ WideEnough(p)
           s     == IF over THEN STEP3 ELSE STEP2
<1>1. /\ step = STEP2 /\ Sample(r, turn) /\ Buttons(press, s, p)
      /\ elapsed' = NextTimeout(over, since) /\ UNCHANGED <<pc, out, aux>>
  BY DEF CollectMid
<1>2. r \in [Sticks -> Values]
  BY ReadingsAreValues
<1>3. p \in Records /\ p.min = params.min /\ p.max = params.max
  BY <1>2 DEF TypeOK, Records
<1>4. since \in 0..(FinishAfter + 1) /\ stay = since
  <2>1. since \in 0..(FinishAfter + 1)
    BY ConstantsAssumption DEF TypeOK
  <2> QED
    BY <1>1, <2>1 DEF Step2Timed
<1>5. over => since > MidAfter /\ since > FinishAfter
  BY <1>4, ConstantsAssumption
<1>6. since > MidAfter => p.mid = r
  BY DEF TypeOK, Records
<1> HIDE DEF p, over, since
<1>7. s \in Steps
  BY DEF Steps
<1>8. TypeOK'
  <2>1. elapsed' \in {Off} \union 0..(FinishAfter + 1)
    BY <1>1, <1>4, LaterInRange DEF NextTimeout
  <2>2. out' \in [Sticks -> Int] /\ aux' \in {0, 1000, 1500, 2000}
    BY <1>1 DEF TypeOK
  <2> QED
    BY <1>1, <1>3, <1>7, <2>1, <2>2, PassType
<1>9. Covers(params)'
  <2>1. Covers(p)
    BY <1>1, <1>3 DEF Covers
  <2> QED
    BY <1>1, <1>3, <1>7, <2>1, ButtonsCover
<1>10. Step2Timed'
  <2>1. SUFFICES ASSUME step' = STEP2
                 PROVE  stay' = IF elapsed' = Off THEN 0 ELSE elapsed'
    BY DEF Step2Timed
  <2>2. ~over /\ press # "right_long"
    BY <1>1, <2>1 DEF Buttons
  <2>3. elapsed' = Later(since) /\ stay' = Later(stay)
    BY <1>1, <2>2 DEF Buttons, NextTimeout
  <2>4. Later(since) # Off
    BY <1>4, LaterInRange
  <2> QED
    BY <1>4, <2>3, <2>4
<1>11. MappingIsStored' /\ IntactIsWhole' /\ OutInRange'
  BY <1>1 DEF MappingIsStored, IntactIsWhole, OutInRange, Covers, Buttons
<1>12. step' = STEP3 => stay > FinishAfter /\ params'.mid = channels'
  <2>1. SUFFICES ASSUME step' = STEP3
                 PROVE  stay > FinishAfter /\ params'.mid = channels'
    OBVIOUS
  <2>2. over /\ params' = p
    BY <1>1, <2>1 DEF Buttons
  <2> QED
    BY <1>1, <1>4, <1>5, <1>6, <2>2 DEF Sample
<1> QED
  BY <1>8, <1>9, <1>10, <1>11, <1>12

LEMMA BeginSaveStep ==
    ASSUME IInv, pc = "run", NEW r \in [Sticks -> Adc],
           NEW turn \in {"none", "cw", "ccw"}, NEW press,
           UNCHANGED <<eeprom, fails, everCalibrated>>, inputs' \in Nat,
           BeginSave(r, turn, press)
    PROVE  IInv'
<1> USE DEF IInv
<1>1. /\ step = STEP3 /\ Sample(r, turn) /\ pc' = "erase"
      /\ UNCHANGED <<step, elapsed, out, aux, last_update, flight_mode, stay>>
  BY DEF BeginSave
<1>2. params' \in Records /\ params'.min = params.min /\ params'.max = params.max
  <2>1. params \in Records /\ params' = [params EXCEPT !.calibraed = TRUE]
    BY DEF TypeOK, BeginSave
  <2> QED
    BY <2>1, FlagSet
<1>3. channels' \in [Sticks -> Values] /\ new_mode' \in Modes
  BY <1>1, SampleType
<1>4. TypeOK'
  BY <1>1, <1>2, <1>3 DEF TypeOK
<1>5. Covers(params)'
  BY <1>2 DEF Covers
<1>6. MappingIsStored' /\ IntactIsWhole' /\ OutInRange' /\ Step2Timed'
  BY <1>1 DEF MappingIsStored, IntactIsWhole, OutInRange, Step2Timed, Covers
<1> QED
  BY <1>4, <1>5, <1>6

LEMMA EndSaveStep == IInv /\ EndSave => IInv'
<1> SUFFICES ASSUME IInv, EndSave PROVE IInv'
  OBVIOUS
<1> USE DEF IInv
<1>1. PICK press \in {"none", "left_click", "right_long"} :
         /\ Buttons(press, NONE, params)
         /\ inputs' = inputs + (IF press = "none" THEN 0 ELSE 1)
  BY DEF EndSave
<1>2. /\ pc = "write" /\ pc' = "run" /\ new_mode' = new_mode /\ everCalibrated' = TRUE
      /\ UNCHANGED <<elapsed, channels, out, aux, fails>>
  BY DEF EndSave
<1>3. eeprom' = Stored(params, TRUE, TRUE)
  BY DEF EndSave
<1>4. params \in Records /\ NONE \in Steps /\ Covers(params)
  BY <1>2 DEF TypeOK, Steps
<1>5. eeprom' \in EepromRecords /\ eeprom'.data = params /\ eeprom'.magic
  BY <1>3, <1>4, StoredType
<1>6. /\ step' \in Steps /\ params' \in Records /\ flight_mode' \in Modes
      /\ last_update' \in {0, 1} /\ stay' \in 0..(FinishAfter + 1)
  <2>1. new_mode' \in Modes
    BY <1>2 DEF TypeOK
  <2> QED
    BY <1>1, <1>4, <2>1, ButtonsType
<1>7. TypeOK'
  <2>1. inputs' \in Nat
    BY <1>1 DEF TypeOK
  <2> QED
    BY <1>2, <1>5, <1>6, <2>1 DEF TypeOK, EepromRecords, Steps
<1>8. Covers(params)'
  BY <1>1, <1>4, ButtonsCover
<1>9. MappingIsStored'
  <2>1. CASE press = "right_long"
    BY <1>1, <2>1 DEF MappingIsStored, Buttons
  <2>2. CASE press # "right_long"
    BY <1>1, <1>3, <2>2 DEF MappingIsStored, Buttons
  <2> QED
    BY <2>1, <2>2
<1>10. IntactIsWhole'
  BY <1>4, <1>5 DEF IntactIsWhole, Covers
<1>11. OutInRange' /\ Step2Timed'
  BY <1>1, <1>2 DEF OutInRange, Step2Timed, Buttons
<1> QED
  BY <1>7, <1>8, <1>9, <1>10, <1>11

\* A whole pass, and what it does on its way from STEP2 to STEP3.
LEMMA PassStep ==
    IInv /\ Pass => /\ IInv'
                    /\ step = STEP2 /\ step' = STEP3
                         => stay > FinishAfter /\ params'.mid = channels'
<1> SUFFICES ASSUME IInv, Pass
             PROVE  /\ IInv'
                    /\ step = STEP2 /\ step' = STEP3
                         => stay > FinishAfter /\ params'.mid = channels'
  OBVIOUS
<1>1. PICK r \in [Sticks -> Adc], turn \in {"none", "cw", "ccw"},
           press \in {"none", "left_click", "right_long"} :
        /\ Steer(r, turn, press) \/ CollectRange(r, turn, press)
              \/ CollectMid(r, turn, press) \/ BeginSave(r, turn, press)
        /\ inputs' = inputs + (IF turn = "none" THEN 0 ELSE 1)
                            + (IF press = "none" THEN 0 ELSE 1)
  BY DEF Pass
<1>2. pc = "run" /\ UNCHANGED <<eeprom, fails, everCalibrated>>
  BY DEF Pass
<1>3. inputs' \in Nat
  BY <1>1 DEF IInv, TypeOK
<1>4. CASE Steer(r, turn, press)
  <2>1. step # STEP2
    BY <1>4 DEF Steer
  <2> QED
    BY <1>2, <1>3, <1>4, <2>1, SteerStep
<1>5. CASE CollectRange(r, turn, press)
  <2>1. step # STEP2
    BY <1>5 DEF CollectRange
  <2> QED
    BY <1>2, <1>3, <1>5, <2>1, CollectRangeStep
<1>6. CASE CollectMid(r, turn, press)
  BY <1>2, <1>3, <1>6, CollectMidStep
<1>7. CASE BeginSave(r, turn, press)
  <2>1. step # STEP2
    BY <1>7 DEF BeginSave
  <2> QED
    BY <1>2, <1>3, <1>7, <2>1, BeginSaveStep
<1> QED
  BY <1>1, <1>4, <1>5, <1>6, <1>7

LEMMA StutterStep == IInv /\ UNCHANGED vars => IInv'
<1> SUFFICES ASSUME IInv, UNCHANGED vars PROVE IInv'
  OBVIOUS
<1> USE DEF IInv, vars
<1>1. TypeOK'
  BY DEF TypeOK
<1>2. IntactIsWhole' /\ (pc # "off" => Covers(params))'
  BY DEF IntactIsWhole, Covers
<1>3. MappingIsStored'
  BY DEF MappingIsStored
<1>4. OutInRange' /\ Step2Timed'
  BY DEF OutInRange, Step2Timed
<1> QED
  BY <1>1, <1>2, <1>3, <1>4

\* The invariant is inductive.
THEOREM Inductive == IInv /\ [Next]_vars => IInv'
BY BootStep, EraseStep, WriteDefaultStep, PassStep, EndSaveStep, PowerFailStep,
   StutterStep DEF Next, Thread

\* So it holds in every reachable state.
THEOREM Invariance == Spec => []IInv
<1>1. Init => IInv
  BY InitIInv
<1>2. IInv /\ [Next]_vars => IInv'
  BY Inductive
<1> QED
  BY <1>1, <1>2, PTL DEF Spec

-----------------------------------------------------------------------------
\* Every variable keeps its type in every instance.
THEOREM TypeCorrect == Spec => []TypeOK
<1>1. IInv => TypeOK
  BY DEF IInv
<1> QED
  BY <1>1, Invariance, PTL

\* Whenever the sticks are mapped, the mapping is a whole stored record.
THEOREM MappingStored == Spec => []MappingIsStored
<1>1. IInv => MappingIsStored
  BY DEF IInv
<1> QED
  BY <1>1, Invariance, PTL

\* Calibration never narrows the nominal range.
THEOREM NominalCovered == Spec => []RangeCoversNominal
<1>1. IInv => RangeCoversNominal
  BY DEF IInv, RangeCoversNominal, Covers
<1> QED
  BY <1>1, Invariance, PTL

LEMMA WideAlways == IInv /\ pc # "off" => WideEnough(params)
<1>1. SUFFICES ASSUME IInv, pc # "off", NEW s \in Sticks
               PROVE  params.max[s] - params.min[s] >= 1200
  BY DEF WideEnough
<1>2. params.min \in [Sticks -> Values] /\ params.max \in [Sticks -> Values]
  BY <1>1 DEF IInv, TypeOK, Records
<1>3. params.min[s] \in Nat /\ params.max[s] \in Nat
  BY <1>2, ValuesAreNat
<1>4. params.min[s] <= 1500 /\ 3500 <= params.max[s]
  BY <1>1 DEF IInv, Covers, RANGE_MIN, RANGE_MAX
<1> QED
  BY <1>3, <1>4

\* So the test that ends STEP1 and STEP2 never refuses: once the time is up,
\* the next pass ends the step, whatever the sticks did.
THEOREM WidthTestIsVacuous == Spec => [](pc # "off" => WideEnough(params))
BY WideAlways, Invariance, PTL

\* A mapped stick is always transmitted inside 1000..2000.
THEOREM OutputInRange == Spec => []OutInRange
<1>1. IInv => OutInRange
  BY DEF IInv
<1> QED
  BY <1>1, Invariance, PTL

\* STEP2 always lasts its full time and hands over the last reading, however
\* often a press restarts the calibration.
THEOREM CentreTime == Spec => CentreTimeGiven
<1>1. IInv /\ [Next]_vars
        => [step = STEP2 /\ step' = STEP3
              => stay > FinishAfter /\ params'.mid = channels']_vars
  <2> SUFFICES ASSUME IInv, Next, step = STEP2, step' = STEP3
               PROVE  stay > FinishAfter /\ params'.mid = channels'
    BY DEF vars
  <2>1. CASE Pass
    BY <2>1, PassStep
  <2>2. CASE ~Pass
    BY <2>2 DEF Next, Thread, params_init, EraseForDefault, WriteDefault,
                EraseForSave, EndSave, Buttons, PowerFail
  <2> QED
    BY <2>1, <2>2
<1> QED
  BY <1>1, Invariance, PTL DEF Spec, CentreTimeGiven

-----------------------------------------------------------------------------
(***************************************************************************)
(* A calibration that nobody restarts ends, after a number of steps that   *)
(* is known from the start: what CalibrationEnds rests on.                 *)
(***************************************************************************)
\* The time of the step in passes, as the next pass will see it.
Since == IF elapsed = Off THEN 0 ELSE elapsed

\* The passes of STEP1 or STEP2.
StepLength == FinishAfter + 2

\* The three steps of the save are the pass up to the erase, the erase and
\* the write.
PassesLeft ==
    CASE step = STEP1 -> 2 * StepLength - Since + 3
      [] step = STEP2 -> StepLength - Since + 3
      [] step = STEP3 -> IF pc = "run" THEN 3 ELSE IF pc = "erase" THEN 2 ELSE 1
      [] step = NONE  -> 0

\* The right key is held, which begins STEP1 again.
Restarted == step' = STEP1 /\ stay' = 0

\* Only STEP3 saves, and the thread's steps begin with the run.
StepFits ==
    /\ pc \in {"erase", "write"} => step = STEP3
    /\ pc \in {"off", "erase_default", "write_default"} => step = NONE

LEMMA StepsDiffer ==
    NONE # STEP1 /\ NONE # STEP2 /\ NONE # STEP3 /\ STEP1 # STEP2 /\ STEP1 # STEP3 /\ STEP2 # STEP3
BY DEF NONE, STEP1, STEP2, STEP3

LEMMA StepFitsInductive == (Init => StepFits) /\ (StepFits /\ [Next]_vars => StepFits')
<1>1. Init => StepFits
  BY DEF Init, StepFits
<1>2. ASSUME StepFits, [Next]_vars PROVE StepFits'
  <2>1. CASE params_init
    BY <1>2, <2>1 DEF params_init, StepFits
  <2>2. CASE EraseForDefault \/ EraseForSave \/ WriteDefault
    BY <1>2, <2>2 DEF EraseForDefault, EraseForSave, WriteDefault, StepFits
  <2>3. CASE Pass
    BY <2>3 DEF Pass, Steer, CollectRange, CollectMid, BeginSave, StepFits
  <2>4. CASE EndSave
    BY <2>4 DEF EndSave, StepFits
  <2>5. CASE PowerFail
    BY <2>5 DEF PowerFail, StepFits
  <2>6. CASE UNCHANGED vars
    BY <1>2, <2>6 DEF vars, StepFits
  <2> QED
    BY <1>2, <2>1, <2>2, <2>3, <2>4, <2>5, <2>6 DEF Next, Thread
<1> QED
  BY <1>1, <1>2

\* A pass of STEP1 or STEP2 with the time `since', and what it leaves.
LEMMA TimedPass ==
    ASSUME IInv, NEW over \in BOOLEAN, over <=> Since > FinishAfter,
           elapsed' = NextTimeout(over, Since)
    PROVE  /\ Since \in 0..(FinishAfter + 1)
           /\ over  => Since = FinishAfter + 1 /\ Since' = 0
           /\ ~over => Since' = Since + 1
<1>1. FinishAfter \in Nat /\ Off = -1
  BY ConstantsAssumption DEF Off
<1>2. Since \in 0..(FinishAfter + 1)
  BY <1>1 DEF IInv, TypeOK, Since
<1>3. over => Since = FinishAfter + 1 /\ Since' = 0
  <2> SUFFICES ASSUME over PROVE Since = FinishAfter + 1 /\ Since' = 0
    OBVIOUS
  <2>1. Since = FinishAfter + 1
    BY <1>1, <1>2
  <2>2. elapsed' = Off
    BY DEF NextTimeout
  <2> QED
    BY <2>1, <2>2 DEF Since
<1>4. ~over => Since' = Since + 1
  <2> SUFFICES ASSUME ~over PROVE Since' = Since + 1
    OBVIOUS
  <2>1. Since \in 0..FinishAfter
    BY <1>1, <1>2
  <2>2. elapsed' = Since + 1
    BY <1>1, <2>1 DEF NextTimeout, Later
  <2>3. elapsed' # Off
    BY <1>1, <2>1, <2>2
  <2> QED
    BY <2>2, <2>3 DEF Since
<1> QED
  BY <1>2, <1>3, <1>4

LEMMA CollectRunsDown ==
    ASSUME IInv, IInv', pc = "run",
           NEW r \in [Sticks -> Adc], NEW turn \in {"none", "cw", "ccw"},
           NEW press \in {"none", "left_click", "right_long"}, ~Restarted,
           CollectRange(r, turn, press) \/ CollectMid(r, turn, press)
    PROVE  PassesLeft' = PassesLeft - 1
<1>1. press # "right_long"
  BY DEF CollectRange, CollectMid, Buttons, Restarted
<1>2. FinishAfter \in Nat /\ pc' = "run"
  BY ConstantsAssumption DEF CollectRange, CollectMid
<1>3. WideEnough(params')
  <2>1. (IInv /\ pc # "off" => WideEnough(params))'
    BY WideAlways, PTL
  <2> QED
    BY <1>2, <2>1 DEF WideEnough
<1>4. CASE CollectRange(r, turn, press)
  <2> DEFINE begun == IF elapsed = Off
                      THEN [params EXCEPT !.min = All(RANGE_MIN), !.max = All(RANGE_MAX)]
                      ELSE params
             p    == radio_update_range_min_max(begun, r)
             over == Since > FinishAfter /\ WideEnough(p)
  <2>1. /\ step = STEP1 /\ elapsed' = NextTimeout(over, Since)
        /\ step' = (IF over THEN STEP2 ELSE STEP1) /\ params' = p
    BY <1>1, <1>4 DEF CollectRange, Buttons, Since
  <2>2. over <=> Since > FinishAfter
    BY <1>3, <2>1
  <2>3. over \in BOOLEAN
    OBVIOUS
  <2> HIDE DEF over
  <2>4. /\ Since \in 0..(FinishAfter + 1)
        /\ over  => Since = FinishAfter + 1 /\ Since' = 0
        /\ ~over => Since' = Since + 1
    BY <2>1, <2>2, <2>3, TimedPass
  <2>5. PassesLeft = 2 * StepLength - Since + 3
    BY <2>1 DEF PassesLeft
  <2>6. CASE over
    <3>1. PassesLeft' = StepLength - Since' + 3
      BY <2>1, <2>6, StepsDiffer DEF PassesLeft, StepLength
    <3> QED
      BY <1>2, <2>4, <2>5, <2>6, <3>1 DEF StepLength
  <2>7. CASE ~over
    <3>1. PassesLeft' = 2 * StepLength - Since' + 3
      BY <2>1, <2>7 DEF PassesLeft, StepLength
    <3> QED
      BY <1>2, <2>4, <2>5, <2>7, <3>1 DEF StepLength
  <2> QED
    BY <2>6, <2>7
<1>5. CASE CollectMid(r, turn, press)
  <2> DEFINE p    == IF Since > MidAfter THEN [params EXCEPT !.mid = r] ELSE params
             over == Since > FinishAfter /\ WideEnough(p)
  <2>1. /\ step = STEP2 /\ elapsed' = NextTimeout(over, Since)
        /\ step' = (IF over THEN STEP3 ELSE STEP2) /\ params' = p
    BY <1>1, <1>5 DEF CollectMid, Buttons, Since
  <2>2. over <=> Since > FinishAfter
    BY <1>3, <2>1
  <2>3. over \in BOOLEAN
    OBVIOUS
  <2> HIDE DEF over
  <2>4. /\ Since \in 0..(FinishAfter + 1)
        /\ over  => Since = FinishAfter + 1 /\ Since' = 0
        /\ ~over => Since' = Since + 1
    BY <2>1, <2>2, <2>3, TimedPass
  <2>5. PassesLeft = StepLength - Since + 3
    BY <2>1, StepsDiffer DEF PassesLeft
  <2>6. CASE over
    <3>1. PassesLeft' = 3
      BY <1>2, <2>1, <2>6, StepsDiffer DEF PassesLeft
    <3> QED
      BY <1>2, <2>4, <2>5, <2>6, <3>1 DEF StepLength
  <2>7. CASE ~over
    <3>1. PassesLeft' = StepLength - Since' + 3
      BY <2>1, <2>7, StepsDiffer DEF PassesLeft, StepLength
    <3> QED
      BY <1>2, <2>4, <2>5, <2>7, <3>1 DEF StepLength
  <2> QED
    BY <2>6, <2>7
<1> QED
  BY <1>4, <1>5

LEMMA RunsDownStep ==
    ASSUME IInv, IInv', StepFits, Next, step # NONE, pc' # "off", ~Restarted
    PROVE  PassesLeft' = PassesLeft - 1
<1>1. ~PowerFail /\ ~params_init /\ ~EraseForDefault /\ ~WriteDefault
  BY DEF PowerFail, params_init, EraseForDefault, WriteDefault, StepFits
<1>2. CASE Pass
  <2>1. PICK r \in [Sticks -> Adc], turn \in {"none", "cw", "ccw"},
             press \in {"none", "left_click", "right_long"} :
          Steer(r, turn, press) \/ CollectRange(r, turn, press)
             \/ CollectMid(r, turn, press) \/ BeginSave(r, turn, press)
    BY <1>2 DEF Pass
  <2>2. pc = "run"
    BY <1>2 DEF Pass
  <2>3. CASE CollectRange(r, turn, press) \/ CollectMid(r, turn, press)
    BY <2>2, <2>3, CollectRunsDown
  <2>4. CASE BeginSave(r, turn, press)
    <3>1. step = STEP3 /\ step' = STEP3 /\ pc' = "erase"
      BY <2>4 DEF BeginSave
    <3>2. PassesLeft = 3 /\ PassesLeft' = 2
      BY <2>2, <3>1, StepsDiffer DEF PassesLeft
    <3> QED
      BY <3>2
  <2> QED
    BY <2>1, <2>3, <2>4 DEF Steer
<1>3. CASE EraseForSave
  <2>1. step = STEP3 /\ step' = STEP3 /\ pc = "erase" /\ pc' = "write"
    BY <1>3 DEF EraseForSave, StepFits
  <2>2. PassesLeft = 2 /\ PassesLeft' = 1
    BY <2>1, StepsDiffer DEF PassesLeft
  <2> QED
    BY <2>2
<1>4. CASE EndSave
  <2>1. step = STEP3 /\ pc = "write" /\ step' = NONE
    BY <1>4, StepsDiffer DEF EndSave, StepFits, Buttons, Restarted
  <2>2. PassesLeft = 1 /\ PassesLeft' = 0
    BY <2>1, StepsDiffer DEF PassesLeft
  <2> QED
    BY <2>2
<1> QED
  BY <1>1, <1>2, <1>3, <1>4 DEF Next, Thread

\* Every step of a calibration brings its end one nearer, whatever the sticks,
\* the knob and the left key do: only the right key and the power put it off.
THEOREM CalibrationRunsDown ==
    Spec => /\ [](step # NONE => PassesLeft \in 1..(2 * StepLength + 3))
            /\ [][step # NONE /\ pc' # "off" /\ ~Restarted
                    => PassesLeft' = PassesLeft - 1]_vars
<1>1. IInv => (step # NONE => PassesLeft \in 1..(2 * StepLength + 3))
  <2> SUFFICES ASSUME IInv, step # NONE PROVE PassesLeft \in 1..(2 * StepLength + 3)
    OBVIOUS
  <2>1. FinishAfter \in Nat /\ Since \in 0..(FinishAfter + 1)
    BY ConstantsAssumption DEF IInv, TypeOK, Since, Off
  <2>2. step \in {STEP1, STEP2, STEP3}
    BY DEF IInv, TypeOK
  <2>3. CASE step = STEP1
    BY <2>1, <2>3 DEF PassesLeft, StepLength
  <2>4. CASE step = STEP2
    <3>1. PassesLeft = StepLength - Since + 3
      BY <2>4, StepsDiffer DEF PassesLeft
    <3> QED
      BY <2>1, <3>1 DEF StepLength
  <2>5. CASE step = STEP3
    <3>1. PassesLeft \in 1..3
      BY <2>5, StepsDiffer DEF PassesLeft
    <3> QED
      BY <2>1, <3>1 DEF StepLength
  <2> QED
    BY <2>2, <2>3, <2>4, <2>5
<1>2. IInv /\ IInv' /\ StepFits /\ [Next]_vars
        => [step # NONE /\ pc' # "off" /\ ~Restarted => PassesLeft' = PassesLeft - 1]_vars
  BY RunsDownStep
<1> QED
  BY <1>1, <1>2, Invariance, StepFitsInductive, PTL DEF Spec
=============================================================================
