---------------------------- MODULE PanelProofs -----------------------------
(***************************************************************************)
(* Proofs about what the pilot presses (Button, for all times and field    *)
(* widths), and what he sees and hears (UserInterface, for any number of   *)
(* channels and any values): one verdict for every gesture and the right   *)
(* one, the debouncing; what is noted as drawn is drawn, and no request    *)
(* for a tone is forgotten.                                                *)
(***************************************************************************)
EXTENDS Button, UserInterface, TLAPS, FiniteSetTheorems

\* repeat counts the presses until it wraps.
RepeatCounts ==
    /\ state = 1 => presses = 1 /\ repeat = 1
    /\ state = 2 => presses >= 1
    /\ state = 3 => presses >= 2
    /\ state \in {1, 2, 3} => repeat <= presses
    /\ state \in {1, 2, 3} /\ presses < RepeatMod => repeat = presses

\* ticks tells how long the key has been down or up.
TicksCount ==
    /\ state = 1 => held = ticks /\ ticks <= LONG_TICKS
    /\ state = 2 => held = ticks /\ ticks <= SHORT_TICKS

\* debounce_cnt counts readings of the other level in a row.
ReadingsCount ==
    key_state # "none" /\ debounce_cnt > 0
       => level # key_state /\ steady >= UpTo(debounce_cnt, 3)

LongHasVerdict == state = 5 => verdicts = 1

\* A gesture begins when the level is known.
KeyKnown == state # 0 => key_state # "none"

IInv ==
    /\ TypeOK
    /\ StateFollowsKey
    /\ RepeatCounts
    /\ TicksCount
    /\ ReadingsCount
    /\ LongHasVerdict
    /\ KeyKnown
    /\ OneVerdict
    /\ VerdictFits

-----------------------------------------------------------------------------
LEMMA IncRange ==
    ASSUME NEW mod \in Nat, NEW n \in 0..(mod - 1)
    PROVE  Inc(n, mod) \in 0..(mod - 1) /\ Inc(n, mod) <= n + 1
BY SMT DEF Inc

\* Events of which none is a verdict count as none, others as one.
LEMMA NoVerdict ==
    /\ Cardinality({} \intersect Verdicts) = 0
    /\ Cardinality({"PRESS_DOWN"} \intersect Verdicts) = 0
    /\ Cardinality({"PRESS_UP"} \intersect Verdicts) = 0
    /\ Cardinality({"LONG_PRESS_HOLD"} \intersect Verdicts) = 0
    /\ Cardinality({"LONG_RRESS_START"} \intersect Verdicts) = 1
<1>1. /\ {} \intersect Verdicts = {}
      /\ {"PRESS_DOWN"} \intersect Verdicts = {}
      /\ {"PRESS_UP"} \intersect Verdicts = {}
      /\ {"LONG_PRESS_HOLD"} \intersect Verdicts = {}
      /\ {"LONG_RRESS_START"} \intersect Verdicts = {"LONG_RRESS_START"}
  BY DEF Verdicts
<1> QED BY <1>1, FS_EmptySet, FS_Singleton

LEMMA ClicksCount ==
    ASSUME repeat \in Nat
    PROVE  /\ Cardinality(Clicks \intersect Verdicts) = IF repeat = 0 THEN 0 ELSE 1
           /\ Cardinality(({"PRESS_UP"} \union (Clicks \ {"SINGLE_CLICK"})) \intersect Verdicts)
                 = IF repeat <= 1 THEN 0 ELSE 1
<1> DEFINE E == {"PRESS_UP"} \union (Clicks \ {"SINGLE_CLICK"})
<1>1. CASE repeat = 0
  <2>1. Clicks \intersect Verdicts = {} /\ E \intersect Verdicts = {}
    BY <1>1, SMT DEF Clicks, Verdicts
  <2> QED BY <2>1, <1>1, FS_EmptySet
<1>2. CASE repeat = 1
  <2>1. Clicks \intersect Verdicts = {"SINGLE_CLICK"} /\ E \intersect Verdicts = {}
    BY <1>2, SMT DEF Clicks, Verdicts
  <2> QED BY <2>1, <1>2, FS_EmptySet, FS_Singleton
<1>3. CASE repeat > 1
  <2>1. Clicks \intersect Verdicts = {"PRESS_REPEAT"} /\ E \intersect Verdicts = {"PRESS_REPEAT"}
    BY <1>3, SMT DEF Clicks, Verdicts
  <2> QED BY <2>1, <1>3, FS_EmptySet, FS_Singleton
<1> QED BY <1>1, <1>2, <1>3, SMT

-----------------------------------------------------------------------------
\* The invariant holds in every initial state.
THEOREM Initially == Init => IInv
<1>1. Init => TypeOK
  BY ConstantsAssumption, SMT DEF Init, TypeOK, Levels
<1> QED BY <1>1, SMT DEF Init, IInv, StateFollowsKey, RepeatCounts, TicksCount,
           ReadingsCount, LongHasVerdict, KeyKnown, OneVerdict, VerdictFits

\* What a call does whatever the state machine does.
Common(l) ==
    /\ key_state' \in Levels \union {"none"}
    /\ debounce_cnt' \in 0..(DEBOUNCE_TICKS - 1)
    /\ level' \in Levels /\ steady' \in 0..3
    /\ held' \in 0..TickMod
    /\ held' = (IF key_state' # key_state THEN 0 ELSE UpTo(held + 1, TickMod))
    /\ key_state' = "down" /\ key_state # "down" => held' = 0
    /\ ReadingsCount'
    /\ KeyKnown'

LEMMA CommonStep ==
    ASSUME IInv, NEW l \in Levels, button_handler(l)
    PROVE  Common(l)
<1>t. /\ debounce_cnt \in 0..(DEBOUNCE_TICKS - 1) /\ DEBOUNCE_TICKS \in Nat \ {0}
      /\ key_state \in Levels \union {"none"}
      /\ held \in 0..TickMod /\ TickMod \in Nat /\ TickMod > 0
      /\ level \in Levels /\ steady \in 0..3
      /\ ReadingsCount
  BY ConstantsAssumption, SMT DEF IInv, TypeOK
<1>h. held' = IF key_state' # key_state THEN 0 ELSE UpTo(held + 1, TickMod)
  BY DEF button_handler, History
<1>l. level' = l /\ steady' = IF l = level THEN UpTo(steady + 1, 3) ELSE 1
  BY DEF button_handler, History
<1>1. held' \in 0..TickMod
  BY <1>h, <1>t, SMT DEF UpTo
<1>2. steady' \in 0..3
  BY <1>l, <1>t, SMT DEF UpTo
<1>3. debounce_cnt' \in 0..(DEBOUNCE_TICKS - 1)
  BY <1>t, SMT DEF button_handler, Debounce
<1>4. key_state' \in Levels \union {"none"}
  BY <1>t DEF button_handler, Debounce
<1>5. ReadingsCount'
  <2> SUFFICES ASSUME key_state' # "none", debounce_cnt' > 0
               PROVE  level' # key_state' /\ steady' >= UpTo(debounce_cnt', 3)
    BY DEF ReadingsCount
  <2>1. /\ l # key_state /\ key_state' = key_state
        /\ debounce_cnt' = debounce_cnt + 1
    BY <1>t, SMT DEF button_handler, Debounce
  <2>2. CASE debounce_cnt = 0
    BY <2>1, <2>2, <1>l, <1>t, SMT DEF UpTo
  <2>3. CASE debounce_cnt > 0
    <3>1. level # key_state /\ steady >= UpTo(debounce_cnt, 3)
      BY <2>1, <2>3, <1>t DEF ReadingsCount
    <3>2. l = level
      BY <2>1, <3>1, <1>t DEF Levels
    <3>3. steady' = UpTo(steady + 1, 3)
      BY <3>2, <1>l
    <3> QED BY <3>1, <3>3, <2>1, <1>l, <1>t, SMT DEF UpTo
  <2> QED BY <2>2, <2>3, <1>t, SMT
<1>6. KeyKnown'
  <2>1. CASE state = 0
    BY <2>1 DEF button_handler, Idle, FirstPress, Released, PressedAgain, Long,
       Goes, Down, KeyKnown
  <2>2. CASE state # 0
    <3>1. key_state # "none"
      BY <2>2 DEF IInv, KeyKnown
    <3> QED BY <3>1 DEF button_handler, Debounce, KeyKnown, Levels
  <2> QED BY <2>1, <2>2
<1> QED BY <1>1, <1>2, <1>3, <1>4, <1>5, <1>6, <1>h, <1>l DEF Common

\* The facts every case of the state machine starts from.
Facts ==
    /\ ticks \in 0..(TickMod - 1) /\ repeat \in 0..(RepeatMod - 1)
    /\ presses \in Nat /\ held \in 0..TickMod /\ verdicts \in Nat
    /\ SHORT_TICKS \in Nat /\ LONG_TICKS \in Nat /\ RepeatMod \in Nat /\ TickMod \in Nat
    /\ RepeatMod > 2 /\ TickMod > SHORT_TICKS + 1 /\ TickMod > LONG_TICKS + 1
    /\ Ticked \in 0..(TickMod - 1)

LEMMA FactsHold == ASSUME IInv PROVE Facts
<1>1. /\ ticks \in 0..(TickMod - 1) /\ TickMod \in Nat
  BY ConstantsAssumption DEF IInv, TypeOK
<1>2. Ticked \in 0..(TickMod - 1)
  BY <1>1, IncRange DEF Ticked
<1> QED BY <1>2, ConstantsAssumption DEF IInv, TypeOK, Facts

\* The type invariant from the parts that differ from case to case.
LEMMA TypeStep ==
    ASSUME NEW l, Common(l), Facts,
           state' \in {0, 1, 2, 3, 5},
           ticks' \in 0..(TickMod - 1), repeat' \in 0..(RepeatMod - 1),
           fired' \subseteq Events, presses' \in Nat, verdicts' \in Nat
    PROVE  TypeOK'
BY DEF Common, TypeOK

LEMMA IdleStep ==
    ASSUME IInv, NEW l \in Levels, button_handler(l), Idle
    PROVE  IInv'
<1>c. Common(l) /\ Facts
  BY CommonStep, FactsHold
<1>s. state = 0 /\ key_state # "down"
  BY DEF Idle, IInv, StateFollowsKey
<1>h. /\ presses' = IF "PRESS_DOWN" \in fired' THEN 1 ELSE presses
      /\ verdicts' = (IF state' = 0 THEN verdicts ELSE 0) + Cardinality(fired' \intersect Verdicts)
  BY <1>s DEF button_handler, History
<1>1. CASE Down /\ Goes(1, 0, 1, {"PRESS_DOWN"})
  <2>1. /\ state' = 1 /\ ticks' = 0 /\ repeat' = 1 /\ fired' = {"PRESS_DOWN"}
        /\ key_state' = "down" /\ held' = 0
    BY <1>1, <1>c, <1>s DEF Goes, Down, Common
  <2>2. presses' = 1 /\ verdicts' = 0
    BY <2>1, <1>h, NoVerdict
  <2>3. TypeOK'
    BY <2>1, <2>2, <1>c, TypeStep, SMT DEF Facts, Events
  <2>4. StateFollowsKey' /\ RepeatCounts' /\ TicksCount' /\ LongHasVerdict' /\ OneVerdict'
    BY <2>1, <2>2, <1>c, SMT DEF StateFollowsKey, RepeatCounts, TicksCount,
       LongHasVerdict, OneVerdict, Facts
  <2>5. VerdictFits'
    BY <2>1 DEF VerdictFits
  <2> QED BY <2>3, <2>4, <2>5, <1>c DEF IInv, Common
<1>2. CASE ~Down /\ Goes(0, ticks, repeat, {})
  <2>1. /\ state' = 0 /\ ticks' = ticks /\ repeat' = repeat /\ fired' = {}
        /\ key_state' # "down"
    BY <1>2 DEF Goes, Down
  <2>2. presses' = presses /\ verdicts' = verdicts
    BY <2>1, <1>h, <1>c, NoVerdict, SMT DEF Facts
  <2>3. TypeOK'
    BY <2>1, <2>2, <1>c, TypeStep, SMT DEF Facts, Events
  <2>4. StateFollowsKey' /\ RepeatCounts' /\ TicksCount' /\ LongHasVerdict'
    BY <2>1, <2>2 DEF StateFollowsKey, RepeatCounts, TicksCount, LongHasVerdict
  <2>5. OneVerdict'
    BY <2>1, <2>2, <1>s DEF IInv, OneVerdict
  <2>6. VerdictFits'
    BY <2>1 DEF VerdictFits
  <2> QED BY <2>3, <2>4, <2>5, <2>6, <1>c DEF IInv, Common
<1> QED BY <1>1, <1>2 DEF Idle

LEMMA FirstPressStep ==
    ASSUME IInv, NEW l \in Levels, button_handler(l), FirstPress
    PROVE  IInv'
<1>c. Common(l) /\ Facts
  BY CommonStep, FactsHold
<1>s. /\ state = 1 /\ key_state = "down" /\ presses = 1 /\ repeat = 1
      /\ held = ticks /\ ticks <= LONG_TICKS /\ verdicts = 0
  BY DEF FirstPress, IInv, StateFollowsKey, RepeatCounts, TicksCount, OneVerdict
<1>h. /\ presses' = IF "PRESS_DOWN" \in fired' THEN presses + 1 ELSE presses
      /\ verdicts' = verdicts + Cardinality(fired' \intersect Verdicts)
  BY <1>s DEF button_handler, History
<1>k. Ticked = ticks + 1
  BY <1>s, <1>c, SMT DEF Ticked, Inc, Facts
<1>1. CASE ~Down /\ Goes(2, 0, repeat, {"PRESS_UP"})
  <2>1. /\ state' = 2 /\ ticks' = 0 /\ repeat' = 1 /\ fired' = {"PRESS_UP"}
        /\ key_state' # "down" /\ held' = 0
    BY <1>1, <1>c, <1>s DEF Goes, Down, Common
  <2>2. presses' = 1 /\ verdicts' = 0
    BY <2>1, <1>h, <1>s, NoVerdict, SMT
  <2>3. TypeOK'
    BY <2>1, <2>2, <1>c, TypeStep, SMT DEF Facts, Events
  <2>4. StateFollowsKey' /\ RepeatCounts' /\ TicksCount' /\ LongHasVerdict' /\ OneVerdict'
    BY <2>1, <2>2, <1>c, SMT DEF StateFollowsKey, RepeatCounts, TicksCount,
       LongHasVerdict, OneVerdict, Facts
  <2>5. VerdictFits'
    BY <2>1 DEF VerdictFits
  <2> QED BY <2>3, <2>4, <2>5, <1>c DEF IInv, Common
<1>2. CASE Down /\ Ticked > LONG_TICKS /\ Goes(5, Ticked, repeat, {"LONG_RRESS_START"})
  <2>1. /\ state' = 5 /\ ticks' = Ticked /\ repeat' = 1 /\ fired' = {"LONG_RRESS_START"}
        /\ key_state' = "down"
    BY <1>2, <1>s DEF Goes, Down
  <2>2. presses' = 1 /\ verdicts' = 1
    BY <2>1, <1>h, <1>s, NoVerdict, SMT
  <2>3. held' = LONG_TICKS + 1
    <3>1. held' = UpTo(held + 1, TickMod)
      BY <2>1, <1>s, <1>c DEF Common
    <3> QED BY <3>1, <1>2, <1>k, <1>s, <1>c, SMT DEF UpTo, Facts
  <2>4. TypeOK'
    BY <2>1, <2>2, <1>c, TypeStep, SMT DEF Facts, Events
  <2>5. StateFollowsKey' /\ RepeatCounts' /\ TicksCount' /\ LongHasVerdict' /\ OneVerdict'
    BY <2>1, <2>2, <1>c, SMT DEF StateFollowsKey, RepeatCounts, TicksCount,
       LongHasVerdict, OneVerdict, Facts
  <2>6. VerdictFits'
    BY <2>1, <2>2, <2>3 DEF VerdictFits
  <2> QED BY <2>4, <2>5, <2>6, <1>c DEF IInv, Common
<1>3. CASE Down /\ Ticked <= LONG_TICKS /\ Goes(1, Ticked, repeat, {})
  <2>1. /\ state' = 1 /\ ticks' = Ticked /\ repeat' = 1 /\ fired' = {}
        /\ key_state' = "down"
    BY <1>3, <1>s DEF Goes, Down
  <2>2. presses' = 1 /\ verdicts' = 0
    BY <2>1, <1>h, <1>s, NoVerdict, SMT
  <2>3. held' = ticks'
    <3>1. held' = UpTo(held + 1, TickMod)
      BY <2>1, <1>s, <1>c DEF Common
    <3> QED BY <3>1, <2>1, <1>3, <1>k, <1>s, <1>c, SMT DEF UpTo, Facts
  <2>4. TypeOK'
    BY <2>1, <2>2, <1>c, TypeStep, SMT DEF Facts, Events
  <2>5. StateFollowsKey' /\ RepeatCounts' /\ TicksCount' /\ LongHasVerdict' /\ OneVerdict'
    BY <2>1, <2>2, <2>3, <1>3, <1>c, SMT DEF StateFollowsKey, RepeatCounts, TicksCount,
       LongHasVerdict, OneVerdict, Facts
  <2>6. VerdictFits'
    BY <2>1 DEF VerdictFits
  <2> QED BY <2>4, <2>5, <2>6, <1>c DEF IInv, Common
<1> QED BY <1>1, <1>2, <1>3 DEF FirstPress

LEMMA ReleasedStep ==
    ASSUME IInv, NEW l \in Levels, button_handler(l), Released
    PROVE  IInv'
<1>c. Common(l) /\ Facts
  BY CommonStep, FactsHold
<1>s. /\ state = 2 /\ key_state = "up" /\ presses >= 1 /\ repeat <= presses
      /\ presses < RepeatMod => repeat = presses
      /\ held = ticks /\ ticks <= SHORT_TICKS /\ verdicts = 0
  BY DEF Released, IInv, TypeOK, Levels, KeyKnown, StateFollowsKey, RepeatCounts,
     TicksCount, OneVerdict
<1>u. ~Down => key_state' = "up" /\ held' = UpTo(held + 1, TickMod)
  BY <1>s, <1>c DEF Down, Common, KeyKnown, button_handler, Debounce, Levels
<1>h. /\ presses' = IF "PRESS_DOWN" \in fired' THEN presses + 1 ELSE presses
      /\ verdicts' = verdicts + Cardinality(fired' \intersect Verdicts)
  BY <1>s DEF button_handler, History
<1>k. Ticked = ticks + 1
  BY <1>s, <1>c, SMT DEF Ticked, Inc, Facts
<1>1. CASE Down /\ Goes(3, 0, Inc(repeat, RepeatMod), {"PRESS_DOWN"})
  <2>1. /\ state' = 3 /\ ticks' = 0 /\ repeat' = Inc(repeat, RepeatMod)
        /\ fired' = {"PRESS_DOWN"} /\ key_state' = "down"
    BY <1>1 DEF Goes, Down
  <2>2. presses' = presses + 1 /\ verdicts' = 0
    BY <2>1, <1>h, <1>s, NoVerdict, SMT
  <2>3. /\ repeat' \in 0..(RepeatMod - 1) /\ repeat' <= presses'
        /\ presses' < RepeatMod => repeat' = presses'
    BY <2>1, <2>2, <1>s, <1>c, SMT DEF Inc, Facts
  <2>4. TypeOK'
    BY <2>1, <2>2, <2>3, <1>c, TypeStep, SMT DEF Facts, Events
  <2>5. StateFollowsKey' /\ RepeatCounts' /\ TicksCount' /\ LongHasVerdict' /\ OneVerdict'
    BY <2>1, <2>2, <2>3, <1>s, <1>c, SMT DEF StateFollowsKey, RepeatCounts, TicksCount,
       LongHasVerdict, OneVerdict, Facts
  <2>6. VerdictFits'
    BY <2>1 DEF VerdictFits
  <2> QED BY <2>4, <2>5, <2>6, <1>c DEF IInv, Common
<1>2. CASE ~Down /\ Ticked > SHORT_TICKS /\ Goes(0, Ticked, repeat, Clicks)
  <2>1. /\ state' = 0 /\ ticks' = Ticked /\ repeat' = repeat /\ fired' = Clicks
        /\ key_state' # "down"
    BY <1>2 DEF Goes, Down
  <2>2. presses' = presses
    BY <2>1, <1>h DEF Clicks
  <2>3. verdicts' = IF repeat = 0 THEN 0 ELSE 1
    BY <2>1, <1>h, <1>s, <1>c, ClicksCount, SMT DEF Facts
  <2>4. fired' \subseteq Events
    BY <2>1 DEF Clicks, Events
  <2>5. TypeOK'
    BY <2>1, <2>2, <2>3, <2>4, <1>c, TypeStep, SMT DEF Facts
  <2>6. StateFollowsKey' /\ RepeatCounts' /\ TicksCount' /\ LongHasVerdict' /\ OneVerdict'
    BY <2>1, <2>2, <2>3, <1>s, <1>c, SMT DEF StateFollowsKey, RepeatCounts, TicksCount,
       LongHasVerdict, OneVerdict, Facts
  <2>7. "SINGLE_CLICK" \in fired' => repeat = 1 /\ key_state' = "up" /\ held' > SHORT_TICKS
    <3>1. "SINGLE_CLICK" \in fired' => repeat = 1
      BY <2>1 DEF Clicks
    <3>2. held' > SHORT_TICKS /\ key_state' = "up"
      BY <1>2, <1>u, <1>k, <1>s, <1>c, SMT DEF UpTo, Facts
    <3> QED BY <3>1, <3>2
  <2>8. /\ "DOUBLE_CLICK" \in fired' => repeat = 2
        /\ "PRESS_REPEAT" \in fired' => repeat > 1
        /\ "LONG_RRESS_START" \notin fired'
    BY <2>1 DEF Clicks
  <2>9. VerdictFits'
    BY <2>2, <2>7, <2>8, <1>s, <1>c, SMT DEF VerdictFits, Facts
  <2> QED BY <2>5, <2>6, <2>9, <1>c DEF IInv, Common
<1>3. CASE ~Down /\ Ticked <= SHORT_TICKS /\ Goes(2, Ticked, repeat, {})
  <2>1. /\ state' = 2 /\ ticks' = Ticked /\ repeat' = repeat /\ fired' = {}
        /\ key_state' # "down"
    BY <1>3 DEF Goes, Down
  <2>2. presses' = presses /\ verdicts' = 0
    BY <2>1, <1>h, <1>s, NoVerdict, SMT
  <2>3. held' = ticks'
    BY <2>1, <1>3, <1>u, <1>k, <1>s, <1>c, SMT DEF UpTo, Facts
  <2>4. TypeOK'
    BY <2>1, <2>2, <1>c, TypeStep, SMT DEF Facts, Events
  <2>5. StateFollowsKey' /\ RepeatCounts' /\ TicksCount' /\ LongHasVerdict' /\ OneVerdict'
    BY <2>1, <2>2, <2>3, <1>3, <1>s, <1>c, SMT DEF StateFollowsKey, RepeatCounts, TicksCount,
       LongHasVerdict, OneVerdict, Facts
  <2>6. VerdictFits'
    BY <2>1 DEF VerdictFits
  <2> QED BY <2>4, <2>5, <2>6, <1>c DEF IInv, Common
<1> QED BY <1>1, <1>2, <1>3 DEF Released

LEMMA PressedAgainStep ==
    ASSUME IInv, NEW l \in Levels, button_handler(l), PressedAgain
    PROVE  IInv'
<1>c. Common(l) /\ Facts
  BY CommonStep, FactsHold
<1>s. /\ state = 3 /\ key_state = "down" /\ presses >= 2 /\ repeat <= presses
      /\ presses < RepeatMod => repeat = presses
      /\ verdicts = 0
  BY DEF PressedAgain, IInv, StateFollowsKey, RepeatCounts, OneVerdict
<1>h. /\ presses' = IF "PRESS_DOWN" \in fired' THEN presses + 1 ELSE presses
      /\ verdicts' = verdicts + Cardinality(fired' \intersect Verdicts)
  BY <1>s DEF button_handler, History
<1>1. CASE ~Down /\ Ticked < SHORT_TICKS /\ Goes(2, 0, repeat, {"PRESS_UP"})
  <2>1. /\ state' = 2 /\ ticks' = 0 /\ repeat' = repeat /\ fired' = {"PRESS_UP"}
        /\ key_state' # "down" /\ held' = 0
    BY <1>1, <1>c, <1>s DEF Goes, Down, Common
  <2>2. presses' = presses /\ verdicts' = 0
    BY <2>1, <1>h, <1>s, NoVerdict, SMT
  <2>3. TypeOK'
    BY <2>1, <2>2, <1>c, TypeStep, SMT DEF Facts, Events
  <2>4. StateFollowsKey' /\ RepeatCounts' /\ TicksCount' /\ LongHasVerdict' /\ OneVerdict'
    BY <2>1, <2>2, <1>s, <1>c, SMT DEF StateFollowsKey, RepeatCounts, TicksCount,
       LongHasVerdict, OneVerdict, Facts
  <2>5. VerdictFits'
    BY <2>1 DEF VerdictFits
  <2> QED BY <2>3, <2>4, <2>5, <1>c DEF IInv, Common
<1>2. CASE /\ ~Down /\ Ticked >= SHORT_TICKS
           /\ Goes(0, Ticked, repeat, {"PRESS_UP"} \union (Clicks \ {"SINGLE_CLICK"}))
  <2>1. /\ state' = 0 /\ ticks' = Ticked /\ repeat' = repeat
        /\ fired' = {"PRESS_UP"} \union (Clicks \ {"SINGLE_CLICK"})
        /\ key_state' # "down"
    BY <1>2 DEF Goes, Down
  <2>2. presses' = presses
    BY <2>1, <1>h DEF Clicks
  <2>3. verdicts' = IF repeat <= 1 THEN 0 ELSE 1
    BY <2>1, <1>h, <1>s, <1>c, ClicksCount, SMT DEF Facts
  <2>4. fired' \subseteq Events
    BY <2>1 DEF Clicks, Events
  <2>5. TypeOK'
    BY <2>1, <2>2, <2>3, <2>4, <1>c, TypeStep, SMT DEF Facts
  <2>6. StateFollowsKey' /\ RepeatCounts' /\ TicksCount' /\ LongHasVerdict' /\ OneVerdict'
    BY <2>1, <2>2, <2>3, <1>s, <1>c, SMT DEF StateFollowsKey, RepeatCounts, TicksCount,
       LongHasVerdict, OneVerdict, Facts
  <2>7. /\ "DOUBLE_CLICK" \in fired' => repeat = 2
        /\ "PRESS_REPEAT" \in fired' => repeat > 1
        /\ "SINGLE_CLICK" \notin fired' /\ "LONG_RRESS_START" \notin fired'
    BY <2>1 DEF Clicks
  <2>8. VerdictFits'
    BY <2>2, <2>7, <1>s, <1>c, SMT DEF VerdictFits, Facts
  <2> QED BY <2>5, <2>6, <2>8, <1>c DEF IInv, Common
<1>3. CASE Down /\ Goes(3, Ticked, repeat, {})
  <2>1. /\ state' = 3 /\ ticks' = Ticked /\ repeat' = repeat /\ fired' = {}
        /\ key_state' = "down"
    BY <1>3 DEF Goes, Down
  <2>2. presses' = presses /\ verdicts' = 0
    BY <2>1, <1>h, <1>s, NoVerdict, SMT
  <2>3. TypeOK'
    BY <2>1, <2>2, <1>c, TypeStep, SMT DEF Facts, Events
  <2>4. StateFollowsKey' /\ RepeatCounts' /\ TicksCount' /\ LongHasVerdict' /\ OneVerdict'
    BY <2>1, <2>2, <1>s DEF StateFollowsKey, RepeatCounts, TicksCount,
       LongHasVerdict, OneVerdict
  <2>5. VerdictFits'
    BY <2>1 DEF VerdictFits
  <2> QED BY <2>3, <2>4, <2>5, <1>c DEF IInv, Common
<1> QED BY <1>1, <1>2, <1>3 DEF PressedAgain

LEMMA LongStep ==
    ASSUME IInv, NEW l \in Levels, button_handler(l), Long
    PROVE  IInv'
<1>c. Common(l) /\ Facts
  BY CommonStep, FactsHold
<1>s. state = 5 /\ verdicts = 1
  BY DEF Long, IInv, LongHasVerdict
<1>h. /\ presses' = IF "PRESS_DOWN" \in fired' THEN presses + 1 ELSE presses
      /\ verdicts' = verdicts + Cardinality(fired' \intersect Verdicts)
  BY <1>s DEF button_handler, History
<1>1. /\ ticks' = Ticked /\ repeat' = repeat
      /\ \/ state' = 5 /\ key_state' = "down" /\ fired' = {"LONG_PRESS_HOLD"}
         \/ state' = 0 /\ key_state' # "down" /\ fired' = {"PRESS_UP"}
  BY DEF Long, Goes, Down
<1>2. presses' = presses /\ verdicts' = 1
  <2>1. "PRESS_DOWN" \notin fired'
    BY <1>1
  <2>2. Cardinality(fired' \intersect Verdicts) = 0
    BY <1>1, NoVerdict
  <2> QED BY <2>1, <2>2, <1>h, <1>s, SMT
<1>3. TypeOK'
  BY <1>1, <1>2, <1>c, TypeStep, SMT DEF Facts, Events
<1>4. StateFollowsKey' /\ RepeatCounts' /\ TicksCount' /\ LongHasVerdict' /\ OneVerdict'
  BY <1>1, <1>2, <1>c, SMT DEF StateFollowsKey, RepeatCounts, TicksCount,
     LongHasVerdict, OneVerdict, Facts
<1>5. VerdictFits'
  BY <1>1 DEF VerdictFits
<1> QED BY <1>3, <1>4, <1>5, <1>c DEF IInv, Common

\* Every step of the code, and every stutter, preserves the invariant.
THEOREM Inductive == IInv /\ [Next]_vars => IInv'
<1> SUFFICES ASSUME IInv, [Next]_vars PROVE IInv'
  OBVIOUS
<1>1. ASSUME NEW l \in Levels, button_handler(l) PROVE IInv'
  <2>1. Idle \/ FirstPress \/ Released \/ PressedAgain \/ Long
    BY <1>1 DEF button_handler
  <2> QED BY <2>1, <1>1, IdleStep, FirstPressStep, ReleasedStep, PressedAgainStep, LongStep
<1>2. CASE UNCHANGED vars
  BY <1>2 DEF vars, IInv, TypeOK, StateFollowsKey, RepeatCounts, TicksCount,
     ReadingsCount, LongHasVerdict, KeyKnown, OneVerdict, VerdictFits
<1> QED BY <1>1, <1>2 DEF Next

\* So it holds in every reachable state.
THEOREM Invariance == Spec => []IInv
BY Initially, Inductive, PTL DEF Spec

\* The fields of button_t keep within their widths.
THEOREM TypeCorrect == Spec => []TypeOK
BY Invariance, PTL DEF IInv

\* Every gesture of fewer than RepeatMod presses gets exactly one verdict.
THEOREM GestureHasOneVerdict == Spec => []OneVerdict
BY Invariance, PTL DEF IInv

\* The verdict is the one the presses and their lengths call for.
THEOREM GestureHasRightVerdict == Spec => []VerdictFits
BY Invariance, PTL DEF IInv

\* The state machine is in a pressed state exactly while the key is down.
THEOREM FollowsKey == Spec => []StateFollowsKey
BY Invariance, PTL DEF IInv

\* Once the level is known it changes only after DEBOUNCE_TICKS equal readings.
THEOREM DebounceWorks == Spec => Debounced
<1>1. ASSUME IInv, [Next]_vars
      PROVE  [key_state # "none" /\ key_state' # key_state
                => level' = key_state' /\ steady' >= UpTo(DEBOUNCE_TICKS, 3)]_vars
  <2> SUFFICES ASSUME Next, key_state # "none", key_state' # key_state
               PROVE  level' = key_state' /\ steady' >= UpTo(DEBOUNCE_TICKS, 3)
    BY <1>1
  <2>1. PICK l \in Levels : button_handler(l)
    BY DEF Next
  <2>t. /\ debounce_cnt \in 0..(DEBOUNCE_TICKS - 1) /\ DEBOUNCE_TICKS \in Nat \ {0}
        /\ key_state \in Levels /\ level \in Levels /\ steady \in 0..3
        /\ ReadingsCount
    BY <1>1, ConstantsAssumption, SMT DEF IInv, TypeOK
  <2>2. /\ l # key_state /\ key_state' = l /\ debounce_cnt + 1 >= DEBOUNCE_TICKS
        /\ level' = l /\ steady' = IF l = level THEN UpTo(steady + 1, 3) ELSE 1
    BY <2>1 DEF button_handler, Debounce, History
  <2>3. CASE debounce_cnt = 0
    BY <2>2, <2>3, <2>t, SMT DEF UpTo
  <2>4. CASE debounce_cnt > 0
    <3>1. level # key_state /\ steady >= UpTo(debounce_cnt, 3)
      BY <2>4, <2>t DEF ReadingsCount
    <3>2. l = level
      BY <2>2, <3>1, <2>t DEF Levels
    <3>3. steady' = UpTo(steady + 1, 3)
      BY <3>2, <2>2
    <3> QED BY <3>1, <3>3, <2>2, <2>t, SMT DEF UpTo
  <2> QED BY <2>3, <2>4, <2>t, SMT
<1> QED BY <1>1, Invariance, PTL DEF Spec, Debounced

\* The readings of a key that is let go until its gesture is over, at most.
RestLeft ==
    CASE state = 0 -> 0
      [] state = 2 -> SHORT_TICKS + 1 - ticks
      [] OTHER     -> DEBOUNCE_TICKS - debounce_cnt + SHORT_TICKS + 1

LEMMA RestLeftType ==
    IInv => RestLeft \in 0..(DEBOUNCE_TICKS + SHORT_TICKS + 1) /\ (state # 0 => RestLeft > 0)
<1> SUFFICES ASSUME IInv
             PROVE  RestLeft \in 0..(DEBOUNCE_TICKS + SHORT_TICKS + 1) /\ (state # 0 => RestLeft > 0)
  OBVIOUS
<1>1. /\ DEBOUNCE_TICKS \in Nat \ {0} /\ SHORT_TICKS \in Nat
      /\ debounce_cnt \in 0..(DEBOUNCE_TICKS - 1) /\ ticks \in Nat
      /\ state = 2 => ticks <= SHORT_TICKS
  BY ConstantsAssumption, SMT DEF IInv, TypeOK, TicksCount
<1>2. CASE state = 0
  BY <1>1, <1>2, SMT DEF RestLeft
<1>3. CASE state = 2
  <2>1. RestLeft = SHORT_TICKS + 1 - ticks
    BY <1>3 DEF RestLeft
  <2> QED BY <1>1, <1>3, <2>1, SMT
<1>4. CASE state # 0 /\ state # 2
  <2>1. RestLeft = DEBOUNCE_TICKS - debounce_cnt + SHORT_TICKS + 1
    BY <1>4 DEF RestLeft
  <2> QED BY <1>1, <2>1, SMT
<1> QED BY <1>2, <1>3, <1>4

LEMMA RestStep ==
    ASSUME IInv, IInv', button_handler("up")
    PROVE  (state = 0 => state' = 0) /\ (state # 0 => RestLeft' < RestLeft)
<1>1. /\ DEBOUNCE_TICKS \in Nat \ {0} /\ SHORT_TICKS \in Nat
      /\ debounce_cnt \in 0..(DEBOUNCE_TICKS - 1) /\ ticks \in Nat
      /\ debounce_cnt' \in 0..(DEBOUNCE_TICKS - 1) /\ ticks' \in Nat
      /\ state = 2 => ticks <= SHORT_TICKS
      /\ state' = 2 => ticks' <= SHORT_TICKS
      /\ TickMod \in Nat /\ TickMod > SHORT_TICKS + 1
  BY ConstantsAssumption, SMT DEF IInv, TypeOK, TicksCount
<1>2. /\ state \in {1, 3, 5} <=> key_state = "down"
      /\ state' \in {1, 3, 5} <=> key_state' = "down"
      /\ state \in {0, 1, 2, 3, 5} /\ state' \in {0, 1, 2, 3, 5}
  BY DEF IInv, TypeOK, StateFollowsKey
<1>3. /\ Debounce("up")
      /\ Idle \/ FirstPress \/ Released \/ PressedAgain \/ Long
  BY DEF button_handler
<1>4. CASE state \in {0, 2}
  <2>1. key_state # "down" /\ ~Down
    BY <1>2, <1>3, <1>4 DEF Debounce, Down
  <2>2. CASE state = 0
    <3>1. state' = 0
      BY <1>3, <2>1, <2>2 DEF Idle, FirstPress, Released, PressedAgain, Long, Goes
    <3> QED BY <2>2, <3>1
  <2>3. CASE state = 2
    <3>1. \/ state' = 0
          \/ state' = 2 /\ ticks' = Ticked
      BY <1>3, <2>1, <2>3 DEF Idle, FirstPress, Released, PressedAgain, Long, Goes
    <3>2. RestLeft = SHORT_TICKS + 1 - ticks
      BY <2>3 DEF RestLeft
    <3>3. state' = 2 => RestLeft' = SHORT_TICKS + 1 - ticks'
      BY DEF RestLeft
    <3>4. state' = 0 => RestLeft' = 0
      BY DEF RestLeft
    <3>5. Ticked = ticks + 1
      BY <1>1, <2>3, SMT DEF Ticked, Inc
    <3> QED BY <1>1, <2>3, <3>1, <3>2, <3>3, <3>4, <3>5, SMT
  <2> QED BY <1>4, <2>2, <2>3
<1>5. CASE state \in {1, 3, 5}
  <2>1. key_state = "down"
    BY <1>2, <1>5
  <2>2. RestLeft = DEBOUNCE_TICKS - debounce_cnt + SHORT_TICKS + 1
    BY <1>5 DEF RestLeft
  <2>3. \/ key_state' = "up"
        \/ key_state' = "down" /\ debounce_cnt' = debounce_cnt + 1
    BY <1>3, <2>1 DEF Debounce
  <2>4. CASE key_state' = "up"
    <3>1. state' \in {0, 2}
      BY <1>2, <2>4
    <3>2. state' = 2 => RestLeft' = SHORT_TICKS + 1 - ticks'
      BY DEF RestLeft
    <3>3. state' = 0 => RestLeft' = 0
      BY DEF RestLeft
    <3> QED BY <1>1, <1>5, <2>2, <3>1, <3>2, <3>3, SMT
  <2>5. CASE key_state' = "down" /\ debounce_cnt' = debounce_cnt + 1
    <3>1. state' \in {1, 3, 5}
      BY <1>2, <2>5
    <3>2. RestLeft' = DEBOUNCE_TICKS - debounce_cnt' + SHORT_TICKS + 1
      BY <3>1 DEF RestLeft
    <3> QED BY <1>1, <1>5, <2>2, <2>5, <3>2, SMT
  <2> QED BY <2>3, <2>4, <2>5
<1> QED BY <1>2, <1>4, <1>5

\* A key that is let go ends its gesture within the debouncing and the rest
\* that a second press may come in: every reading of it brings the end nearer,
\* in every state, and no rest begins a gesture.
THEOREM GestureRunsDown ==
    Spec => /\ [](/\ RestLeft \in 0..(DEBOUNCE_TICKS + SHORT_TICKS + 1)
                  /\ state # 0 => RestLeft > 0)
            /\ [][level' = "up" => /\ state = 0 => state' = 0
                                   /\ state # 0 => RestLeft' < RestLeft]_vars
<1>1. IInv /\ IInv' /\ [Next]_vars =>
        [level' = "up" => /\ state = 0 => state' = 0
                          /\ state # 0 => RestLeft' < RestLeft]_vars
  <2> SUFFICES ASSUME IInv, IInv', Next, level' = "up"
               PROVE  (state = 0 => state' = 0) /\ (state # 0 => RestLeft' < RestLeft)
    OBVIOUS
  <2>1. button_handler("up")
    BY DEF Next, button_handler, History
  <2> QED BY <2>1, RestStep
<1> QED BY <1>1, RestLeftType, Invariance, PTL DEF Spec

-----------------------------------------------------------------------------
(***************************************************************************)
(* UserInterface: the tone player's request slot and event, and what the   *)
(* ui thread knows of the screen, with a pass of the radio thread between  *)
(* any two of their steps.                                                 *)
(***************************************************************************)
Channels == [1..Lines -> Values]

UiTypes ==
    /\ radio \in [channels : Channels, flight_mode : Modes, new_mode : Modes]
    /\ data \in [channels : Channels, flight_mode : Modes]
    /\ screen \in [channels : Channels, mode : Modes]
    /\ upc \in {"sleep", "channel", "draw", "mode", "compare", "draw new", "test", "note",
                "draw mode"}
    /\ line \in 1..Lines /\ read \in Modes
    /\ reflush \in BOOLEAN /\ flash \in BOOLEAN /\ midway \in BOOLEAN
    /\ tone_id \in {"none", "click", "long click"}
    /\ evt \in BOOLEAN /\ owed \in BOOLEAN
    /\ tpc \in {"power on", "receive", "blocked", "switch", "play", "clear"}

\* An event is never left lying with the player asleep, and a request that is
\* owed is in its slot and announced.
Announced ==
    /\ tpc = "blocked" => ~evt
    /\ owed => /\ tone_id # "none"
               /\ evt \/ tpc = "switch"
               /\ tpc \notin {"play", "clear"}

\* Every channel that gui.c has noted is the one on the screen.
ChannelsNoted == screen.channels = data.channels

\* So is the flight mode, but while it flashes or is being drawn, or when one
\* was confirmed midway.
ModeNoted ==
    /\ upc = "draw new" => reflush
    /\ upc = "draw mode" /\ ~midway => data.flight_mode = radio.flight_mode
    /\ upc \notin {"draw new", "note", "draw mode"} /\ ~reflush /\ ~midway =>
           screen.mode = data.flight_mode

UiInv == UiTypes /\ Announced /\ ChannelsNoted /\ ModeNoted

-----------------------------------------------------------------------------
LEMMA UiInitially == UiInit => UiInv
<1> SUFFICES ASSUME UiInit PROVE UiInv
  OBVIOUS
<1>1. PICK c \in [1..Lines -> Values] :
         /\ radio = [channels |-> c, flight_mode |-> ALT_HOLD, new_mode |-> ALT_HOLD]
         /\ data = [channels |-> c, flight_mode |-> ALT_HOLD]
         /\ screen = [channels |-> c, mode |-> ALT_HOLD]
  BY DEF UiInit
<1>2. ALT_HOLD \in Modes /\ 1 \in 1..Lines
  BY LinesAssumption, SMT DEF ALT_HOLD, Modes
<1>3. UiTypes
  BY <1>1, <1>2 DEF UiInit, UiTypes, Channels
<1>4. Announced /\ ChannelsNoted /\ ModeNoted
  BY <1>1 DEF UiInit, Announced, ChannelsNoted, ModeNoted
<1> QED BY <1>3, <1>4 DEF UiInv

\* A request for a tone, wherever it finds the player.
LEMMA ToneRequested ==
    ASSUME UiTypes, Announced, NEW id \in {"click", "long click"}, tones_play_background(id)
    PROVE  /\ Announced'
           /\ tone_id' \in {"none", "click", "long click"} /\ evt' \in BOOLEAN
           /\ owed' \in BOOLEAN
           /\ tpc' \in {"power on", "receive", "blocked", "switch", "play", "clear"}
<1>1. CASE tpc = "blocked"
  BY <1>1 DEF UiTypes, Announced, tones_play_background, Sent
<1>2. CASE tpc # "blocked"
  BY <1>2 DEF UiTypes, Announced, tones_play_background, Sent
<1> QED BY <1>1, <1>2

LEMMA RadioThreadStep == UiInv /\ RadioThread => UiInv'
<1> SUFFICES ASSUME UiInv, RadioThread PROVE UiInv'
  OBVIOUS
<1>1. ASSUME NEW c \in [1..Lines -> Values], Steer(c) PROVE UiInv'
  <2>1. /\ radio' = [radio EXCEPT !.channels = c]
        /\ UNCHANGED <<data, screen, upc, line, read, reflush, flash, midway>>
        /\ UNCHANGED <<tone_id, evt, tpc, owed>>
    BY <1>1 DEF Steer, ui, player
  <2>2. radio' \in [channels : Channels, flight_mode : Modes, new_mode : Modes]
        /\ radio'.flight_mode = radio.flight_mode
    BY <2>1 DEF UiInv, UiTypes, Channels
  <2>3. UiTypes' /\ Announced'
    BY <2>1, <2>2 DEF UiInv, UiTypes, Announced
  <2>4. ChannelsNoted' /\ ModeNoted'
    BY <2>1, <2>2 DEF UiInv, ChannelsNoted, ModeNoted
  <2> QED BY <2>3, <2>4 DEF UiInv
<1>2. ASSUME NEW d \in {1, -1}, SelectMode(d) PROVE UiInv'
  <2>1. /\ radio' = [radio EXCEPT !.new_mode = (@ + d) % 3]
        /\ tones_play_background("click")
        /\ UNCHANGED <<data, screen, upc, line, read, reflush, flash, midway>>
    BY <1>2 DEF SelectMode, ui
  <2>2. radio' \in [channels : Channels, flight_mode : Modes, new_mode : Modes]
        /\ radio'.flight_mode = radio.flight_mode
    <3>1. (radio.new_mode + d) % 3 \in Modes
      <4>1. radio.new_mode \in Modes
        BY DEF UiInv, UiTypes
      <4> QED BY <4>1, SMT DEF Modes
    <3> QED BY <2>1, <3>1 DEF UiInv, UiTypes
  <2>3. UiTypes' /\ Announced'
    BY <2>1, <2>2, ToneRequested DEF UiInv, UiTypes
  <2>4. ChannelsNoted' /\ ModeNoted'
    BY <2>1, <2>2 DEF UiInv, ChannelsNoted, ModeNoted
  <2> QED BY <2>3, <2>4 DEF UiInv
<1>3. ASSUME NEW left \in BOOLEAN, Click(left) PROVE UiInv'
  <2>1. /\ radio' = IF left THEN [radio EXCEPT !.flight_mode = radio.new_mode] ELSE radio
        /\ midway' = (midway \/ (radio' # radio /\ upc = "draw mode"))
        /\ tones_play_background("click")
        /\ UNCHANGED <<data, screen, upc, line, read, reflush, flash>>
    BY <1>3 DEF Click
  <2>2. radio' \in [channels : Channels, flight_mode : Modes, new_mode : Modes]
    BY <2>1 DEF UiInv, UiTypes
  <2>3. midway' \in BOOLEAN
    BY <2>1 DEF UiInv, UiTypes
  <2>4. UiTypes' /\ Announced'
    BY <2>1, <2>2, <2>3, ToneRequested DEF UiInv, UiTypes
  <2>5. ~midway' => ~midway /\ (radio' = radio \/ upc # "draw mode")
    BY <2>1
  <2>6. ChannelsNoted' /\ ModeNoted'
    BY <2>1, <2>5 DEF UiInv, ChannelsNoted, ModeNoted
  <2> QED BY <2>4, <2>6 DEF UiInv
<1>4. ASSUME LongPress PROVE UiInv'
  <2>1. /\ tones_play_background("long click")
        /\ UNCHANGED <<radio, data, screen, upc, line, read, reflush, flash, midway>>
    BY <1>4 DEF LongPress, ui
  <2>2. UiTypes' /\ Announced'
    BY <2>1, ToneRequested DEF UiInv, UiTypes
  <2>3. ChannelsNoted' /\ ModeNoted'
    BY <2>1 DEF UiInv, ChannelsNoted, ModeNoted
  <2> QED BY <2>2, <2>3 DEF UiInv
<1> QED BY <1>1, <1>2, <1>3, <1>4 DEF RadioThread

LEMMA NextLineType == ASSUME UiTypes, NextLine PROVE line' \in 1..Lines /\ upc' \in {"channel", "mode"}
<1>1. line \in 1..Lines /\ Lines \in Nat \ {0}
  BY LinesAssumption DEF UiTypes
<1>2. CASE line < Lines /\ line' = line + 1 /\ upc' = "channel"
  BY <1>1, <1>2, SMT
<1>3. CASE line = Lines /\ line' = 1 /\ upc' = "mode"
  BY <1>1, <1>3, SMT
<1> QED BY <1>2, <1>3 DEF NextLine

\* The ui thread's steps that compare and read.
LEMMA ReadingStep ==
    ASSUME UiInv, FlashTime \/ Wake \/ CompareChannel \/ ReadNewMode \/ CompareMode \/ TestMode
    PROVE  UiInv'
<1>1. UNCHANGED <<radio, data, screen>> /\ UNCHANGED <<tone_id, evt, tpc, owed>>
  BY DEF FlashTime, Wake, CompareChannel, ReadNewMode, CompareMode, TestMode, player
<1>2. Announced' /\ ChannelsNoted'
  BY <1>1 DEF UiInv, Announced, ChannelsNoted
<1>3. /\ radio' \in [channels : Channels, flight_mode : Modes, new_mode : Modes]
      /\ data' \in [channels : Channels, flight_mode : Modes]
      /\ screen' \in [channels : Channels, mode : Modes]
      /\ tone_id' \in {"none", "click", "long click"}
      /\ evt' \in BOOLEAN /\ owed' \in BOOLEAN
      /\ tpc' \in {"power on", "receive", "blocked", "switch", "play", "clear"}
  BY <1>1 DEF UiInv, UiTypes
<1>4. CASE FlashTime
  <2>1. flash' = TRUE /\ UNCHANGED <<upc, line, read, reflush, midway>>
    BY <1>4 DEF FlashTime
  <2> QED BY <2>1, <1>1, <1>2, <1>3 DEF UiInv, UiTypes, ModeNoted
<1>5. CASE Wake
  <2>1. /\ upc = "sleep" /\ upc' = "channel" /\ line' = 1
        /\ UNCHANGED <<read, reflush, flash, midway>>
    BY <1>5 DEF Wake
  <2>2. 1 \in 1..Lines
    BY LinesAssumption, SMT
  <2> QED BY <2>1, <2>2, <1>1, <1>2, <1>3 DEF UiInv, UiTypes, ModeNoted
<1>6. CASE CompareChannel
  <2>1. upc = "channel" /\ UNCHANGED <<read, reflush, flash, midway>>
    BY <1>6 DEF CompareChannel
  <2>2. line' \in 1..Lines /\ upc' \in {"channel", "mode", "draw"}
    BY <1>6, NextLineType DEF CompareChannel, UiInv, UiTypes
  <2> QED BY <2>1, <2>2, <1>1, <1>2, <1>3 DEF UiInv, UiTypes, ModeNoted
<1>7. CASE ReadNewMode
  <2>1. /\ upc = "mode" /\ upc' = "compare" /\ read' = radio.new_mode
        /\ UNCHANGED <<line, reflush, flash, midway>>
    BY <1>7 DEF ReadNewMode
  <2> QED BY <2>1, <1>1, <1>2, <1>3 DEF UiInv, UiTypes, ModeNoted
<1>8. CASE CompareMode
  <2>1. /\ upc = "compare" /\ UNCHANGED <<line, read>>
        /\ \/ /\ flash' = FALSE /\ reflush' = TRUE /\ midway' = FALSE /\ upc' = "draw new"
           \/ /\ upc' \in {"sleep", "test"} /\ UNCHANGED <<flash, reflush, midway>>
    BY <1>8 DEF CompareMode, Flashes
  <2> QED BY <2>1, <1>1, <1>2, <1>3 DEF UiInv, UiTypes, ModeNoted
<1>9. CASE TestMode
  <2>1. /\ upc = "test" /\ UNCHANGED <<line, read, flash>>
        /\ \/ upc' = "note" /\ reflush' = FALSE /\ midway' = FALSE
           \/ upc' = "sleep" /\ UNCHANGED <<reflush, midway>>
    BY <1>9 DEF TestMode
  <2> QED BY <2>1, <1>1, <1>2, <1>3 DEF UiInv, UiTypes, ModeNoted
<1> QED BY <1>4, <1>5, <1>6, <1>7, <1>8, <1>9

\* The ui thread's steps that draw, and the one that notes the mode.
LEMMA DrawingStep ==
    ASSUME UiInv, DrawChannel \/ DrawNewMode \/ NoteMode \/ DrawMode
    PROVE  UiInv'
<1>1. UNCHANGED <<radio, read, reflush, flash, midway>> /\ UNCHANGED <<tone_id, evt, tpc, owed>>
  BY DEF DrawChannel, DrawNewMode, NoteMode, DrawMode, player
<1>2. Announced'
  BY <1>1 DEF UiInv, Announced
<1>3. CASE DrawChannel
  <2>1. /\ upc = "draw" /\ NextLine
        /\ data' = [data EXCEPT !.channels[line] = radio.channels[line]]
        /\ screen' = [screen EXCEPT !.channels[line] = radio.channels[line]]
    BY <1>3 DEF DrawChannel
  <2>2. line' \in 1..Lines /\ upc' \in {"channel", "mode"}
    BY <2>1, NextLineType DEF UiInv
  <2>3. /\ data' \in [channels : Channels, flight_mode : Modes]
        /\ screen' \in [channels : Channels, mode : Modes]
        /\ screen'.channels = data'.channels
        /\ data'.flight_mode = data.flight_mode /\ screen'.mode = screen.mode
    BY <2>1 DEF UiInv, UiTypes, Channels, ChannelsNoted
  <2> QED BY <2>1, <2>2, <2>3, <1>1, <1>2 DEF UiInv, UiTypes, ChannelsNoted, ModeNoted
<1>4. CASE DrawNewMode
  <2>1. /\ upc = "draw new" /\ upc' = "sleep" /\ UNCHANGED <<data, line>>
        /\ screen' = [screen EXCEPT !.mode = radio.new_mode]
    BY <1>4 DEF DrawNewMode
  <2>2. /\ screen' \in [channels : Channels, mode : Modes]
        /\ screen'.channels = screen.channels
    BY <2>1 DEF UiInv, UiTypes
  <2>3. reflush
    BY <2>1 DEF UiInv, ModeNoted
  <2> QED BY <2>1, <2>2, <2>3, <1>1, <1>2 DEF UiInv, UiTypes, ChannelsNoted, ModeNoted
<1>5. CASE NoteMode
  <2>1. /\ upc = "note" /\ upc' = "draw mode" /\ UNCHANGED <<screen, line>>
        /\ data' = [data EXCEPT !.flight_mode = radio.flight_mode]
    BY <1>5 DEF NoteMode
  <2>2. /\ data' \in [channels : Channels, flight_mode : Modes]
        /\ data'.channels = data.channels /\ data'.flight_mode = radio.flight_mode
    BY <2>1 DEF UiInv, UiTypes
  <2> QED BY <2>1, <2>2, <1>1, <1>2 DEF UiInv, UiTypes, ChannelsNoted, ModeNoted
<1>6. CASE DrawMode
  <2>1. /\ upc = "draw mode" /\ upc' = "sleep" /\ UNCHANGED <<data, line>>
        /\ screen' = [screen EXCEPT !.mode = radio.flight_mode]
    BY <1>6 DEF DrawMode
  <2>2. /\ screen' \in [channels : Channels, mode : Modes]
        /\ screen'.channels = screen.channels /\ screen'.mode = radio.flight_mode
    BY <2>1 DEF UiInv, UiTypes
  <2> QED BY <2>1, <2>2, <1>1, <1>2 DEF UiInv, UiTypes, ChannelsNoted, ModeNoted
<1> QED BY <1>3, <1>4, <1>5, <1>6

LEMMA PlayerStep == UiInv /\ Player => UiInv'
<1> SUFFICES ASSUME UiInv, Player PROVE UiInv'
  OBVIOUS
<1>1. UNCHANGED radio /\ UNCHANGED <<data, screen, upc, line, read, reflush, flash, midway>>
  BY DEF Player, PowerOnTune, Receive, Switch, Played, Clear, ui
<1>2. /\ tone_id' \in {"none", "click", "long click"}
      /\ evt' \in BOOLEAN /\ owed' \in BOOLEAN
      /\ tpc' \in {"power on", "receive", "blocked", "switch", "play", "clear"}
  BY DEF UiInv, UiTypes, Player, PowerOnTune, Receive, Switch, Played, Clear
<1>3. Announced'
  <2>1. CASE PowerOnTune \/ Played
    <3>1. UNCHANGED <<tone_id, evt, owed>>
      BY <2>1 DEF PowerOnTune, Played
    <3>2. \/ tpc = "power on" /\ tpc' = "receive"
          \/ tpc = "play" /\ tpc' = "clear"
      BY <2>1 DEF PowerOnTune, Played
    <3> QED BY <3>1, <3>2 DEF UiInv, Announced
  <2>2. CASE Receive
    BY <2>2 DEF UiInv, Announced, Receive
  <2>3. CASE Switch
    BY <2>3 DEF UiInv, Announced, Switch
  <2>4. CASE Clear
    BY <2>4 DEF UiInv, Announced, Clear
  <2> QED BY <2>1, <2>2, <2>3, <2>4 DEF Player
<1>4. UiTypes' /\ ChannelsNoted' /\ ModeNoted'
  BY <1>1, <1>2 DEF UiInv, UiTypes, ChannelsNoted, ModeNoted
<1> QED BY <1>3, <1>4 DEF UiInv

\* Every step of the three threads, and every stutter, preserves the invariant.
THEOREM UiInductive == UiInv /\ [UiNext]_uiVars => UiInv'
<1>1. UiInv /\ UNCHANGED uiVars => UiInv'
  <2> SUFFICES ASSUME UiInv, UNCHANGED uiVars PROVE UiInv'
    OBVIOUS
  <2>1. UNCHANGED radio /\ UNCHANGED <<data, screen, upc, line, read, reflush, flash, midway>>
        /\ UNCHANGED <<tone_id, evt, tpc, owed>>
    BY DEF uiVars, ui, player
  <2>2. UiTypes' /\ Announced'
    BY <2>1 DEF UiInv, UiTypes, Announced
  <2>3. ChannelsNoted' /\ ModeNoted'
    BY <2>1 DEF UiInv, ChannelsNoted, ModeNoted
  <2> QED BY <2>2, <2>3 DEF UiInv
<1> QED BY <1>1, RadioThreadStep, ReadingStep, DrawingStep, PlayerStep DEF UiNext, gui_update

\* So it holds in every reachable state.
THEOREM UiInvariance == UiSpec => []UiInv
BY UiInitially, UiInductive, PTL DEF UiSpec

\* What gui.c has noted as drawn is what the screen shows: each channel, and
\* the mode when it does not flash and none was confirmed while it was drawn.
THEOREM NotedIsShown ==
    UiSpec => [](/\ screen.channels = data.channels
                 /\ upc = "sleep" /\ ~reflush /\ ~midway => screen.mode = data.flight_mode)
<1>1. UiInv => /\ screen.channels = data.channels
               /\ upc = "sleep" /\ ~reflush /\ ~midway => screen.mode = data.flight_mode
  BY DEF UiInv, ChannelsNoted, ModeNoted
<1> QED BY <1>1, UiInvariance, PTL

\* An update passes over a channel or over the mode only when the screen shows
\* it as it is at that moment: nothing that changed stays undrawn.
THEOREM NothingPassedOver ==
    UiSpec => [][/\ upc = "channel" /\ (upc' = "mode" \/ line' # line) =>
                        screen.channels[line] = radio.channels[line]
                 /\ upc = "test" /\ upc' = "sleep" /\ ~midway =>
                        screen.mode = radio.flight_mode]_uiVars
<1> DEFINE Passes == /\ upc = "channel" /\ (upc' = "mode" \/ line' # line) =>
                            screen.channels[line] = radio.channels[line]
                     /\ upc = "test" /\ upc' = "sleep" /\ ~midway =>
                            screen.mode = radio.flight_mode
<1>1. UiInv /\ [UiNext]_uiVars => [Passes]_uiVars
  <2> SUFFICES ASSUME UiInv, UiNext PROVE Passes
    OBVIOUS
  <2>1. CASE CompareChannel
    BY <2>1 DEF CompareChannel, UiInv, ChannelsNoted
  <2>2. CASE TestMode
    <3>1. upc = "test" /\ (upc' = "sleep" => data.flight_mode = radio.flight_mode /\ ~reflush)
      BY <2>2 DEF TestMode
    <3> QED BY <3>1 DEF UiInv, ModeNoted
  <2>3. CASE ~(CompareChannel \/ TestMode)
    <3>1. upc = "channel" => upc' = upc /\ line' = line
      BY <2>3 DEF UiNext, RadioThread, Steer, SelectMode, Click, LongPress, FlashTime, ui,
         gui_update, Wake, DrawChannel, ReadNewMode, CompareMode, DrawNewMode, NoteMode, DrawMode,
         Player, PowerOnTune, Receive, Switch, Played, Clear
    <3>2. upc = "test" => upc' = upc
      BY <2>3 DEF UiNext, RadioThread, Steer, SelectMode, Click, LongPress, FlashTime, ui,
         gui_update, Wake, DrawChannel, ReadNewMode, CompareMode, DrawNewMode, NoteMode, DrawMode,
         Player, PowerOnTune, Receive, Switch, Played, Clear
    <3> QED BY <3>1, <3>2
  <2> QED BY <2>1, <2>2, <2>3
<1> QED BY <1>1, UiInvariance, PTL DEF UiSpec

\* The event is never set while the player sleeps on it: no wake-up is lost.
THEOREM NoLostWakeup == UiSpec => [](tpc = "blocked" => ~evt)
<1>1. UiInv => (tpc = "blocked" => ~evt)
  BY DEF UiInv, Announced
<1> QED BY <1>1, UiInvariance, PTL

\* A request that came while the player had yet to look at tone_id waits in its
\* slot, announced to the player, until a tone is played for it: no step of the
\* player drops it.  (One between lines 98 and 130 is never owed.)
THEOREM RequestKept ==
    UiSpec => /\ [](owed => tone_id # "none" /\ (evt \/ tpc = "switch"))
              /\ [][owed /\ ~owed' => tpc' = "play"]_uiVars
<1>1. UiInv => (owed => tone_id # "none" /\ (evt \/ tpc = "switch"))
  BY DEF UiInv, Announced
<1>2. UiInv /\ [UiNext]_uiVars => [owed /\ ~owed' => tpc' = "play"]_uiVars
  <2> SUFFICES ASSUME UiInv, UiNext, owed, ~owed' PROVE tpc' = "play"
    OBVIOUS
  <2>1. CASE Switch
    BY <2>1 DEF Switch, UiInv, Announced
  <2>2. CASE ~Switch
    BY <2>2 DEF UiNext, RadioThread, Steer, SelectMode, Click, LongPress, FlashTime, player,
       tones_play_background, gui_update, Wake, CompareChannel, DrawChannel, ReadNewMode,
       CompareMode, DrawNewMode, TestMode, NoteMode, DrawMode,
       Player, PowerOnTune, Receive, Played, Clear
  <2> QED BY <2>1, <2>2
<1> QED BY <1>1, <1>2, UiInvariance, PTL DEF UiSpec
=============================================================================
