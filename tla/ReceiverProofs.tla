--------------------------- MODULE ReceiverProofs ---------------------------
(***************************************************************************)
(* Proofs about Receiver for every width of the tick counter, limit,       *)
(* period and delay: a lost transmitter is noticed in time, an alarm is    *)
(* false only by a packet inside the check, and telemetry keeps its order. *)
(***************************************************************************)
EXTENDS Receiver, TLAPS

\* The ticks since a moment that is not a lap ago.
Age(t) == Timeout(tick, t)

ClockTypes ==
    /\ tick \in 0..(Wrap - 1) /\ last_update \in 0..(Wrap - 1)
    /\ operand \in 0..(Wrap - 1)
    /\ failsafe \in BOOLEAN /\ raced \in BOOLEAN
    /\ pc \in {"sleep", "tick_read", "last_read", "set"}
    /\ wake \in Nat /\ wake <= Limit + Period /\ late \in 0..MaxDelay
    /\ silence \in 0..(Longest + 1)

\* A check starts when its time has come and not before.
OnTime ==
    /\ wake > 0 => late = 0
    /\ pc # "sleep" => wake = 0

\* Out of failsafe last_update tells the silence, and the checks bound it.
Bounded ==
    ~failsafe => /\ silence + wake <= Limit + MaxDelay + Period + late
                 /\ Age(last_update) = silence

\* What the thread knows in the middle of a check.
Checking ==
    /\ pc = "tick_read" => Age(operand) <= late
    /\ pc = "tick_read" /\ ~failsafe /\ ~raced => silence >= Age(operand)
    /\ pc = "last_read" /\ ~failsafe /\ ~raced => operand = last_update
    /\ pc # "sleep" /\ raced => silence <= late
    /\ pc = "set" /\ ~failsafe /\ ~raced => silence > Limit

ClockInv == ClockTypes /\ OnTime /\ Bounded /\ Checking

LinkTypes ==
    /\ link \in {"listening", "acking", "idle"} /\ event \in BOOLEAN
    /\ mpc \in {"loop", "shut", "reply"}
    /\ arrived \in 0..MaxFrames /\ taken \in 0..arrived /\ reply \in 0..taken
    /\ onAir \in Seq(1..MaxFrames)

\* A reply that may still go out is newer than all that went out.
ReplyIsNew ==
    /\ \A i \in 1..Len(onAir) : onAir[i] <= taken
    /\ link # "idle" /\ reply > 0 => \A i \in 1..Len(onAir) : onAir[i] < reply

LinkInv == LinkTypes /\ ReplyIsNew /\ TelemetryInOrder

IInv == ClockInv /\ LinkInv

-----------------------------------------------------------------------------
LEMMA TimeoutIs ==
    ASSUME NEW a \in 0..(Wrap - 1), NEW b \in 0..(Wrap - 1)
    PROVE  Timeout(a, b) = IF a >= b THEN a - b ELSE a - b + Wrap
BY ConstantsAssumption, SMT DEF Timeout

LEMMA TimeoutRange ==
    ASSUME NEW a \in 0..(Wrap - 1), NEW b \in 0..(Wrap - 1)
    PROVE  Timeout(a, b) \in 0..(Wrap - 1)
BY TimeoutIs, ConstantsAssumption, SMT

LEMMA NextTickIs ==
    ASSUME tick \in 0..(Wrap - 1)
    PROVE  NextTick = IF tick + 1 = Wrap THEN 0 ELSE tick + 1
BY ConstantsAssumption, SMT DEF NextTick

\* A tick makes a moment one tick older.
LEMMA Ageing ==
    ASSUME tick \in 0..(Wrap - 1), NEW t \in 0..(Wrap - 1),
           Timeout(tick, t) < Wrap - 1
    PROVE  /\ NextTick \in 0..(Wrap - 1)
           /\ Timeout(NextTick, t) = Timeout(tick, t) + 1
<1>1. NextTick \in 0..(Wrap - 1)
  BY NextTickIs, ConstantsAssumption, SMT
<1>2. Timeout(NextTick, t) = IF NextTick >= t THEN NextTick - t ELSE NextTick - t + Wrap
  BY <1>1, TimeoutIs
<1>3. Timeout(tick, t) = IF tick >= t THEN tick - t ELSE tick - t + Wrap
  BY TimeoutIs
<1> QED BY <1>1, <1>2, <1>3, NextTickIs, ConstantsAssumption, SMT

\* The time between two moments from their ages.
LEMMA Between ==
    ASSUME NEW a \in 0..(Wrap - 1), NEW b \in 0..(Wrap - 1), NEW c \in 0..(Wrap - 1)
    PROVE  Timeout(b, c) = IF Timeout(a, c) >= Timeout(a, b)
                           THEN Timeout(a, c) - Timeout(a, b)
                           ELSE Timeout(a, c) - Timeout(a, b) + Wrap
<1>1. /\ Timeout(a, b) = IF a >= b THEN a - b ELSE a - b + Wrap
      /\ Timeout(a, c) = IF a >= c THEN a - c ELSE a - c + Wrap
      /\ Timeout(b, c) = IF b >= c THEN b - c ELSE b - c + Wrap
  BY TimeoutIs
<1> QED BY <1>1, ConstantsAssumption, SMT

LEMMA NoTime ==
    ASSUME NEW a \in 0..(Wrap - 1)
    PROVE  Timeout(a, a) = 0
BY TimeoutIs, ConstantsAssumption, SMT

LEMMA Constants ==
    /\ Wrap \in Nat /\ Limit \in Nat /\ Period \in Nat /\ Period > 0 /\ MaxDelay \in Nat
    /\ Boot \in 0..Limit /\ MaxFrames \in Nat
    /\ Longest \in Nat /\ Longest = Limit + Period + 2 * MaxDelay /\ Wrap > Longest + 1
BY ConstantsAssumption, SMT DEF Longest

-----------------------------------------------------------------------------
\* The invariant holds in every initial state.
THEOREM Initially == Init => IInv
<1> SUFFICES ASSUME Init PROVE IInv
  OBVIOUS
<1>1. ClockTypes
  <2>1. /\ 0 \in 0..(Wrap - 1) /\ Boot \in Nat /\ Boot <= Limit + Period
        /\ 0 \in 0..MaxDelay /\ Longest + 1 \in 0..(Longest + 1)
    BY Constants, SMT
  <2> QED BY <2>1 DEF Init, ClockTypes
<1>2. OnTime /\ Bounded /\ Checking
  BY DEF Init, OnTime, Bounded, Checking
<1>3. LinkTypes
  <2>1. 0 \in 0..MaxFrames /\ 0 \in 0..0 /\ <<>> \in Seq(1..MaxFrames)
    BY Constants, SMT
  <2> QED BY <2>1 DEF Init, LinkTypes
<1>4. ReplyIsNew /\ TelemetryInOrder
  BY SMT DEF Init, ReplyIsNew, TelemetryInOrder
<1> QED BY <1>1, <1>2, <1>3, <1>4 DEF IInv, ClockInv, LinkInv

LEMMA TickStep ==
    ASSUME IInv, Tick
    PROVE  ClockInv'
<1>t. ClockTypes /\ OnTime /\ Bounded /\ Checking
  BY DEF IInv, ClockInv
<1>v. /\ tick' = NextTick
      /\ wake = 0 => late < MaxDelay
      /\ wake' = IF wake = 0 THEN 0 ELSE wake - 1
      /\ late' = IF wake = 0 THEN late + 1 ELSE 0
      /\ silence' = UpTo(silence + 1, Longest + 1)
      /\ UNCHANGED <<failsafe, last_update, raced, pc, operand>>
  BY DEF Tick
<1>1. ClockTypes'
  <2>1. tick' \in 0..(Wrap - 1)
    BY <1>t, <1>v, NextTickIs, Constants, SMT DEF ClockTypes
  <2>2. wake' \in Nat /\ wake' <= Limit + Period /\ late' \in 0..MaxDelay
    BY <1>t, <1>v, Constants, SMT DEF ClockTypes
  <2>3. silence' \in 0..(Longest + 1)
    BY <1>t, <1>v, Constants, SMT DEF ClockTypes, UpTo
  <2> QED BY <2>1, <2>2, <2>3, <1>t, <1>v DEF ClockTypes
<1>2. OnTime'
  BY <1>t, <1>v, Constants, SMT DEF OnTime, ClockTypes
<1>3. Bounded'
  <2> SUFFICES ASSUME ~failsafe
               PROVE  /\ silence' + wake' <= Limit + MaxDelay + Period + late'
                      /\ Age(last_update)' = silence'
    BY <1>v DEF Bounded
  <2>1. /\ silence + wake <= Limit + MaxDelay + Period + late
        /\ Timeout(tick, last_update) = silence
    BY <1>t DEF Bounded, Age
  <2>2. silence <= Longest
    BY <2>1, <1>t, Constants, SMT DEF ClockTypes
  <2>3. silence' = silence + 1
    BY <2>2, <1>t, <1>v, Constants, SMT DEF ClockTypes, UpTo
  <2>4. Timeout(tick', last_update') = silence + 1
    BY <2>1, <2>2, <1>t, <1>v, Ageing, Constants, SMT DEF ClockTypes
  <2>5. silence' + wake' <= Limit + MaxDelay + Period + late'
    BY <2>1, <2>3, <1>t, <1>v, Constants, SMT DEF ClockTypes, OnTime
  <2> QED BY <2>3, <2>4, <2>5 DEF Age
<1>4. Checking'
  <2>1. silence' <= silence + 1 /\ silence' >= silence
        /\ (silence <= Longest => silence' = silence + 1)
    BY <1>t, <1>v, Constants, SMT DEF ClockTypes, UpTo
  <2>2. pc # "sleep" => late' = late + 1
    BY <1>t, <1>v DEF OnTime
  <2>3. ASSUME pc = "tick_read"
        PROVE  /\ Age(operand) <= late
               /\ Timeout(tick', operand') = Age(operand) + 1
    <3>1. Timeout(tick, operand) <= late
      BY <2>3, <1>t DEF Checking, Age
    <3>2. Timeout(tick, operand) < Wrap - 1
      BY <3>1, <1>t, TimeoutRange, Constants, SMT DEF ClockTypes
    <3> QED BY <3>1, <3>2, <1>t, <1>v, Ageing DEF ClockTypes, Age
  <2>4. pc' = "tick_read" => Age(operand)' <= late'
    <3> SUFFICES ASSUME pc = "tick_read" PROVE Timeout(tick', operand') <= late'
      BY <1>v DEF Age
    <3>1. Age(operand) \in Nat /\ late \in Nat
      BY <1>t, TimeoutRange, Constants, SMT DEF ClockTypes, Age
    <3> QED BY <3>1, <2>2, <2>3, SMT
  <2>5. pc' = "tick_read" /\ ~failsafe' /\ ~raced' => silence' >= Age(operand)'
    <3> SUFFICES ASSUME pc = "tick_read", ~failsafe, ~raced
                 PROVE  silence' >= Timeout(tick', operand')
      BY <1>v DEF Age
    <3>1. Age(operand) \in Nat /\ silence \in Nat /\ silence >= Age(operand)
      BY <1>t, TimeoutRange, Constants, SMT DEF ClockTypes, Age, Checking
    <3>2. silence <= Longest
      BY <1>t, Constants, SMT DEF ClockTypes, Bounded
    <3> QED BY <3>1, <3>2, <2>1, <2>3, SMT
  <2>6. pc' # "sleep" /\ raced' => silence' <= late'
    <3>1. silence \in Nat /\ late \in Nat /\ silence' \in Int
      BY <1>t, <1>1, Constants, SMT DEF ClockTypes
    <3>2. pc # "sleep" /\ raced => silence <= late
      BY <1>t DEF Checking
    <3> QED BY <3>1, <3>2, <1>v, <2>1, <2>2, SMT
  <2>7. pc' = "set" /\ ~failsafe' /\ ~raced' => silence' > Limit
    <3>1. pc = "set" /\ ~failsafe /\ ~raced => silence > Limit
      BY <1>t DEF Checking
    <3>2. silence \in Nat /\ silence' \in Int /\ Limit \in Nat
      BY <1>t, <1>1, Constants, SMT DEF ClockTypes
    <3> QED BY <3>1, <3>2, <1>v, <2>1, SMT
  <2>8. pc' = "last_read" /\ ~failsafe' /\ ~raced' => operand' = last_update'
    BY <1>t, <1>v DEF Checking
  <2> QED BY <2>4, <2>5, <2>6, <2>7, <2>8 DEF Checking
<1> QED BY <1>1, <1>2, <1>3, <1>4 DEF ClockInv

\* The rest of the thread's steps leave the clock alone.
LEMMA ReadFirstStep ==
    ASSUME IInv, ReadFirst
    PROVE  ClockInv'
<1>t. ClockTypes /\ OnTime /\ Bounded /\ Checking
  BY DEF IInv, ClockInv
<1>v. /\ pc = "sleep" /\ wake = 0 /\ raced' = FALSE
      /\ UNCHANGED <<tick, failsafe, last_update, silence, wake, late>>
      /\ \/ pc' = "tick_read" /\ operand' = tick
         \/ pc' = "last_read" /\ operand' = last_update
  BY DEF ReadFirst
<1>1. ClockTypes'
  BY <1>t, <1>v DEF ClockTypes
<1>2. OnTime'
  BY <1>t, <1>v DEF OnTime
<1>3. Bounded'
  BY <1>t, <1>v DEF Bounded, Age
<1>4. Checking'
  <2>1. pc' = "tick_read" => Age(operand)' = 0
    BY <1>t, <1>v, NoTime DEF ClockTypes, Age
  <2>2. late' >= 0 /\ silence' >= 0
    BY <1>t, <1>v, Constants, SMT DEF ClockTypes
  <2>3. pc' # "set"
    BY <1>v
  <2>4. pc' = "tick_read" => Age(operand)' <= late' /\ silence' >= Age(operand)'
    BY <2>1, <2>2
  <2> QED BY <2>3, <2>4, <1>v DEF Checking
<1> QED BY <1>1, <1>2, <1>3, <1>4 DEF ClockInv

LEMMA ReadSecondStep ==
    ASSUME IInv, ReadSecond
    PROVE  ClockInv'
<1> DEFINE timeout == IF pc = "tick_read" THEN Timeout(operand, last_update)
                      ELSE Timeout(tick, operand)
<1>t. ClockTypes /\ OnTime /\ Bounded /\ Checking
  BY DEF IInv, ClockInv
<1>n. /\ late \in Nat /\ late <= MaxDelay /\ silence \in Nat /\ wake = 0
      /\ pc \in {"tick_read", "last_read"}
  BY <1>t, Constants, SMT DEF ClockTypes, OnTime, ReadSecond
<1>v. /\ UNCHANGED <<tick, failsafe, last_update, silence, raced>>
      /\ \/ timeout > Limit /\ pc' = "set" /\ operand' = 0 /\ UNCHANGED <<wake, late>>
         \/ timeout <= Limit /\ pc' = "sleep" /\ wake' = Period /\ late' = 0 /\ operand' = 0
  BY DEF ReadSecond, Sleep, failsafeVars
\* What the difference says of the silence.
<1>1. ASSUME ~failsafe
      PROVE  /\ timeout <= Limit => silence <= Limit + MaxDelay
             /\ timeout > Limit /\ ~raced => silence > Limit
  <2>s. Timeout(tick, last_update) = silence
    BY <1>1, <1>t DEF Bounded, Age
  <2>1. CASE pc = "tick_read"
    <3>d. /\ Timeout(tick, operand) \in Nat /\ Timeout(tick, operand) <= late
          /\ ~raced => silence >= Timeout(tick, operand)
      BY <2>1, <1>1, <1>t, TimeoutRange, Constants, SMT DEF ClockTypes, Checking, Age
    <3>1. timeout = IF silence >= Timeout(tick, operand)
                    THEN silence - Timeout(tick, operand)
                    ELSE silence - Timeout(tick, operand) + Wrap
      BY <2>1, <2>s, <1>t, Between DEF ClockTypes
    <3> HIDE DEF timeout
    <3> QED BY <3>d, <3>1, <1>n, Constants, SMT
  <2>2. CASE pc = "last_read"
    <3>1. timeout = Timeout(tick, operand)
      BY <2>2
    <3>2. ~raced => timeout = silence
      BY <3>1, <2>2, <2>s, <1>1, <1>t DEF Checking
    <3>3. raced => silence <= late
      BY <2>2, <1>t DEF Checking
    <3>r. tick \in 0..(Wrap - 1) /\ operand \in 0..(Wrap - 1)
      BY <1>t DEF ClockTypes
    <3>u. Timeout(tick, operand) \in 0..(Wrap - 1)
      BY <3>r, TimeoutRange
    <3> HIDE DEF timeout
    <3>4. timeout \in Nat
      BY <3>1, <3>u, SMT
    <3> QED BY <3>2, <3>3, <3>4, <1>n, <1>t, Constants, SMT DEF ClockTypes
  <2> QED BY <2>1, <2>2, <1>n
<1> HIDE DEF timeout
<1>2. ClockTypes'
  <2>1. 0 \in 0..(Wrap - 1) /\ 0 \in 0..MaxDelay /\ Period \in Nat /\ Period <= Limit + Period
    BY Constants, SMT
  <2> QED BY <2>1, <1>t, <1>v DEF ClockTypes
<1>3. OnTime'
  BY <1>n, <1>v DEF OnTime
<1>4. Bounded'
  <2> SUFFICES ASSUME ~failsafe
               PROVE  /\ silence' + wake' <= Limit + MaxDelay + Period + late'
                      /\ Age(last_update)' = silence'
    BY <1>v DEF Bounded
  <2>1. Age(last_update)' = silence'
    BY <1>t, <1>v DEF Bounded, Age
  <2>2. silence + wake <= Limit + MaxDelay + Period + late
    BY <1>t DEF Bounded
  <2>3. silence' + wake' <= Limit + MaxDelay + Period + late'
    BY <2>2, <1>1, <1>v, <1>n, Constants, SMT
  <2> QED BY <2>1, <2>3
<1>5. Checking'
  <2>1. pc' = "set" /\ ~failsafe' /\ ~raced' => silence' > Limit
    BY <1>1, <1>v
  <2>2. pc' # "sleep" /\ raced' => silence' <= late'
    BY <1>t, <1>n, <1>v DEF Checking
  <2> QED BY <2>1, <2>2, <1>v DEF Checking
<1> QED BY <1>2, <1>3, <1>4, <1>5 DEF ClockInv

LEMMA SetFailsafeStep ==
    ASSUME IInv, SetFailsafe
    PROVE  ClockInv'
<1>t. ClockTypes /\ OnTime
  BY DEF IInv, ClockInv
<1>v. /\ failsafe' = TRUE /\ pc' = "sleep" /\ wake' = Period /\ late' = 0 /\ operand' = 0
      /\ UNCHANGED <<tick, last_update, silence, raced>>
  BY DEF SetFailsafe, Sleep
<1>1. 0 \in 0..(Wrap - 1) /\ 0 \in 0..MaxDelay /\ Period \in Nat /\ Period <= Limit + Period
  BY Constants, SMT
<1>2. ClockTypes'
  BY <1>1, <1>t, <1>v DEF ClockTypes
<1>3. OnTime' /\ Bounded' /\ Checking'
  BY <1>v DEF OnTime, Bounded, Checking
<1> QED BY <1>2, <1>3 DEF ClockInv

\* A packet is heard, or not: between any two steps of a check.
LEMMA HeardStep ==
    ASSUME IInv, UNCHANGED <<tick, threadVars>>,
           \/ Heard /\ silence' = 0 /\ raced' = TRUE
           \/ UNCHANGED failsafeVars
    PROVE  ClockInv'
<1>t. ClockTypes /\ OnTime /\ Bounded /\ Checking
  BY DEF IInv, ClockInv
<1>v. UNCHANGED <<tick, pc, operand, wake, late>>
  BY DEF threadVars
<1>1. CASE Heard /\ silence' = 0 /\ raced' = TRUE
  <2>1. failsafe' = FALSE /\ last_update' = tick
    BY <1>1 DEF Heard
  <2>2. /\ Age(last_update)' = 0
        /\ 0 \in 0..(Longest + 1) /\ 0 <= late
        /\ 0 + wake <= Limit + MaxDelay + Period + late
    <3>1. Timeout(tick, tick) = 0
      BY <1>t, NoTime DEF ClockTypes
    <3>2. /\ 0 \in 0..(Longest + 1) /\ 0 <= late
          /\ 0 + wake <= Limit + MaxDelay + Period + late
      BY <1>t, Constants, SMT DEF ClockTypes
    <3> QED BY <3>1, <3>2, <2>1, <1>v DEF Age
  <2>3. ClockTypes'
    BY <2>1, <2>2, <1>1, <1>v, <1>t DEF ClockTypes
  <2>4. OnTime'
    BY <1>v, <1>t DEF OnTime
  <2>5. Bounded'
    BY <2>1, <2>2, <1>1, <1>v DEF Bounded
  <2>6. Checking'
    BY <2>2, <1>1, <1>v, <1>t DEF Checking, Age
  <2> QED BY <2>3, <2>4, <2>5, <2>6 DEF ClockInv
<1>2. CASE UNCHANGED failsafeVars
  BY <1>2, <1>v, <1>t DEF failsafeVars, ClockInv, ClockTypes, OnTime, Bounded, Checking, Age
<1> QED BY <1>1, <1>2

-----------------------------------------------------------------------------
\* What has been sent stays in order when a reply newer than all is sent.
LEMMA TxFinishStep ==
    ASSUME LinkInv, TxFinish
    PROVE  LinkInv'
<1>t. /\ reply \in 0..taken /\ taken \in 0..arrived /\ arrived \in 0..MaxFrames
      /\ MaxFrames \in Nat /\ onAir \in Seq(1..MaxFrames) /\ Len(onAir) \in Nat
      /\ \A i \in 1..Len(onAir) : onAir[i] <= taken
  BY Constants DEF LinkInv, LinkTypes, ReplyIsNew
<1>v. /\ link' = "idle" /\ event' = TRUE /\ UNCHANGED <<mpc, reply, arrived, taken>>
      /\ onAir' = IF reply > 0 THEN Append(onAir, reply) ELSE onAir
  BY DEF TxFinish
<1>1. CASE reply > 0
  <2>1. \A i \in 1..Len(onAir) : onAir[i] < reply
    BY <1>1 DEF TxFinish, LinkInv, ReplyIsNew
  <2>2. reply \in 1..MaxFrames
    BY <1>1, <1>t, SMT
  <2>3. /\ onAir' \in Seq(1..MaxFrames) /\ Len(onAir') = Len(onAir) + 1
        /\ \A i \in 1..Len(onAir) : onAir'[i] = onAir[i]
        /\ onAir'[Len(onAir) + 1] = reply
    BY <1>1, <1>t, <1>v, <2>2, SMT
  <2>4. LinkTypes'
    BY <2>3, <1>v DEF LinkTypes, LinkInv
  <2>5. ASSUME NEW i \in 1..Len(onAir') PROVE onAir'[i] <= taken
    <3>1. i = Len(onAir) + 1 \/ i \in 1..Len(onAir)
      BY <2>3, <1>t, SMT
    <3>2. CASE i = Len(onAir) + 1
      BY <3>2, <2>3, <1>t, SMT
    <3>3. CASE i \in 1..Len(onAir)
      BY <3>3, <2>3, <1>t
    <3> QED BY <3>1, <3>2, <3>3
  <2>6. ReplyIsNew'
    BY <2>5, <1>v DEF ReplyIsNew
  <2>7. ASSUME NEW i \in 1..Len(onAir'), NEW j \in 1..Len(onAir'), i < j
        PROVE  onAir'[i] < onAir'[j]
    <3> DEFINE n == Len(onAir)
               m == Len(onAir')
    <3>n. n \in Nat /\ m = n + 1 /\ i \in 1..m /\ j \in 1..m /\ i < j
      BY <2>3, <2>7, <1>t
    <3>1. i \in 1..n /\ (j = n + 1 \/ j \in 1..n)
      <4> HIDE DEF n, m
      <4> QED BY <3>n, SMT
    <3>2. CASE j = Len(onAir) + 1
      BY <3>1, <3>2, <2>1, <2>3
    <3>3. CASE j \in 1..Len(onAir)
      <4>1. onAir[i] < onAir[j]
        BY <3>1, <3>3, <2>7 DEF LinkInv, TelemetryInOrder
      <4> QED BY <4>1, <3>1, <3>3, <2>3
    <3> QED BY <3>1, <3>2, <3>3
  <2>8. TelemetryInOrder'
    BY <2>7 DEF TelemetryInOrder
  <2> QED BY <2>4, <2>6, <2>8 DEF LinkInv
<1>2. CASE ~(reply > 0)
  BY <1>2, <1>v DEF LinkInv, LinkTypes, ReplyIsNew, TelemetryInOrder
<1> QED BY <1>1, <1>2

\* A new reply is a heartbeat or newer than every frame taken before.
LEMMA ListenStep ==
    ASSUME LinkInv, Listen
    PROVE  LinkInv'
<1>t. /\ taken \in 0..arrived /\ arrived \in 0..MaxFrames /\ MaxFrames \in Nat
      /\ onAir \in Seq(1..MaxFrames) /\ \A i \in 1..Len(onAir) : onAir[i] <= taken
  BY Constants DEF LinkInv, LinkTypes, ReplyIsNew
<1>o. \A i \in 1..Len(onAir) : onAir[i] \in Nat
  BY <1>t, SMT
<1>v. /\ link' = "listening" /\ mpc' = "loop" /\ UNCHANGED <<event, arrived, onAir>>
      /\ \/ taken < arrived /\ reply' = taken + 1 /\ taken' = taken + 1
         \/ reply' = 0 /\ taken' = taken
  BY DEF Listen, Reply
<1>1. taken' \in 0..arrived /\ reply' \in 0..taken' /\ taken <= taken'
  BY <1>t, <1>v, SMT
<1>2. LinkTypes'
  BY <1>1, <1>v DEF LinkTypes, LinkInv
<1>3. ReplyIsNew'
  <2>1. \A i \in 1..Len(onAir) : onAir[i] <= taken'
    BY <1>t, <1>o, <1>1, SMT
  <2>2. reply' > 0 => \A i \in 1..Len(onAir) : onAir[i] < reply'
    BY <1>t, <1>o, <1>v, SMT
  <2> QED BY <2>1, <2>2, <1>v DEF ReplyIsNew
<1>4. TelemetryInOrder'
  BY <1>v DEF LinkInv, TelemetryInOrder
<1> QED BY <1>2, <1>3, <1>4 DEF LinkInv

-----------------------------------------------------------------------------
\* Every step of the code, and every stutter, preserves the invariant.
THEOREM Inductive == IInv /\ [Next]_vars => IInv'
<1> SUFFICES ASSUME IInv, [Next]_vars PROVE IInv'
  OBVIOUS
<1>l. LinkInv /\ ClockInv
  BY DEF IInv
\* A step that leaves the radio, or the clock and the thread, alone.
<1>u. UNCHANGED linkVars => LinkInv'
  BY <1>l DEF linkVars, LinkInv, LinkTypes, ReplyIsNew, TelemetryInOrder
<1>w. UNCHANGED <<tick, failsafeVars, threadVars>> => ClockInv'
  BY HeardStep
<1>1. CASE Tick
  BY <1>1, <1>u, TickStep DEF Tick, IInv
<1>2. CASE ReadFirst
  BY <1>2, <1>u, ReadFirstStep DEF ReadFirst, IInv
<1>3. CASE ReadSecond
  BY <1>3, <1>u, ReadSecondStep DEF ReadSecond, IInv
<1>4. CASE SetFailsafe
  BY <1>4, <1>u, SetFailsafeStep DEF SetFailsafe, IInv
<1>5. ASSUME NEW bind \in BOOLEAN, NEW intact \in BOOLEAN, RxData(bind, intact)
      PROVE  IInv'
  <2>1. ClockInv'
    <3>1. UNCHANGED <<tick, threadVars>>
      BY <1>5 DEF RxData
    <3>2. \/ Heard /\ silence' = 0 /\ raced' = TRUE
          \/ UNCHANGED failsafeVars
      BY <1>5 DEF RxData
    <3> QED BY <3>1, <3>2, HeardStep
  <2>2. /\ link = "listening" /\ link' \in {"acking", "idle", "listening"}
        /\ event' = TRUE /\ UNCHANGED <<mpc, reply, arrived, taken, onAir>>
    BY <1>5 DEF RxData
  <2>3. LinkInv'
    BY <2>2, <1>l DEF LinkInv, LinkTypes, ReplyIsNew, TelemetryInOrder
  <2> QED BY <2>1, <2>3 DEF IInv
<1>6. CASE TxFinish
  BY <1>6, <1>l, <1>w, TxFinishStep DEF TxFinish, IInv
<1>7. CASE TxFail
  <2>1. LinkInv'
    BY <1>7, <1>l DEF TxFail, LinkInv, LinkTypes, ReplyIsNew, TelemetryInOrder
  <2> QED BY <2>1, <1>7, <1>w DEF TxFail, IInv
<1>8. CASE UartFrame
  <2>1. arrived' \in 0..MaxFrames /\ taken \in 0..arrived'
    BY <1>8, <1>l, Constants, SMT DEF UartFrame, LinkInv, LinkTypes
  <2>2. LinkInv'
    BY <2>1, <1>8, <1>l DEF UartFrame, LinkInv, LinkTypes, ReplyIsNew, TelemetryInOrder
  <2> QED BY <2>2, <1>8, <1>w DEF UartFrame, IInv
<1>9. CASE TakeEvent
  <2>1. LinkInv'
    BY <1>9, <1>l DEF TakeEvent, LinkInv, LinkTypes, ReplyIsNew, TelemetryInOrder
  <2> QED BY <2>1, <1>9, <1>w DEF TakeEvent, IInv
<1>10. CASE Shut
  <2>1. LinkInv'
    BY <1>10, <1>l DEF Shut, LinkInv, LinkTypes, ReplyIsNew, TelemetryInOrder
  <2> QED BY <2>1, <1>10, <1>w DEF Shut, IInv
<1>11. CASE Listen
  BY <1>11, <1>l, <1>w, ListenStep DEF Listen, IInv
<1>12. CASE UNCHANGED vars
  BY <1>12, <1>u, <1>w DEF vars, IInv
<1> QED BY <1>1, <1>2, <1>3, <1>4, <1>5, <1>6, <1>7, <1>8, <1>9, <1>10, <1>11, <1>12
        DEF Next, RadioThread, RF_ProcessEvent

\* So it holds in every reachable state.
THEOREM Invariance == Spec => []IInv
BY Initially, Inductive, PTL DEF Spec

\* Every state of the receiver has its type.
THEOREM TypeCorrect == Spec => []TypeOK
<1>1. IInv => TypeOK
  BY DEF IInv, ClockInv, ClockTypes, LinkInv, LinkTypes, TypeOK
<1> QED BY <1>1, Invariance, PTL

LEMMA WithinLongest == IInv => LossNoticed
<1> SUFFICES ASSUME IInv, ~failsafe PROVE silence <= Longest
  BY DEF LossNoticed
<1>1. silence + wake <= Limit + MaxDelay + Period + late
  BY DEF IInv, ClockInv, Bounded
<1>2. silence \in Nat /\ wake \in Nat /\ late \in Nat /\ late <= MaxDelay
  BY Constants, SMT DEF IInv, ClockInv, ClockTypes
<1> QED BY <1>1, <1>2, Constants, SMT

\* Out of failsafe the last packet is no older than the limit, a period and
\* the delays of two checks, whatever came between the steps of a check.
THEOREM LossIsNoticed == Spec => []LossNoticed
BY WithinLongest, Invariance, PTL

\* failsafe is raised after a silence beyond the limit, or by a packet that
\* came between the steps of the check that raises it.
THEOREM AlarmsAreTrue == Spec => NoFalseAlarm
<1>1. IInv /\ [Next]_vars
        => [~failsafe /\ failsafe' => silence > Limit \/ raced]_vars
  <2> SUFFICES ASSUME IInv, Next, ~failsafe, failsafe', ~raced
               PROVE  silence > Limit
    OBVIOUS
  <2>1. pc = "set"
    <3>1. CASE SetFailsafe
      BY <3>1 DEF SetFailsafe
    <3>2. CASE ~SetFailsafe
      BY <3>2 DEF Next, Tick, RadioThread, ReadFirst, ReadSecond, RxData, Heard,
         TxFinish, TxFail, UartFrame, RF_ProcessEvent, TakeEvent, Shut, Listen, failsafeVars
    <3> QED BY <3>1, <3>2
  <2> QED BY <2>1 DEF IInv, ClockInv, Checking
<1> QED BY <1>1, Invariance, PTL DEF Spec, NoFalseAlarm

\* A tick keeps to the promise: out of failsafe there was time left.
LEMMA TickPromised ==
    ASSUME IInv, IInv', Tick
    PROVE  Promise!Time
<1>1. silence \in 0..(Longest + 1) /\ Longest \in Nat /\ failsafe' = failsafe
  BY Constants DEF IInv, ClockInv, ClockTypes, Tick
<1>2. silence' = IF silence > Longest THEN silence ELSE silence + 1
  BY <1>1, SMT DEF Tick, UpTo
<1>3. ~failsafe' => silence' <= Longest
  <2>1. LossNoticed'
    BY WithinLongest, PTL
  <2> QED BY <2>1 DEF LossNoticed, Longest
<1>4. ~failsafe => silence < Longest
  BY <1>1, <1>2, <1>3, SMT
<1> QED BY <1>1, <1>2, <1>4 DEF Promise!Time

\* The receiver's failsafe is that of module Failsafe: every step of the
\* threads and callbacks is one of its steps or changes nothing there.
THEOREM RefinesFailsafe == Spec => IsFailsafe
<1>1. Init => Promise!Init
  BY DEF Init, Promise!Init
<1>2. IInv /\ IInv' /\ [Next]_vars => [Promise!Next]_<<failsafe, silence>>
  <2> SUFFICES ASSUME IInv, IInv', [Next]_vars
               PROVE  Promise!Next \/ UNCHANGED <<failsafe, silence>>
    OBVIOUS
  <2>1. CASE Tick
    BY <2>1, TickPromised DEF Promise!Next
  <2>2. CASE SetFailsafe
    <3>1. CASE failsafe
      BY <2>2, <3>1 DEF SetFailsafe, Sleep, IInv, ClockInv, ClockTypes
    <3>2. CASE ~failsafe
      <4>1. silence > Limit \/ silence <= MaxDelay
        BY <2>2, <3>2, Constants, SMT DEF SetFailsafe, IInv, ClockInv, ClockTypes, Checking
      <4> QED BY <4>1, <2>2 DEF SetFailsafe, Sleep, Promise!Next, Promise!Raise
    <3> QED BY <3>1, <3>2
  <2>3. ASSUME NEW bind \in BOOLEAN, NEW intact \in BOOLEAN, RxData(bind, intact)
        PROVE  Promise!Next \/ UNCHANGED <<failsafe, silence>>
    BY <2>3 DEF RxData, Heard, failsafeVars, Promise!Next, Promise!Heard
  <2>4. CASE ReadFirst \/ ReadSecond
    BY <2>4 DEF ReadFirst, ReadSecond, failsafeVars
  <2>5. CASE TxFinish \/ TxFail \/ UartFrame
    BY <2>5 DEF TxFinish, TxFail, UartFrame, failsafeVars
  <2>6. CASE RF_ProcessEvent
    BY <2>6 DEF RF_ProcessEvent, TakeEvent, Shut, Listen, failsafeVars
  <2>7. CASE UNCHANGED vars
    BY <2>7 DEF vars, failsafeVars
  <2> QED BY <2>1, <2>2, <2>3, <2>4, <2>5, <2>6, <2>7 DEF Next, RadioThread
<1> QED BY <1>1, <1>2, Invariance, PTL DEF Spec, IsFailsafe, Promise!Spec

\* Telemetry frames go out in order, each at most once.
THEOREM TelemetryOrdered == Spec => []TelemetryInOrder
<1>1. IInv => TelemetryInOrder
  BY DEF IInv, LinkInv
<1> QED BY <1>1, Invariance, PTL

\* While the radio does not listen the handler is at work on it or has an
\* event to come: no order of callbacks and handler, a failed acknowledgement
\* included, leaves the receiver deaf with nothing under way.
NeverDeaf == link # "listening" => event \/ mpc # "loop"

\* So the receiver always has a step to come that makes it listen again.
THEOREM NeverLeftDeaf == Spec => []NeverDeaf
<1>1. Init => NeverDeaf
  BY DEF Init, NeverDeaf
<1>2. NeverDeaf /\ [Next]_vars => NeverDeaf'
  <2> SUFFICES ASSUME NeverDeaf, [Next]_vars PROVE NeverDeaf'
    OBVIOUS
  <2>1. CASE Tick \/ RadioThread
    BY <2>1 DEF Tick, RadioThread, ReadFirst, ReadSecond, SetFailsafe, linkVars, NeverDeaf
  <2>2. ASSUME NEW bind \in BOOLEAN, NEW intact \in BOOLEAN, RxData(bind, intact)
        PROVE  NeverDeaf'
    BY <2>2 DEF RxData, NeverDeaf
  <2>3. CASE TxFinish \/ TxFail \/ UartFrame
    BY <2>3 DEF TxFinish, TxFail, UartFrame, NeverDeaf
  <2>4. CASE RF_ProcessEvent
    BY <2>4 DEF RF_ProcessEvent, TakeEvent, Shut, Listen, NeverDeaf
  <2>5. CASE UNCHANGED vars
    BY <2>5 DEF vars, linkVars, NeverDeaf
  <2> QED BY <2>1, <2>2, <2>3, <2>4, <2>5 DEF Next
<1> QED BY <1>1, <1>2, PTL DEF Spec
=============================================================================
