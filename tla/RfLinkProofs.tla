---------------------------- MODULE RfLinkProofs ----------------------------
(***************************************************************************)
(* Proofs about RfLink for every length of a packet, every period of the   *)
(* passes and of the RF task and every delay of the task.                  *)
(***************************************************************************)
EXTENDS RfLink, TLAPS

Types ==
    /\ on \in BOOLEAN /\ calibrating \in BOOLEAN /\ steered \in BOOLEAN
    /\ news \in BOOLEAN /\ clear \in BOOLEAN /\ uncalibrated \in BOOLEAN
    /\ wake \in Nat /\ at \in 1..Size /\ due \in 0..Task /\ late \in 0..Delay
    /\ mpc \in {"loop", "compare", "note", "copy", "send"}
    /\ packet \in [1..Size -> {"new", "old", "zero"}]
    /\ air \in {"sending", "idle"}
    /\ good \in Nat /\ silence \in Nat

\* Nothing is under way while the transmitter is off, and a packet goes out
\* between two events of the task.
Rests ==
    /\ ~on => mpc = "loop" /\ air = "idle" /\ ~steered /\ ~uncalibrated /\ ~news
              /\ good = 0 /\ \A b \in 1..Size : packet[b] = "zero"
    /\ air = "sending" => mpc = "loop" /\ due > 0
    /\ mpc = "loop" /\ due > 0 => late = 0
    /\ mpc = "note" => news

\* The bytes of the packet that are as new as radio.channels.
Copied == CASE mpc = "copy" -> 1..(at - 1) [] mpc = "note" -> {} [] OTHER -> 1..Size

\* Until the next pass the copied bytes stay the newest.
CopiedNewest == ~news => \A b \in Copied : packet[b] = Newest

\* Before the first sticks nothing is copied; after them no zero is.
NoZeros ==
    /\ ~uncalibrated /\ ~steered => ~calibrating /\ ~news /\ air = "idle"
                                    /\ mpc \in {"loop", "compare"}
    /\ ~uncalibrated /\ mpc = "copy" => \A b \in 1..(at - 1) : packet[b] # "zero"
    /\ ~uncalibrated /\ (mpc = "send" \/ air = "sending") =>
           \A b \in 1..Size : packet[b] # "zero"

-----------------------------------------------------------------------------
\* A packet is under way or will be at the next event.
UnderWay == mpc \in {"note", "copy", "send"} \/ air = "sending"

\* The ticks until a packet is out: the longest it can take.
Rest ==
    IF air = "sending" THEN 0
    ELSE IF mpc \in {"note", "copy", "send"} \/ (mpc = "compare" /\ news) THEN Delay - late
    ELSE IF news THEN due + Delay - late
    ELSE wake + Task + Delay

\* Either the first packet since the air became clear is still to come, and
\* in time, or silence is no longer than what a working link has.
InTime ==
    /\ news \/ UnderWay \/ good > 0 => wake <= Pass + 1
    /\ good > 0 => on /\ clear
    /\ good > 0 => \/ (news \/ UnderWay) /\ good + Rest < Answer
                   \/ silence + Rest <= Answer

IInv == Types /\ Rests /\ CopiedNewest /\ NoZeros /\ InTime

-----------------------------------------------------------------------------
USE ConstantsAssumption

LEMMA UnwrittenIsZero ==
    Unwritten \in [1..Size -> {"new", "old", "zero"}] /\ \A b \in 1..Size : Unwritten[b] = "zero"
BY DEF Unwritten

LEMMA Numbers ==
    /\ 0 \in Nat /\ 1 \in 1..Size /\ 0 \in 0..Task /\ Task \in 0..Task /\ 0 \in 0..Delay
    /\ Boot \in Nat /\ Pass \in Nat /\ Pass + 1 \in Nat /\ Longest + 1 \in Nat
BY SMT

LEMMA Sooner ==
    ASSUME NEW r \in Int, NEW s \in Int, s <= r, NEW x \in Int, NEW y \in Int
    PROVE  (x + r <= y => x + s <= y) /\ (x + r < y => x + s < y)
BY SMT

LEMMA Initially == Init => IInv
<1> SUFFICES ASSUME Init PROVE IInv
  OBVIOUS
<1> USE DEF Init, Receiver!Init
<1>1. Types
  BY UnwrittenIsZero, Numbers DEF Types
<1>2. Rests /\ CopiedNewest /\ NoZeros
  <2>1. Copied = 1..Size /\ Newest = "zero"
    BY DEF Copied, Newest
  <2> QED BY <2>1, UnwrittenIsZero DEF Rests, CopiedNewest, NoZeros
<1>3. InTime
  BY SMT DEF InTime, UnderWay
<1> QED BY <1>1, <1>2, <1>3 DEF IInv

LEMMA PowerOnStep == IInv /\ PowerOn => IInv'
<1> SUFFICES ASSUME IInv, PowerOn PROVE IInv'
  OBVIOUS
<1> USE DEF IInv, PowerOn, NewsAtPowerOn, receiver
<1>1. Types'
  BY UnwrittenIsZero, Numbers DEF Types
<1>2. Rests' /\ CopiedNewest' /\ NoZeros'
  <2>1. Copied' = 1..Size /\ Newest' = "zero" /\ packet' = Unwritten /\ air' = "idle"
    BY DEF Rests, Copied, Newest
  <2> QED BY <2>1, UnwrittenIsZero DEF Rests, CopiedNewest, NoZeros
<1>3. InTime'
  BY SMT DEF Types, Rests, InTime, UnderWay
<1> QED BY <1>1, <1>2, <1>3

LEMMA PowerOffStep == IInv /\ PowerOff => IInv'
<1> SUFFICES ASSUME IInv, PowerOff PROVE IInv'
  OBVIOUS
<1> USE DEF IInv, PowerOff, receiver
<1>1. Types'
  BY UnwrittenIsZero, Numbers DEF Types
<1>2. Rests' /\ CopiedNewest' /\ NoZeros'
  <2>1. Copied' = 1..Size /\ Newest' = "zero" /\ packet' = Unwritten
    BY DEF Copied, Newest
  <2> QED BY <2>1, UnwrittenIsZero DEF Rests, CopiedNewest, NoZeros
<1>3. InTime'
  BY SMT DEF InTime, UnderWay
<1> QED BY <1>1, <1>2, <1>3

LEMMA FadeStep == IInv /\ Fade => IInv'
<1> SUFFICES ASSUME IInv, Fade PROVE IInv'
  OBVIOUS
<1> USE DEF IInv, Fade, thread, task, receiver
<1>1. Types'
  BY SMT DEF Types
<1>2. Rests' /\ CopiedNewest' /\ NoZeros'
  BY DEF Rests, CopiedNewest, Copied, NoZeros, Newest
<1>3. InTime'
  BY SMT DEF InTime, UnderWay
<1> QED BY <1>1, <1>2, <1>3

LEMMA TickStep == IInv /\ Tick => IInv'
<1> SUFFICES ASSUME IInv, Tick PROVE IInv'
  OBVIOUS
<1> USE DEF IInv, Tick, Receiver!Time, Least
<1>1. Types'
  BY SMT DEF Types, Waiting
<1>2. CopiedNewest' /\ NoZeros'
  BY DEF CopiedNewest, Copied, NoZeros, Newest
<1>3. Rests'
  BY SMT DEF Types, Rests, Waiting
<1>4. InTime'
  <2>1. CASE ~on
    BY <2>1, SMT DEF Types, Rests, InTime, UnderWay
  <2>2. CASE on
    <3>1. wake > 0 /\ wake' = wake - 1 /\ UnderWay' = UnderWay /\ silence' <= silence + 1
      BY <2>2, SMT DEF Types, UnderWay
    <3>2. Rest' = Rest - 1
      BY <2>2, <3>1, SMT DEF Types, Rests, Waiting, Rest
    <3>3. good' > 0 => good' = good + 1 \/ (good' = good /\ good > Answer)
      BY SMT DEF Types, InTime, Answer
    <3>4. Rest <= Task + Delay \/ ~(news \/ UnderWay)
      BY SMT DEF Types, Rest, UnderWay
    <3>5. Rest \in Nat /\ Answer \in Nat /\ silence \in Nat /\ silence' \in Nat /\ good \in Nat
      BY <1>1, SMT DEF Types, Rest, Answer
    <3>6. CASE good = 0
      <4>1. on' = on /\ clear' = clear /\ news' = news /\ UnderWay' = UnderWay /\ Answer' = Answer
        BY <3>1 DEF Answer
      <4>2. good' = 0 \/ (good' = 1 /\ on /\ clear /\ news)
        BY <3>6, SMT
      <4>3. news => 1 + Rest' < Answer
        BY <3>2, <3>4, <3>5, SMT DEF Answer
      <4>4. news \/ UnderWay => wake' <= Pass + 1
        BY <3>1, SMT DEF Types, InTime
      <4>5. ~(0 > 0)
        BY SMT
      <4> QED BY <4>1, <4>2, <4>3, <4>4, <4>5 DEF InTime
    <3>7. CASE good > 0
      <4>1. good + Rest < Answer => good' + Rest' < Answer
        BY <3>2, <3>3, <3>5, <3>7, SMT
      <4>2. silence + Rest <= Answer => silence' + Rest' <= Answer
        BY <3>1, <3>2, <3>5, SMT
      <4>3. wake <= Pass + 1 /\ wake' <= Pass + 1
        BY <3>1, <3>7, SMT DEF Types, InTime
      <4>4. on' /\ clear' /\ news' = news /\ UnderWay' = UnderWay /\ Answer' = Answer
        BY <3>1, <3>7 DEF InTime, Answer
      <4>5. \/ (news \/ UnderWay) /\ good + Rest < Answer
            \/ silence + Rest <= Answer
        BY <3>7 DEF InTime
      <4> QED BY <4>1, <4>2, <4>3, <4>4, <4>5 DEF InTime
    <3> QED BY <3>6, <3>7, SMT DEF Types
  <2> QED BY <2>1, <2>2
<1> QED BY <1>1, <1>2, <1>3, <1>4

LEMMA RadioPassStep == IInv /\ RadioPass => IInv'
<1> SUFFICES ASSUME IInv, RadioPass PROVE IInv'
  OBVIOUS
<1> USE DEF IInv, RadioPass, history, receiver
<1>1. Types'
  <2>1. packet' \in [1..Size -> {"new", "old", "zero"}]
    BY DEF Types
  <2>2. wake' \in Nat
    BY Numbers
  <2> QED BY <2>1, <2>2 DEF Types
<1>2. Rests'
  BY DEF Types, Rests
<1>3. CopiedNewest'
  BY DEF CopiedNewest
<1>4. NoZeros'
  <2>1. \A b \in 1..Size : packet[b] # "zero" => packet'[b] # "zero"
    BY DEF Types
  <2>2. ~uncalibrated => steered'
    BY DEF Types, NoZeros
  <2>3. 1..(at - 1) \subseteq 1..Size
    BY SMT DEF Types
  <2> QED BY <2>1, <2>2, <2>3 DEF NoZeros
<1>5. InTime'
  <2>1. wake' <= Pass + 1 /\ UnderWay' = UnderWay /\ news'
    BY SMT DEF UnderWay
  <2>2. Rest' <= Rest
    BY SMT DEF Types, Rests, Rest
  <2>3. Rest' \in Int /\ Rest \in Int /\ Answer \in Int /\ good \in Int /\ silence \in Int
    BY SMT DEF Types, Rest, Answer
  <2>4. /\ silence + Rest <= Answer => silence + Rest' <= Answer
        /\ good + Rest < Answer => good + Rest' < Answer
    BY <2>2, <2>3, Sooner
  <2> QED BY <2>1, <2>4 DEF InTime
<1> QED BY <1>1, <1>2, <1>3, <1>4, <1>5

LEMMA PeriodicEventStep == IInv /\ PeriodicEvent => IInv'
<1> SUFFICES ASSUME IInv, PeriodicEvent PROVE IInv'
  OBVIOUS
<1> USE DEF IInv, PeriodicEvent, thread, history, receiver
<1>1. Types'
  BY DEF Types
<1>2. Rests' /\ CopiedNewest' /\ NoZeros' /\ air = "idle"
  BY SMT DEF Types, Rests, CopiedNewest, Copied, NoZeros, Newest
<1>3. InTime'
  BY <1>2, SMT DEF Types, InTime, UnderWay, Rest, Answer
<1> QED BY <1>1, <1>2, <1>3

LEMMA CompareStep == IInv /\ Compare => IInv'
<1> SUFFICES ASSUME IInv, Compare PROVE IInv'
  OBVIOUS
<1> USE DEF IInv, Compare, Restart, thread, history, receiver
<1>1. Types'
  BY SMT DEF Types
<1>2. Rests' /\ CopiedNewest' /\ NoZeros'
  BY SMT DEF Types, Rests, CopiedNewest, Copied, NoZeros, Newest
<1>3. InTime'
  BY SMT DEF Types, Rests, InTime, UnderWay, Rest, Answer
<1> QED BY <1>1, <1>2, <1>3

LEMMA NoteStep == IInv /\ Note => IInv'
<1> SUFFICES ASSUME IInv, Note PROVE IInv'
  OBVIOUS
<1> USE DEF IInv, Note, thread, history, receiver
<1>1. Types'
  BY Numbers DEF Types
<1>2. Copied' = {} /\ 1..(at' - 1) = {}
  BY SMT DEF Copied
<1>3. Rests' /\ CopiedNewest' /\ NoZeros'
  BY <1>2 DEF Types, Rests, CopiedNewest, NoZeros
<1>4. InTime'
  BY SMT DEF Types, Rests, InTime, UnderWay, Rest, Answer
<1> QED BY <1>1, <1>3, <1>4

LEMMA CopyStep == IInv /\ Copy => IInv'
<1> SUFFICES ASSUME IInv, Copy PROVE IInv'
  OBVIOUS
<1> USE DEF IInv, Copy, thread, history, receiver
<1>1. Newest \in {"new", "zero"} /\ (steered => Newest = "new") /\ Newest' = Newest
  BY DEF Newest
<1>2. packet' \in [1..Size -> {"new", "old", "zero"}] /\ packet'[at] = Newest
      /\ \A b \in 1..Size : b # at => packet'[b] = packet[b]
  BY <1>1 DEF Types
<1>3. Types'
  BY <1>2, SMT DEF Types
<1>4. \A b \in Copied' : b \in 1..Size /\ (b = at \/ b \in 1..(at - 1))
  BY SMT DEF Types, Copied
<1>5. CopiedNewest'
  BY <1>1, <1>2, <1>4 DEF CopiedNewest, Copied
<1>6. NoZeros'
  <2>1. \/ mpc' = "copy" /\ at' = at + 1 /\ Copied' = 1..(at' - 1)
        \/ mpc' = "send" /\ Copied' = 1..Size
    BY DEF Copied
  <2>2. ~uncalibrated => steered /\ \A b \in Copied' : packet'[b] # "zero"
    BY <1>1, <1>2, <1>4 DEF NoZeros
  <2>3. air = "idle"
    BY DEF Types, Rests
  <2> QED BY <2>1, <2>2, <2>3 DEF NoZeros
<1>7. Rests'
  BY DEF Types, Rests
<1>8. InTime'
  BY SMT DEF Types, Rests, InTime, UnderWay, Rest, Answer
<1> QED BY <1>3, <1>5, <1>6, <1>7, <1>8

LEMMA SendStep == IInv /\ Send => IInv'
<1> SUFFICES ASSUME IInv, Send PROVE IInv'
  OBVIOUS
<1> USE DEF IInv, Send, Sent, Restart, thread, history, receiver
<1>1. Types'
  BY SMT DEF Types
<1>2. Rests' /\ CopiedNewest' /\ NoZeros'
  BY SMT DEF Types, Rests, CopiedNewest, Copied, NoZeros, Newest
<1>3. InTime'
  BY SMT DEF Types, Rests, InTime, UnderWay, Rest, Answer
<1> QED BY <1>1, <1>2, <1>3

LEMMA ArriveStep == IInv /\ Arrive => IInv'
<1> SUFFICES ASSUME IInv, Arrive PROVE IInv'
  OBVIOUS
<1> USE DEF IInv, Arrive, Receiver!Heard, receiver, thread, history
<1>1. Types'
  BY SMT DEF Types
<1>2. Rests' /\ CopiedNewest' /\ NoZeros'
  BY DEF Types, Rests, CopiedNewest, Copied, NoZeros, Newest
<1>3. InTime'
  BY SMT DEF Types, Rests, InTime, UnderWay, Rest, Answer
<1> QED BY <1>1, <1>2, <1>3

LEMMA OtherStep == IInv /\ (ReceiverRaises \/ UNCHANGED vars) => IInv'
<1> SUFFICES ASSUME IInv, ReceiverRaises \/ UNCHANGED vars PROVE IInv'
  OBVIOUS
<1> USE DEF IInv, ReceiverRaises, Receiver!Raise, vars, thread, task, history, receiver
<1>1. Types' /\ Rests'
  BY DEF Types, Rests
<1>2. CopiedNewest' /\ NoZeros'
  BY DEF CopiedNewest, Copied, NoZeros, Newest
<1>3. InTime'
  BY DEF InTime, UnderWay, Rest
<1> QED BY <1>1, <1>2, <1>3

\* Every step of the code, and every stutter, preserves the invariant.
THEOREM Inductive == IInv /\ [Next]_vars => IInv'
BY PowerOnStep, PowerOffStep, FadeStep, TickStep, RadioPassStep, PeriodicEventStep,
   CompareStep, NoteStep, CopyStep, SendStep, ArriveStep, OtherStep
   DEF Next, RF_ProcessEvent

\* So it holds in every reachable state.
THEOREM Invariance == Spec => []IInv
BY Initially, Inductive, PTL DEF Spec

-----------------------------------------------------------------------------
\* Where the RF task rests and knows of no later pass, its packet holds every
\* byte of the last sticks, whatever passes came between its bytes.
THEOREM LastSticksSent == Spec => []AllSent
<1>1. IInv => AllSent
  BY DEF IInv, CopiedNewest, Copied, AllSent
<1> QED BY <1>1, Invariance, PTL

\* No packet goes out before the sticks have been read, but for the one
\* exception that the property names.
THEOREM ZerosNeverSent == Spec => []OnlyReadSticks
<1>1. IInv => OnlyReadSticks
  BY DEF IInv, NoZeros, OnlyReadSticks
<1> QED BY <1>1, Invariance, PTL

\* With a clear air the receiver hears the transmitter a pass, an event and a
\* delay of the RF task apart at most.
THEOREM SilenceBounded == Spec => []HeardOften
<1>1. IInv => HeardOften
  <2> SUFFICES ASSUME IInv, good >= Answer PROVE silence <= Answer
    BY DEF HeardOften
  <2>1. Rest \in Nat /\ Answer \in Nat /\ Answer > 0 /\ good \in Nat /\ silence \in Nat
    BY SMT DEF IInv, Types, Rest, Answer
  <2> QED BY <2>1, SMT DEF IInv, InTime
<1> QED BY <1>1, Invariance, PTL

\* While the transmitter makes its passes and the air is clear, failsafe is
\* never raised for a silence, if the limit is no less than the longest
\* silence of a link that works: only by a packet inside the check itself.
THEOREM NoFailsafeOnWorkingLink ==
    ASSUME Answer <= Limit
    PROVE  Spec => [][good >= Answer /\ ~failsafe /\ failsafe' => silence <= Race]_vars
<1>1. IInv /\ HeardOften /\ [Next]_vars =>
        [good >= Answer /\ ~failsafe /\ failsafe' => silence <= Race]_vars
  <2> SUFFICES ASSUME IInv, HeardOften, Next, good >= Answer, ~failsafe, failsafe'
               PROVE  silence <= Race
    OBVIOUS
  <2>1. ReceiverRaises
    <3>1. failsafe' # failsafe
      OBVIOUS
    <3>2. ~(Tick \/ Arrive)
      BY <3>1 DEF Tick, Arrive, Receiver!Time, Receiver!Heard, receiver
    <3> QED BY <3>1, <3>2 DEF Next, PowerOn, PowerOff, Fade, RadioPass, RF_ProcessEvent,
         PeriodicEvent, Compare, Note, Copy, Send, receiver
  <2>2. silence > Limit \/ silence <= Race
    BY <2>1 DEF ReceiverRaises, Receiver!Raise
  <2>3. silence <= Limit
    <3>1. silence <= Answer /\ silence \in Nat /\ Answer \in Nat
      BY SMT DEF HeardOften, IInv, Types, Answer
    <3> QED BY <3>1, SMT
  <2>4. silence \in Nat
    BY DEF IInv, Types
  <2> QED BY <2>2, <2>3, <2>4, SMT
<1> QED BY <1>1, Invariance, SilenceBounded, PTL DEF Spec
=============================================================================
