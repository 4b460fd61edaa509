--------------------------- MODULE DatalinkProofs ---------------------------
(***************************************************************************)
(* Proofs about Datalink for every set of frames, every size of a byte and *)
(* of the queue: a frame that comes through whole is delivered, and a      *)
(* parser out of step is soon back in step.                                *)
(***************************************************************************)
EXTENDS Datalink, SequenceTheorems, TLAPS

\* The sums of a frame's payload, which IsFrame says there are.
Sums(f) == CHOOSE s \in [4..Len(f) -> Bytes] : IsSums(s, f) /\ s[Len(f)] = f[2]

\* A byte in the queue: with a place it is the byte of its frame.
Received ==
    {b \in [ch : Bytes, frame : Frames \union {<<>>}, place : Nat, after : BOOLEAN] :
        b.place > 0 => b.frame \in Frames /\ b.place <= Len(b.frame)
                       /\ b.ch = b.frame[b.place]}

Progress == [frame : Frames \union {<<>>}, out : Nat, after : BOOLEAN]

\* A frame is on its way until its last byte.
Partly(r, first) == r # Nothing => /\ r.frame \in Frames
                                   /\ r.out >= first /\ r.out < Len(r.frame)

Types ==
    /\ sending \in Progress /\ Partly(sending, 0) /\ whole \in BOOLEAN
    /\ rx \in Seq(Received) /\ Len(rx) <= QueueSize
    /\ parser \in [state : States, checksum : Bytes, index : Bytes]
    /\ parser.state = "DATA" => (parser.index + 1 < pkg.len \/ parser.index = 0)
    /\ mpc # "spilled" => parser.index < PayloadSize
    /\ mpc = "spilled" => pkg.len > PayloadSize
    /\ parser.state \notin {"SYNC", "DATA"} => parser.index = 0
    /\ pkg \in [checksum : Bytes, len : Bytes]
    /\ mpc \in {"loop", "parse", "spilled"}
    /\ reading \in Progress /\ Partly(reading, 1) /\ missed \in Nat

\* Where the parser stands after n bytes of frame f.
Stands(f, n) ==
    /\ n = 1 => parser.state = "CHECKSUM"
    /\ n = 2 => parser.state = "RSSI"
    /\ n = 3 => parser.state = "LEN"
    /\ n = 4 => parser.state = "TYPE"
    /\ n <= 4 => parser.checksum = 0 /\ parser.index = 0
    /\ n >= 2 => pkg.checksum = f[2]
    /\ n >= 4 => pkg.len = Len(f) - 4
    /\ n >= 5 => parser.state = "DATA" /\ parser.checksum = Sums(f)[n] /\ parser.index = n - 5

InStep == reading # Nothing => Stands(reading.frame, reading.out)

IInv == Types /\ InStep

-----------------------------------------------------------------------------
LEMMA ByteFacts ==
    /\ Modulus \in Nat /\ Modulus > 2 /\ Bytes \subseteq Nat
    /\ 0 \in Bytes /\ 1 \in Bytes /\ Magic \in Bytes
    /\ \A n \in Nat : n < Modulus => n \in Bytes
    /\ \A n \in Bytes : n \in Nat /\ n < Modulus
    /\ PayloadSize \in Nat /\ PayloadSize >= 2
BY ConstantsAssumption, SMT DEF Bytes

LEMMA SumOfBytes == ASSUME NEW a \in Bytes, NEW b \in Bytes PROVE (a + b) % Modulus \in Bytes
<1> DEFINE c == a + b
<1>1. c \in Nat /\ Modulus \in Nat /\ Modulus > 0
  BY ByteFacts, SMT
<1> HIDE DEF c
<1>2. c % Modulus \in 0..(Modulus - 1)
  BY <1>1, SMT
<1> QED BY <1>2 DEF c, Bytes

LEMMA FrameFacts ==
    ASSUME NEW f \in Frames
    PROVE  /\ f \in Seq(Bytes) /\ Len(f) \in Nat /\ Len(f) >= 5 /\ f # <<>>
           /\ f[1] = Magic /\ f[4] = Len(f) - 4 /\ f[4] <= PayloadSize
           /\ \A i \in 1..Len(f) : f[i] \in Bytes
           /\ Sums(f)[4] = 0 /\ Sums(f)[Len(f)] = f[2]
           /\ \A i \in 5..Len(f) : Sums(f)[i] = (Sums(f)[i - 1] + f[i]) % Modulus
<1>1. IsFrame(f)
  BY ConstantsAssumption
<1>2. f \in Seq(Bytes) /\ Len(f) >= 5 /\ f[1] = Magic /\ f[4] = Len(f) - 4
      /\ f[4] <= PayloadSize
  BY <1>1 DEF IsFrame
<1>3. Len(f) \in Nat /\ \A i \in 1..Len(f) : f[i] \in Bytes
  BY <1>2, LenProperties, ElementOfSeq
<1>4. f # <<>>
  BY <1>2, <1>3, EmptySeq, SMT
<1>5. Sums(f) \in [4..Len(f) -> Bytes] /\ IsSums(Sums(f), f) /\ Sums(f)[Len(f)] = f[2]
  BY <1>1 DEF IsFrame, Sums
<1> QED BY <1>2, <1>3, <1>4, <1>5 DEF IsSums

LEMMA NothingFacts == Nothing \in Progress /\ Nothing.frame = <<>>
BY SMT DEF Nothing, Progress

\* The invariant holds in every initial state.
THEOREM Initially == Init => IInv
<1> SUFFICES ASSUME Init PROVE IInv
  OBVIOUS
<1>1. rx \in Seq(Received) /\ Len(rx) = 0 /\ 0 \in Nat /\ 0 <= QueueSize
  <2>1. 0 <= QueueSize
    BY ConstantsAssumption, SMT
  <2> QED BY <2>1, EmptySeq DEF Init
<1> QED BY <1>1, NothingFacts, ByteFacts DEF Init, IInv, Types, InStep, Partly, States

LEMMA SendFrameStep == ASSUME NEW f \in Frames, IInv, SendFrame(f) PROVE IInv'
<1>1. sending' = [frame |-> f, out |-> 0, after |-> whole]
  BY DEF SendFrame
<1>2. Len(f) > 0 /\ 0 >= 0
  BY FrameFacts, SMT
<1>3. sending' \in Progress /\ Partly(sending, 0)'
  BY <1>1, <1>2 DEF IInv, Types, Progress, Partly
<1>4. Types'
  BY <1>3 DEF SendFrame, IInv, Types, Partly, parserVars
<1>5. InStep'
  BY DEF SendFrame, IInv, InStep, Stands, parserVars
<1> QED BY <1>4, <1>5 DEF IInv

LEMMA UartStep ==
    ASSUME NEW ch \in Bytes, NEW lost \in BOOLEAN, IInv, UART1_IRQHandler(ch, lost)
    PROVE  IInv'
<1> DEFINE f == sending.frame
           n == sending.out + 1
           good == whole /\ ~lost /\ ch = f[n]
           b == IF good THEN [ch |-> ch, frame |-> f, place |-> n, after |-> sending.after]
                ELSE [ch |-> ch, frame |-> <<>>, place |-> 0, after |-> FALSE]
<1>1. /\ sending # Nothing
      /\ rx' = IF lost THEN rx ELSE Queued(b)
      /\ whole' = (good /\ Len(rx) < QueueSize)
      /\ sending' = IF n = Len(f) THEN Nothing ELSE [sending EXCEPT !.out = n]
      /\ UNCHANGED <<parserVars, mpc, reading, missed>>
  BY DEF UART1_IRQHandler
<1>2. f \in Frames /\ Len(f) \in Nat /\ n \in 1..Len(f) /\ sending.out \in Nat /\ n \in Nat
  <2>1. f \in Frames /\ sending.out \in Nat /\ sending.out < Len(f)
    BY <1>1 DEF IInv, Types, Partly, Progress
  <2> QED BY <2>1, FrameFacts, SMT
<1>3. b \in Received
  <2>1. CASE good
    BY <2>1, <1>2, SMT DEF IInv, Types, Progress, Received
  <2>2. CASE ~good
    BY <2>2, SMT DEF Received
  <2> QED BY <2>1, <2>2
<1> HIDE DEF b
<1>4. rx' \in Seq(Received) /\ Len(rx') <= QueueSize
  <2>1. CASE rx' = rx
    BY <2>1 DEF IInv, Types
  <2>2. CASE rx' = Append(rx, b) /\ Len(rx) < QueueSize
    <3>1. rx' \in Seq(Received) /\ Len(rx') = Len(rx) + 1 /\ Len(rx) \in Nat
      BY <2>2, <1>3, AppendProperties, LenProperties DEF IInv, Types
    <3> QED BY <3>1, <2>2, ConstantsAssumption, SMT
  <2> QED BY <1>1, <2>1, <2>2 DEF Queued
<1>5. sending' \in Progress /\ Partly(sending, 0)'
  <2>1. CASE n = Len(f)
    BY <2>1, <1>1, NothingFacts DEF Partly
  <2>2. CASE n # Len(f)
    <3>1. sending' = [sending EXCEPT !.out = n] /\ sending'.frame = f /\ sending'.out = n
      BY <2>2, <1>1 DEF IInv, Types, Progress
    <3>2. n >= 0 /\ n < Len(f)
      BY <2>2, <1>2, SMT
    <3> QED BY <3>1, <3>2, <1>2 DEF IInv, Types, Progress, Partly
  <2> QED BY <2>1, <2>2
<1> HIDE DEF f, n, good
<1>6. whole' \in BOOLEAN
  BY <1>1
<1>7. Types'
  BY <1>1, <1>4, <1>5, <1>6 DEF IInv, Types, Partly, parserVars
<1>8. InStep'
  BY <1>1 DEF IInv, InStep, Stands, parserVars
<1> QED BY <1>7, <1>8 DEF IInv

-----------------------------------------------------------------------------
\* The parser's variables keep their types, whatever byte it is given.
LEMMA ParserTypes ==
    ASSUME IInv, NEW ch \in Bytes, datalink_parse_char(ch)
    PROVE  /\ parser' \in [state : States, checksum : Bytes, index : Bytes]
           /\ pkg' \in [checksum : Bytes, len : Bytes]
           /\ parser'.state = "DATA" => parser'.index + 1 < pkg'.len \/ parser'.index = 0
           /\ parser'.state \notin {"SYNC", "DATA"} => parser'.index = 0
           /\ ~Spills /\ parser.index < PayloadSize => parser'.index < PayloadSize
           /\ Spills => pkg'.len > PayloadSize
<1>1. /\ parser \in [state : States, checksum : Bytes, index : Bytes]
      /\ pkg \in [checksum : Bytes, len : Bytes]
      /\ parser.state = "DATA" => parser.index + 1 < pkg.len \/ parser.index = 0
      /\ parser.state \notin {"SYNC", "DATA"} => parser.index = 0
  BY DEF IInv, Types
<1>2. Summed(ch) \in Bytes /\ parser.index \in Nat /\ pkg.len \in Nat
  BY <1>1, SumOfBytes, ByteFacts DEF Summed
<1>0. 0 < PayloadSize
  BY ByteFacts, SMT
<1>3. CASE Sync(ch)
  BY <1>0, <1>1, <1>3, ByteFacts DEF Sync, Start, States, Spills
<1>6. CASE Type(ch)
  BY <1>1, <1>2, <1>6, ByteFacts DEF Type, States, Spills
<1>4. CASE Header(ch)
  BY <1>1, <1>4, ByteFacts DEF Header, Goes, States, Spills
<1>5. CASE Data(ch)
  <2>1. parser.index + 1 \in Bytes
    <3>1. parser.index + 1 < Modulus /\ parser.index + 1 \in Nat
      BY <1>1, <1>2, <1>5, ByteFacts, SMT DEF Data
    <3> QED BY <3>1, ByteFacts
  <2>2. ~Ends => parser.index + 1 + 1 < pkg.len
    BY <1>2, SMT DEF Ends
  <2>3. \/ ~Ends /\ parser' = [parser EXCEPT !.checksum = Summed(ch), !.index = @ + 1]
        \/ parser' = [state |-> "SYNC", checksum |-> Summed(ch), index |-> parser.index + 1]
        \/ parser' = [state |-> "SYNC", checksum |-> 0, index |-> parser.index + 1]
    BY <1>5 DEF Data, Fail
  <2>4. pkg' = pkg /\ parser.state = "DATA"
    BY <1>5 DEF Data
  <2>7. /\ ~Spills => parser.index + 1 < PayloadSize
        /\ Spills => pkg.len > PayloadSize
    BY <1>1, <1>2, <2>4, ByteFacts, SMT DEF Spills
  <2>5. CASE ~Ends /\ parser' = [parser EXCEPT !.checksum = Summed(ch), !.index = @ + 1]
    <3>1. /\ parser'.index = parser.index + 1 /\ parser'.state = "DATA"
          /\ parser'.index + 1 < pkg'.len
          /\ parser' \in [state : States, checksum : Bytes, index : Bytes]
      BY <2>5, <1>1, <1>2, <2>1, <2>2, <2>4 DEF States
    <3> QED BY <3>1, <1>1, <2>2, <2>4, <2>5, <2>7
  <2>6. CASE ~(parser' = [parser EXCEPT !.checksum = Summed(ch), !.index = @ + 1] /\ ~Ends)
    <3>1. /\ parser'.state = "SYNC" /\ parser'.index = parser.index + 1
          /\ parser' \in [state : States, checksum : Bytes, index : Bytes]
      BY <2>6, <2>3, <1>2, <2>1, ByteFacts DEF States
    <3> QED BY <3>1, <1>1, <2>3, <2>4, <2>7
  <2> QED BY <2>5, <2>6
<1> QED BY <1>3, <1>4, <1>5, <1>6 DEF datalink_parse_char

\* The first byte of a frame starts it.
LEMMA FirstByte ==
    ASSUME NEW f \in Frames, parser.state = "SYNC", datalink_parse_char(f[1])
    PROVE  Stands(f, 1)' /\ ~Complete(f[1])
<1>1. f[1] = Magic
  BY FrameFacts
<1>2. parser' = Start /\ ~Complete(f[1])
  BY <1>1 DEF datalink_parse_char, Sync, Header, Type, Data, Complete
<1>3. Stands(f, 1)'
  BY <1>2, SMT DEF Stands, Start
<1> QED BY <1>2, <1>3

\* The next byte takes the parser one place on, and the last one completes
\* the frame.
LEMMA NextByte ==
    ASSUME IInv, NEW f \in Frames, NEW m \in Nat, NEW n \in Nat, n = m + 1, m >= 1,
           n <= Len(f), Stands(f, m), datalink_parse_char(f[n])
    PROVE  /\ n # Len(f) => Stands(f, n)'
           /\ Len(f) >= 6 => (Complete(f[n]) <=> n = Len(f))
           /\ ~Spills
<1> DEFINE ch == f[n]
<1>1. Len(f) \in Nat /\ Len(f) >= 5 /\ f[4] = Len(f) - 4 /\ Sums(f)[4] = 0
      /\ Len(f) - 4 <= PayloadSize /\ PayloadSize \in Nat
  BY FrameFacts, ByteFacts
<1>2. /\ parser \in [state : States, checksum : Bytes, index : Bytes]
      /\ pkg \in [checksum : Bytes, len : Bytes]
  BY DEF IInv, Types
<1>3. n \in 5..Len(f) => Sums(f)[n] = (Sums(f)[n - 1] + ch) % Modulus
  BY FrameFacts
<1>4. m \in 1..4 \/ m >= 5
  BY SMT
<1>5. CASE m \in 1..4
  <2>1. Len(f) >= 6 => n # Len(f)
    BY <1>1, <1>5, SMT
  <2>2. ~Complete(ch) /\ ~Spills
    <3>1. parser.state # "DATA"
      BY <1>5, SMT DEF Stands
    <3> QED BY <3>1 DEF Complete, Spills
  <2>3. CASE m = 1
    <3>1. n = 2 /\ parser.state = "CHECKSUM" /\ parser.checksum = 0 /\ parser.index = 0
      BY <2>3, SMT DEF Stands
    <3>2. parser' = [parser EXCEPT !.state = "RSSI"] /\ pkg' = [pkg EXCEPT !.checksum = ch]
      BY <3>1 DEF datalink_parse_char, Sync, Header, Type, Data, Goes
    <3>3. Stands(f, n)'
      BY <1>2, <3>1, <3>2, SMT DEF Stands
    <3> QED BY <2>1, <2>2, <3>3
  <2>4. CASE m = 2
    <3>1. /\ n = 3 /\ parser.state = "RSSI" /\ parser.checksum = 0 /\ parser.index = 0
          /\ pkg.checksum = f[2]
      BY <2>4, SMT DEF Stands
    <3>2. parser' = [parser EXCEPT !.state = "LEN"] /\ pkg' = pkg
      BY <3>1 DEF datalink_parse_char, Sync, Header, Type, Data, Goes
    <3>3. Stands(f, n)'
      BY <1>2, <3>1, <3>2, SMT DEF Stands
    <3> QED BY <2>1, <2>2, <3>3
  <2>5. CASE m = 3
    <3>1. /\ n = 4 /\ parser.state = "LEN" /\ parser.checksum = 0 /\ parser.index = 0
          /\ pkg.checksum = f[2]
      BY <2>5, SMT DEF Stands
    <3>2. parser' = [parser EXCEPT !.state = "TYPE"] /\ pkg' = [pkg EXCEPT !.len = ch]
      BY <3>1 DEF datalink_parse_char, Sync, Header, Type, Data, Goes
    <3>3. Stands(f, n)'
      BY <1>1, <1>2, <3>1, <3>2, SMT DEF Stands
    <3> QED BY <2>1, <2>2, <3>3
  <2>6. CASE m = 4
    <3>1. /\ n = 5 /\ parser.state = "TYPE" /\ parser.checksum = 0 /\ parser.index = 0
          /\ pkg.checksum = f[2] /\ pkg.len = Len(f) - 4
      BY <2>6, SMT DEF Stands
    <3>2. parser' = [parser EXCEPT !.state = "DATA", !.checksum = Summed(ch)] /\ pkg' = pkg
      BY <3>1 DEF datalink_parse_char, Sync, Header, Type, Data
    <3>3. Summed(ch) = Sums(f)[5]
      <4>1. n \in 5..Len(f) /\ n - 1 = 4
        BY <1>1, <3>1, SMT
      <4> QED BY <4>1, <1>1, <1>3, <3>1 DEF Summed
    <3>4. parser'.state = "DATA" /\ parser'.checksum = Sums(f)[5] /\ parser'.index = 0
      BY <1>2, <3>1, <3>2, <3>3
    <3>5. Stands(f, n)'
      BY <3>1, <3>2, <3>4, SMT DEF Stands
    <3> QED BY <2>1, <2>2, <3>5
  <2> QED BY <1>5, <2>3, <2>4, <2>5, <2>6, SMT
<1>6. CASE m >= 5
  <2>1. /\ parser.state = "DATA" /\ parser.checksum = Sums(f)[m] /\ parser.index = m - 5
        /\ pkg.checksum = f[2] /\ pkg.len = Len(f) - 4
    BY <1>6, SMT DEF Stands
  <2>2. Summed(ch) = Sums(f)[n]
    <3>1. n \in 5..Len(f) /\ n - 1 = m
      BY <1>1, <1>6, SMT
    <3> QED BY <3>1, <1>3, <2>1 DEF Summed
  <2>3. Ends <=> n = Len(f)
    BY <1>1, <1>6, <2>1, SMT DEF Ends
  <2>4. Complete(ch) <=> n = Len(f)
    BY <2>1, <2>2, <2>3, FrameFacts DEF Complete
  <2>5. ASSUME n # Len(f) PROVE Stands(f, n)'
    <3>1. /\ parser' = [parser EXCEPT !.checksum = Summed(ch), !.index = @ + 1]
          /\ pkg' = pkg
      BY <2>1, <2>3, <2>4, <2>5 DEF datalink_parse_char, Sync, Header, Type, Data
    <3>2. parser'.state = "DATA" /\ parser'.checksum = Sums(f)[n] /\ parser'.index = (m - 5) + 1
      BY <3>1, <1>2, <2>1, <2>2
    <3>3. (m - 5) + 1 = n - 5 /\ ~(n = 1) /\ ~(n = 2) /\ ~(n = 3) /\ ~(n = 4) /\ ~(n <= 4)
      BY <1>6, SMT
    <3> QED BY <3>1, <3>2, <3>3, <2>1 DEF Stands
  <2>6. ~Spills
    BY <1>1, <1>6, <2>1, SMT DEF Spills
  <2> QED BY <2>4, <2>5, <2>6
<1> QED BY <1>4, <1>5, <1>6

\* The same of a byte of the queue that follows in its frame.
LEMMA FollowingByte ==
    ASSUME IInv, NEW b \in Received, Follows(b), datalink_parse_char(b.ch)
    PROVE  /\ b.frame \in Frames /\ b.place \in 1..Len(b.frame)
           /\ ~IsLast(b) => Stands(b.frame, b.place)'
           /\ Len(b.frame) >= 6 => (Complete(b.ch) <=> IsLast(b))
           /\ ~Spills
<1>1. CASE reading = Nothing
  <2>1. parser.state = "SYNC" /\ b.place = 1
    BY <1>1 DEF Follows
  <2>2. 1 \in Nat /\ 1 > 0
    BY SMT
  <2>3. b.frame \in Frames /\ b.ch = b.frame[1]
    BY <2>1, <2>2 DEF Received
  <2>4. Stands(b.frame, 1)' /\ ~Complete(b.ch)
    BY <2>1, <2>3, FirstByte
  <2>5. 1 \in 1..Len(b.frame) /\ 1 # Len(b.frame)
    BY <2>3, FrameFacts, SMT
  <2> QED BY <2>1, <2>3, <2>4, <2>5 DEF IsLast, Spills
<1>2. CASE reading # Nothing
  <2>1. /\ reading.frame \in Frames /\ reading.out \in Nat /\ reading.out >= 1
        /\ reading.out < Len(reading.frame)
    BY <1>2 DEF IInv, Types, Partly, Progress
  <2>2. b.frame = reading.frame /\ b.place = reading.out + 1
    BY <1>2 DEF Follows
  <2>3. b.place \in Nat /\ b.place > 0 /\ b.place \in 1..Len(b.frame) /\ b.place <= Len(b.frame)
    BY <2>1, <2>2, FrameFacts, SMT
  <2>4. b.ch = b.frame[b.place]
    BY <2>3 DEF Received
  <2>5. PICK m \in Nat : m = reading.out
    BY <2>1
  <2>6. Stands(b.frame, m)
    BY <1>2, <2>2, <2>5 DEF IInv, InStep
  <2>7. /\ b.place # Len(b.frame) => Stands(b.frame, b.place)'
        /\ Len(b.frame) >= 6 => (Complete(b.ch) <=> b.place = Len(b.frame))
        /\ ~Spills
    BY <2>1, <2>2, <2>3, <2>4, <2>5, <2>6, NextByte
  <2> QED BY <2>1, <2>2, <2>3, <2>7 DEF IsLast
<1> QED BY <1>1, <1>2

-----------------------------------------------------------------------------
LEMMA ParseByteStep == IInv /\ ParseByte => IInv'
<1> SUFFICES ASSUME IInv, ParseByte PROVE IInv'
  OBVIOUS
<1>1. rx \in Seq(Received) /\ rx # <<>>
  BY DEF IInv, Types, ParseByte
<1>2. Head(rx) \in Received /\ Tail(rx) \in Seq(Received) /\ Len(Tail(rx)) = Len(rx) - 1
  BY <1>1, HeadTailProperties
<1>3. PICK b \in Received : b = Head(rx)
  BY <1>2
<1>4. /\ rx' = Tail(rx) /\ datalink_parse_char(b.ch) /\ Parsed(b)
      /\ mpc' \in {"loop", "parse", "spilled"} /\ (mpc' = "spilled" <=> Spills)
      /\ mpc = "parse" /\ UNCHANGED lineVars
  BY <1>3 DEF ParseByte
<1>5. /\ parser' \in [state : States, checksum : Bytes, index : Bytes]
      /\ pkg' \in [checksum : Bytes, len : Bytes]
      /\ parser'.state = "DATA" => parser'.index + 1 < pkg'.len \/ parser'.index = 0
      /\ parser'.state \notin {"SYNC", "DATA"} => parser'.index = 0
      /\ mpc' # "spilled" => parser'.index < PayloadSize
      /\ mpc' = "spilled" => pkg'.len > PayloadSize
  <2>1. b.ch \in Bytes
    BY DEF Received
  <2>2. parser.index < PayloadSize
    BY <1>4 DEF IInv, Types
  <2> QED BY <2>1, <2>2, <1>4, ParserTypes
<1>6. Len(rx') <= QueueSize
  <2>1. Len(rx) \in Nat /\ Len(rx) <= QueueSize
    BY <1>1, LenProperties DEF IInv, Types
  <2> QED BY <2>1, <1>2, <1>4, ConstantsAssumption, SMT
<1>7. reading' = IF Follows(b) /\ ~IsLast(b)
                 THEN [frame |-> b.frame, out |-> b.place, after |-> b.after] ELSE Nothing
  BY <1>4 DEF Parsed
<1>8. missed' \in Nat
  <2>1. missed' \in {0, missed + 1, missed} /\ missed \in Nat
    BY <1>4 DEF Parsed, IInv, Types
  <2> QED BY <2>1, SMT
<1>9. CASE Follows(b) /\ ~IsLast(b)
  <2>1. /\ b.frame \in Frames /\ b.place \in 1..Len(b.frame) /\ Stands(b.frame, b.place)'
    BY <1>4, <1>9, FollowingByte
  <2>2. b.place >= 1 /\ b.place < Len(b.frame) /\ b.place \in Nat
    BY <2>1, <1>9, FrameFacts, SMT DEF IsLast
  <2>3. reading'.frame = b.frame /\ reading'.out = b.place
        /\ reading' = [frame |-> b.frame, out |-> b.place, after |-> b.after]
    BY <1>7, <1>9
  <2>4. reading' \in Progress /\ Partly(reading, 1)'
    BY <2>1, <2>2, <2>3 DEF Partly, Progress, Received
  <2>5. InStep'
    BY <2>1, <2>3 DEF InStep
  <2> QED BY <1>2, <1>4, <1>5, <1>6, <1>8, <2>4, <2>5 DEF IInv, Types, Partly, lineVars
<1>10. CASE ~(Follows(b) /\ ~IsLast(b))
  <2>1. reading' = Nothing
    BY <1>7, <1>10
  <2> QED BY <2>1, <1>2, <1>4, <1>5, <1>6, <1>8, NothingFacts DEF IInv, Types, InStep, Partly, lineVars
<1> QED BY <1>9, <1>10

LEMMA OtherStep == IInv /\ (TakeEvent \/ Heartbeat \/ UNCHANGED vars) => IInv'
<1> SUFFICES ASSUME IInv, TakeEvent \/ Heartbeat \/ UNCHANGED vars PROVE IInv'
  OBVIOUS
<1> USE DEF TakeEvent, Heartbeat, vars, lineVars, parserVars
<1>1. Types'
  BY DEF IInv, Types, Partly
<1>2. InStep'
  BY DEF IInv, InStep, Stands
<1> QED BY <1>1, <1>2 DEF IInv

\* Every step of the code, and every stutter, preserves the invariant.
THEOREM Inductive == IInv /\ [Next]_vars => IInv'
BY SendFrameStep, UartStep, ParseByteStep, OtherStep DEF Next

\* So it holds in every reachable state.
THEOREM Invariance == Spec => []IInv
BY Initially, Inductive, PTL DEF Spec

-----------------------------------------------------------------------------
\* Every state has its type: the index of the parser never runs past the
\* length that was announced, and the queue never past its size.
THEOREM TypeCorrect == Spec => []TypeOK
<1>1. IInv => TypeOK
  <2> SUFFICES ASSUME IInv PROVE TypeOK
    OBVIOUS
  <2>1. \A i \in 1..Len(rx) : rx[i].ch \in Bytes
    <3>1. \A i \in 1..Len(rx) : rx[i] \in Received
      BY ElementOfSeq DEF IInv, Types
    <3> QED BY <3>1 DEF Received
  <2>2. sending = Nothing \/ (sending.frame \in Frames /\ sending.out \in 0..(Len(sending.frame) - 1))
    <3>1. sending.out \in Nat
      BY DEF IInv, Types, Progress
    <3> QED BY <3>1, FrameFacts, SMT DEF IInv, Types, Partly
  <2>3. reading = Nothing \/ (reading.frame \in Frames /\ reading.out \in 1..(Len(reading.frame) - 1))
    <3>1. reading.out \in Nat
      BY DEF IInv, Types, Progress
    <3> QED BY <3>1, FrameFacts, SMT DEF IInv, Types, Partly
  <2> QED BY <2>1, <2>2, <2>3 DEF IInv, Types, TypeOK, Bytes
<1> QED BY <1>1, Invariance, PTL

\* A byte is stored behind payload.data only after a length byte above
\* DATALINK_MAX_PAYLOAD_SIZE: the end of a frame is found in time in all others.
THEOREM SpillsAreTooLong == Spec => []SpillsOnlyTooLong
<1>1. IInv => SpillsOnlyTooLong
  BY DEF IInv, Types, SpillsOnlyTooLong
<1> QED BY <1>1, Invariance, PTL

\* A frame with data that comes through whole and finds the parser between
\* two frames is delivered with its last byte and not before.
THEOREM FrameDelivered == Spec => WholeFrameDelivered
<1>1. IInv /\ [Next]_vars =>
        [rx # <<>> /\ rx' = Tail(rx) /\ Follows(Head(rx)) /\ Len(Head(rx).frame) >= 6
           => (mpc' = "loop") = IsLast(Head(rx))]_vars
  <2> SUFFICES ASSUME IInv, Next, rx # <<>>, rx' = Tail(rx), Follows(Head(rx)),
                      Len(Head(rx).frame) >= 6
               PROVE  (mpc' = "loop") = IsLast(Head(rx))
    OBVIOUS
  <2>1. rx \in Seq(Received) /\ Len(rx) \in Nat /\ Head(rx) \in Received
    BY LenProperties, HeadTailProperties DEF IInv, Types
  <2>2. Len(rx') = Len(rx) - 1
    BY <2>1, HeadTailProperties
  <2>3. rx' # rx /\ \A b : rx' # Append(rx, b)
    <3>1. \A b : Len(Append(rx, b)) = Len(rx) + 1
      BY <2>1, SMT
    <3>2. Len(rx') # Len(rx) /\ Len(rx') # Len(rx) + 1
      <4>1. \A k \in Nat : k - 1 # k /\ k - 1 # k + 1
        BY SMT
      <4> QED BY <4>1, <2>1, <2>2
    <3>3. \A b : Len(rx') # Len(Append(rx, b))
      BY <3>1, <3>2
    <3> QED BY <3>2, <3>3
  <2>4. ParseByte
    BY <2>3 DEF Next, SendFrame, UART1_IRQHandler, Queued, TakeEvent, Heartbeat
  <2>5. /\ datalink_parse_char(Head(rx).ch)
        /\ mpc' = IF Spills THEN "spilled" ELSE IF Complete(Head(rx).ch) THEN "loop" ELSE "parse"
    BY <2>4 DEF ParseByte
  <2>6. (Complete(Head(rx).ch) <=> IsLast(Head(rx))) /\ ~Spills
    <3>1. PICK b \in Received : b = Head(rx)
      BY <2>1
    <3> QED BY <3>1, <2>5, FollowingByte
  <2> QED BY <2>5, <2>6 DEF IsLast
<1> QED BY <1>1, Invariance, PTL DEF Spec, WholeFrameDelivered

-----------------------------------------------------------------------------
(***************************************************************************)
(* How many frames a parser out of step can miss.                          *)
(***************************************************************************)
\* A start that was taken by mistake, with the longest payload that fits.
Longest == PayloadSize + 1

Fits == IF pkg.len > PayloadSize THEN PayloadSize ELSE pkg.len

\* The most bytes until the parser waits for a frame again or stores one
\* behind payload.data.
Left ==
    CASE parser.state = "SYNC"     -> 0
      [] parser.state = "CHECKSUM" -> Longest + 2
      [] parser.state = "RSSI"     -> Longest + 1
      [] parser.state = "LEN"      -> Longest
      [] parser.state = "TYPE"     -> IF Fits > 2 THEN Fits ELSE 2
      [] parser.state = "DATA"     -> IF parser.index + 1 >= PayloadSize THEN 0
                                      ELSE IF Fits > parser.index + 2
                                      THEN Fits - parser.index - 1 ELSE 1

\* The byte that the line brings next, if it comes through.
Coming == [place |-> IF whole THEN sending.out + 1 ELSE 0,
           frame |-> sending.frame,
           after |-> IF sending = Nothing THEN whole ELSE sending.after]

\* The next byte for the parser and, for i > 1, those behind it.
Upcoming(i) == IF i <= Len(rx) THEN rx[i] ELSE Coming

\* A byte with a place is that of its frame after the one of the byte before,
\* or the first after the last of a whole frame.
Precedes(b, n) ==
    /\ n.place > 1 => b.frame = n.frame /\ b.place = n.place - 1
    /\ n.place = 1 /\ n.after => b.place > 0 /\ IsLast(b)

Chained == \A i \in 1..Len(rx) : Precedes(rx[i], Upcoming(i + 1))

\* The frames missed so far and the bytes that the parser may still take for
\* the rest of a frame are together no more than such a rest can be.
BudgetAt(n) ==
    /\ n.place = 1 /\ n.after =>
           /\ reading = Nothing
           /\ parser.state = "SYNC" \/ 6 * missed + Left <= Longest + 2
    /\ n.place > 1 /\ IsPlain(n.frame) =>
           \/ reading # Nothing /\ reading.frame = n.frame /\ reading.out = n.place - 1
           \/ parser.state # "SYNC" /\ 6 * missed + (n.place - 1) + Left <= Longest + 2
           \/ parser.state = "SYNC" /\ 6 * missed <= Longest + 1
    /\ n.place > 1 /\ ~IsPlain(n.frame) => missed = 0

InBudget == Chained /\ 6 * missed <= Longest + 7 /\ BudgetAt(Upcoming(1))

SyncInv == mpc # "spilled" => InBudget

-----------------------------------------------------------------------------
LeftInRange ==
    Left \in Nat /\ Left <= Longest + 2 /\ (parser.state # "SYNC" /\ ~Spills => Left >= 1)

\* A frame the parser waits for is no longer than the longest there is.
LEMMA LeftRange == IInv => LeftInRange
<1> SUFFICES ASSUME IInv PROVE LeftInRange
  OBVIOUS
<1>1. /\ parser.state \in States /\ parser.index \in Nat
      /\ pkg.len \in Nat /\ PayloadSize \in Nat /\ PayloadSize >= 2
  BY ByteFacts DEF IInv, Types
<1>2. Fits \in Nat /\ Fits <= PayloadSize
  BY <1>1, SMT DEF Fits
<1> QED BY <1>1, <1>2, SMT DEF Left, LeftInRange, States, Longest, Spills

\* Each byte brings the parser nearer to the end of what it takes for a frame.
LEMMA LeftStep ==
    ASSUME IInv, NEW ch \in Bytes, datalink_parse_char(ch), parser.state # "SYNC", ~Spills
    PROVE  parser'.state = "SYNC" \/ Left' <= Left - 1
<1>1. /\ parser \in [state : States, checksum : Bytes, index : Bytes]
      /\ pkg \in [checksum : Bytes, len : Bytes]
      /\ parser.index \in Nat /\ pkg.len \in Nat /\ ch \in Nat
      /\ PayloadSize \in Nat /\ PayloadSize >= 2
  BY ByteFacts DEF IInv, Types
<1>2. CASE parser.state = "CHECKSUM"
  <2>1. parser'.state = "RSSI"
    BY <1>1, <1>2 DEF datalink_parse_char, Sync, Header, Type, Data, Goes
  <2> QED BY <1>1, <1>2, <2>1, SMT DEF Left, Fits, Longest, Spills
<1>3. CASE parser.state = "RSSI"
  <2>1. parser'.state = "LEN"
    BY <1>1, <1>3 DEF datalink_parse_char, Sync, Header, Type, Data, Goes
  <2> QED BY <1>1, <1>3, <2>1, SMT DEF Left, Fits, Longest, Spills
<1>4. CASE parser.state = "LEN"
  <2>1. parser'.state = "TYPE" /\ pkg'.len = ch
    BY <1>1, <1>4 DEF datalink_parse_char, Sync, Header, Type, Data, Goes
  <2> QED BY <1>1, <1>4, <2>1, SMT DEF Left, Fits, Longest, Spills
<1>5. CASE parser.state = "TYPE"
  <2>1. parser'.state = "DATA" /\ pkg' = pkg /\ parser'.index = 0
    BY <1>1, <1>5 DEF datalink_parse_char, Sync, Header, Type, Data, IInv, Types
  <2> QED BY <1>1, <1>5, <2>1, SMT DEF Left, Fits, Longest, Spills
<1>6. CASE parser.state = "DATA"
  <2>1. Data(ch)
    BY <1>6 DEF datalink_parse_char, Sync, Header, Type
  <2>2. CASE ~Ends
    <3>1. parser'.state = "DATA" /\ pkg' = pkg /\ parser'.index = parser.index + 1
      BY <1>1, <1>6, <2>1, <2>2 DEF Data, Complete
    <3> QED BY <1>1, <1>6, <2>2, <3>1, SMT DEF Left, Fits, Longest, Spills, Ends
  <2>3. CASE Ends
    BY <2>1, <2>3 DEF Data, Fail
  <2> QED BY <2>2, <2>3
<1> QED BY <1>1, <1>2, <1>3, <1>4, <1>5, <1>6 DEF States

\* Between two frames only the magic starts one.
LEMMA SyncStays ==
    ASSUME NEW ch, ch # Magic, datalink_parse_char(ch), parser.state = "SYNC"
    PROVE  parser'.state = "SYNC"
BY DEF datalink_parse_char, Sync, Header, Type, Data

-----------------------------------------------------------------------------
\* What a byte upcoming is known to be.
LEMMA UpcomingFacts ==
    ASSUME IInv, NEW i \in Nat, i > 0
    PROVE  /\ Upcoming(i).place \in Nat
           /\ Upcoming(i).place > 1 =>
                  Upcoming(i).frame \in Frames /\ Upcoming(i).place <= Len(Upcoming(i).frame)
<1>1. CASE i <= Len(rx)
  <2>1. Len(rx) \in Nat /\ i \in 1..Len(rx)
    BY <1>1, LenProperties, SMT DEF IInv, Types
  <2>2. Upcoming(i) \in Received
    BY <1>1, <2>1, ElementOfSeq DEF IInv, Types, Upcoming
  <2>3. \A k \in Nat : k > 1 => k > 0
    BY SMT
  <2> QED BY <2>2, <2>3 DEF Received
<1>2. CASE ~(i <= Len(rx))
  <2>1. Upcoming(i) = Coming
    BY <1>2 DEF Upcoming
  <2>2. sending.out \in Nat /\ (sending # Nothing => sending.frame \in Frames /\ sending.out < Len(sending.frame))
    BY DEF IInv, Types, Progress, Partly
  <2>3. CASE sending = Nothing
    <3>1. Coming.place \in {0, 1}
      BY <2>3, SMT DEF Coming, Nothing
    <3> QED BY <2>1, <3>1, SMT
  <2>4. CASE sending # Nothing
    <3>1. Coming.place = (IF whole THEN sending.out + 1 ELSE 0) /\ Coming.frame = sending.frame
      BY DEF Coming
    <3>2. Len(sending.frame) \in Nat
      BY <2>2, <2>4, FrameFacts
    <3> QED BY <2>1, <2>2, <2>4, <3>1, <3>2, SMT
  <2> QED BY <2>3, <2>4
<1> QED BY <1>1, <1>2

\* The sums of the next lemma: m frames are missed, and l bytes are left to
\* the parser before a byte and k after it.
LEMMA Sums6 ==
    ASSUME NEW m \in Nat, NEW l \in Nat, NEW k \in Nat, NEW M \in Nat
    PROVE  /\ 6 * 0 <= M + 7 /\ (k <= M + 2 => 6 * 0 + k <= M + 2)
           /\ 6 * m + l <= M + 2 /\ l >= 1 => 6 * m <= M + 1
           /\ 6 * m + l <= M + 2 /\ k <= l - 1 => 6 * m + 1 + k <= M + 2
           /\ \A p \in Nat : p >= 6 /\ 6 * m + (p - 1) + l <= M + 2 /\ k <= l - 1
                                => 6 * (m + 1) + k <= M + 2
BY SMT

\* The byte that takes the parser on takes its frame on.
LEMMA MissedStep ==
    ASSUME IInv, IInv', NEW b \in Received, Parsed(b), datalink_parse_char(b.ch), ~Spills,
           6 * missed <= Longest + 7, BudgetAt(b),
           NEW n, n.place \in Nat, Precedes(b, n),
           n.place > 1 => n.frame \in Frames /\ n.place <= Len(n.frame)
    PROVE  6 * missed' <= Longest + 7 /\ BudgetAt(n)'
<1> DEFINE sync  == parser.state = "SYNC"
           plain == IsPlain(b.frame) /\ b.place > 0
<1>t. /\ missed \in Nat /\ missed' \in Nat /\ b.place \in Nat /\ b.ch \in Bytes
      /\ Longest \in Nat
      /\ Left \in Nat /\ Left <= Longest + 2 /\ (~sync => Left >= 1)
      /\ Left' \in Nat /\ Left' <= Longest + 2
  <2>1. LeftInRange'
    BY LeftRange, PTL
  <2>2. Longest \in Nat
    BY ByteFacts, SMT DEF Longest
  <2> QED BY <2>1, <2>2, LeftRange, ByteFacts DEF LeftInRange, IInv, Types, Received
<1>p. plain => /\ b.frame \in Frames /\ Len(b.frame) \in Nat /\ Len(b.frame) >= 6
               /\ IsLast(b) => b.place >= 6
               /\ b.place > 1 => b.ch # Magic
  <2> SUFFICES ASSUME plain
               PROVE  /\ b.frame \in Frames /\ Len(b.frame) \in Nat /\ Len(b.frame) >= 6
                      /\ IsLast(b) => b.place >= 6
                      /\ b.place > 1 => b.ch # Magic
    OBVIOUS
  <2>1. b.frame \in Frames /\ b.place <= Len(b.frame) /\ b.ch = b.frame[b.place]
    BY DEF Received
  <2>2. Len(b.frame) \in Nat /\ Len(b.frame) >= 6
    BY <2>1, FrameFacts DEF IsPlain
  <2>3. b.place > 1 => b.place \in 2..Len(b.frame)
    BY <2>1, <2>2, <1>t, SMT
  <2> QED BY <2>1, <2>2, <2>3 DEF IsPlain, IsLast
<1>s. reading # Nothing => ~sync
  <2>1. reading # Nothing => reading.out \in Nat /\ reading.out >= 1
    BY DEF IInv, Types, Progress, Partly
  <2>2. \A k \in Nat : k >= 1 => k = 1 \/ k = 2 \/ k = 3 \/ k = 4 \/ k >= 5
    BY SMT
  <2> QED BY <2>1, <2>2 DEF IInv, InStep, Stands
<1>l. /\ ~sync => parser'.state = "SYNC" \/ Left' <= Left - 1
      /\ sync /\ b.ch # Magic => parser'.state = "SYNC"
  BY <1>t, LeftStep, SyncStays
<1>r. reading' = IF Follows(b) /\ ~IsLast(b)
                 THEN [frame |-> b.frame, out |-> b.place, after |-> b.after] ELSE Nothing
  BY DEF Parsed
\* Of the frames only a plain one can be missed, and only with its last byte.
<1>m. /\ ~plain => missed' = 0
      /\ plain /\ b.place = 1 /\ ~b.after => missed' = 0
      /\ plain /\ b.place = 1 /\ b.after => missed' = missed
      /\ plain /\ b.place > 1 /\ ~IsLast(b) => missed' = missed
      /\ plain /\ b.place > 1 /\ IsLast(b) =>
             missed' = IF Follows(b) /\ Complete(b.ch) THEN 0 ELSE missed + 1
  BY <1>t, SMT DEF Parsed
<1>d. Complete(b.ch) => parser'.state = "SYNC"
  BY DEF Complete, datalink_parse_char, Sync, Header, Type, Data
<1>f. plain /\ Follows(b) => (Complete(b.ch) <=> IsLast(b))
  BY <1>p, FollowingByte
\* The frame of b has been out of step from the byte before.
<1>o. ASSUME plain, b.place > 1, ~Follows(b)
      PROVE  \/ ~sync /\ 6 * missed + (b.place - 1) + Left <= Longest + 2
             \/ sync /\ 6 * missed <= Longest + 1
  <2>1. b.place - 1 = reading.out => b.place = reading.out + 1
    <3>1. reading.out \in Nat
      BY DEF IInv, Types, Progress
    <3> QED BY <3>1, <1>t, SMT
  <2> QED BY <2>1, <1>o DEF Follows, BudgetAt
<1> HIDE DEF sync, plain
<1>1. ASSUME plain, ~Follows(b), ~IsLast(b)
      PROVE  \/ parser'.state # "SYNC" /\ 6 * missed' + b.place + Left' <= Longest + 2
             \/ parser'.state = "SYNC" /\ 6 * missed' <= Longest + 1
  <2>1. CASE b.place > 1
    <3>1. missed' = missed /\ b.ch # Magic
      BY <1>1, <2>1, <1>m, <1>p
    <3>2. CASE sync
      <4>1. parser'.state = "SYNC" /\ 6 * missed <= Longest + 1
        BY <1>1, <2>1, <3>1, <3>2, <1>l, <1>o
      <4> QED BY <3>1, <4>1
    <3>3. CASE ~sync
      <4>1. /\ 6 * missed + (b.place - 1) + Left <= Longest + 2 /\ Left >= 1
            /\ parser'.state = "SYNC" \/ Left' <= Left - 1
        BY <1>1, <2>1, <3>3, <1>l, <1>o, <1>t
      <4>2. 6 * missed <= Longest + 1
        BY <2>1, <4>1, <1>t, SMT
      <4>3. Left' <= Left - 1 => 6 * missed + b.place + Left' <= Longest + 2
        BY <4>1, <1>t, SMT
      <4> QED BY <3>1, <4>1, <4>2, <4>3
    <3> QED BY <3>2, <3>3
  <2>2. CASE b.place = 1
    <3>1. ~sync /\ (parser'.state = "SYNC" \/ Left' <= Left - 1)
      BY <1>1, <1>s, <1>l, <2>2 DEF sync, Follows
    <3>2. 6 * missed' + Left <= Longest + 2
      <4>1. CASE b.after
        <5>1. 6 * missed + Left <= Longest + 2
          BY <2>2, <3>1, <4>1 DEF BudgetAt, sync
        <5> QED BY <1>1, <2>2, <4>1, <5>1, <1>m
      <4>2. CASE ~b.after
        <5>1. missed' = 0
          BY <1>1, <2>2, <4>2, <1>m
        <5> QED BY <5>1, <1>t, SMT
      <4> QED BY <4>1, <4>2
    <3>3. Left >= 1
      BY <3>1, <1>t
    <3>4. 6 * missed' <= Longest + 1
      BY <3>2, <3>3, <1>t, Sums6
    <3>5. Left' <= Left - 1 => 6 * missed' + b.place + Left' <= Longest + 2
      BY <2>2, <3>2, <1>t, Sums6
    <3> QED BY <3>1, <3>4, <3>5
  <2>3. b.place > 1 \/ b.place = 1
    BY <1>1, <1>t, SMT DEF plain
  <2> QED BY <2>1, <2>2, <2>3
<1>2. ASSUME plain, IsLast(b)
      PROVE  6 * missed' <= Longest + 7
             /\ (parser'.state = "SYNC" \/ 6 * missed' + Left' <= Longest + 2)
  <2>1. b.place > 1
    BY <1>2, <1>p, <1>t, SMT
  <2>2. CASE Follows(b)
    <3>1. missed' = 0 /\ parser'.state = "SYNC"
      BY <1>2, <2>1, <2>2, <1>m, <1>f, <1>d
    <3> QED BY <3>1, <1>t, SMT
  <2>3. CASE ~Follows(b)
    <3>1. missed' = missed + 1 /\ b.place >= 6 /\ b.ch # Magic
      BY <1>2, <2>1, <2>3, <1>m, <1>p
    <3>2. CASE sync
      <4>1. parser'.state = "SYNC" /\ 6 * missed <= Longest + 1
        BY <1>2, <2>1, <2>3, <3>1, <3>2, <1>l, <1>o
      <4>2. 6 * missed' <= Longest + 7
        BY <3>1, <4>1, <1>t, SMT
      <4> QED BY <4>1, <4>2
    <3>3. CASE ~sync
      <4>1. /\ 6 * missed + (b.place - 1) + Left <= Longest + 2 /\ Left >= 1
            /\ parser'.state = "SYNC" \/ Left' <= Left - 1
        BY <1>2, <2>1, <2>3, <3>3, <1>l, <1>o, <1>t
      <4>2. 6 * missed' <= Longest + 7
        BY <3>1, <4>1, <1>t, SMT
      <4>3. Left' <= Left - 1 => 6 * missed' + Left' <= Longest + 2
        BY <3>1, <4>1, <1>t, Sums6
      <4> QED BY <4>1, <4>2, <4>3
    <3> QED BY <3>2, <3>3
  <2> QED BY <2>2, <2>3
<1>3. 6 * missed' <= Longest + 7
  <2>1. CASE plain /\ IsLast(b)
    BY <2>1, <1>2
  <2>2. CASE ~(plain /\ IsLast(b))
    <3>1. missed' = 0 \/ missed' = missed
      <4>1. plain => b.place = 1 \/ b.place > 1
        BY <1>t, SMT DEF plain
      <4> QED BY <2>2, <4>1, <1>m
    <3>2. 6 * 0 <= Longest + 7
      BY <1>t, SMT
    <3> QED BY <3>1, <3>2
  <2> QED BY <2>1, <2>2
<1>4. ASSUME n.place = 1, n.after
      PROVE  reading' = Nothing /\ (parser'.state = "SYNC" \/ 6 * missed' + Left' <= Longest + 2)
  <2>1. b.place > 0 /\ IsLast(b) /\ reading' = Nothing
    BY <1>4, <1>r DEF Precedes
  <2>2. CASE plain
    BY <2>1, <2>2, <1>2
  <2>3. CASE ~plain
    <3>1. missed' = 0 /\ 6 * 0 + Left' <= Longest + 2
      BY <2>3, <1>m, <1>t, Sums6
    <3> QED BY <2>1, <3>1
  <2> QED BY <2>1, <2>2, <2>3
<1>5. ASSUME n.place > 1
      PROVE  b.frame = n.frame /\ b.place = n.place - 1 /\ b.place > 0 /\ ~IsLast(b)
  <2>1. b.frame = n.frame /\ b.place = n.place - 1
    BY <1>5 DEF Precedes
  <2>2. Len(n.frame) \in Nat /\ n.place <= Len(n.frame)
    BY <1>5, FrameFacts
  <2> QED BY <1>5, <2>1, <2>2, SMT DEF IsLast
<1>6. ASSUME n.place > 1, IsPlain(n.frame)
      PROVE  \/ reading' # Nothing /\ reading'.frame = n.frame /\ reading'.out = n.place - 1
             \/ parser'.state # "SYNC" /\ 6 * missed' + (n.place - 1) + Left' <= Longest + 2
             \/ parser'.state = "SYNC" /\ 6 * missed' <= Longest + 1
  <2>1. plain /\ ~IsLast(b) /\ b.frame = n.frame /\ b.place = n.place - 1
    BY <1>5, <1>6 DEF plain
  <2>2. CASE Follows(b)
    <3>1. reading' = [frame |-> b.frame, out |-> b.place, after |-> b.after]
      BY <2>1, <2>2, <1>r
    <3>2. b.frame # <<>>
      BY <2>1, <1>p, FrameFacts
    <3> QED BY <2>1, <3>1, <3>2, NothingFacts
  <2>3. CASE ~Follows(b)
    BY <2>1, <2>3, <1>1
  <2> QED BY <2>2, <2>3
<1>7. ASSUME n.place > 1, ~IsPlain(n.frame) PROVE missed' = 0
  BY <1>5, <1>7, <1>m DEF plain
<1>8. BudgetAt(n)'
  BY <1>4, <1>6, <1>7 DEF BudgetAt
<1> QED BY <1>3, <1>8

\* ParseByte takes the first byte, and the next one comes up.
LEMMA ParseSync == ASSUME IInv, IInv', InBudget, ParseByte, mpc' # "spilled" PROVE InBudget'
<1>1. /\ rx \in Seq(Received) /\ rx # <<>> /\ rx' = Tail(rx) /\ Coming' = Coming
      /\ datalink_parse_char(Head(rx).ch) /\ Parsed(Head(rx)) /\ ~Spills
  BY DEF IInv, Types, ParseByte, lineVars, Coming
<1>2. Len(rx) \in Nat /\ Len(rx) >= 1 /\ Len(rx') = Len(rx) - 1 /\ Head(rx) \in Received
      /\ Head(rx) = rx[1]
  BY <1>1, SMT
<1>3. ASSUME NEW i \in Nat, i >= 1 PROVE Upcoming(i)' = Upcoming(i + 1)
  <2>1. CASE i <= Len(rx')
    <3>1. rx'[i] = rx[i + 1] /\ i + 1 <= Len(rx)
      BY <1>1, <1>2, <1>3, <2>1, SMT
    <3> QED BY <3>1, <2>1 DEF Upcoming
  <2>2. CASE ~(i <= Len(rx'))
    <3>1. ~(i + 1 <= Len(rx))
      BY <1>2, <1>3, <2>2, SMT
    <3> QED BY <3>1, <2>2, <1>1 DEF Upcoming
  <2> QED BY <2>1, <2>2
<1>4. Chained'
  <2> SUFFICES ASSUME NEW i \in 1..Len(rx') PROVE Precedes(rx'[i], Upcoming(i + 1)')
    BY DEF Chained, Precedes, IsLast
  <2>1. /\ i \in Nat /\ i >= 1 /\ i + 1 \in Nat /\ i + 1 >= 1 /\ i <= Len(rx')
        /\ i + 1 \in 1..Len(rx)
    BY <1>2, SMT
  <2>2. rx'[i] = rx[i + 1]
    BY <1>1, <1>2, SMT
  <2>3. Precedes(rx[i + 1], Upcoming(i + 1 + 1))
    BY <2>1 DEF InBudget, Chained
  <2> QED BY <2>1, <2>2, <2>3, <1>3
<1>5. PICK b \in Received : b = rx[1] /\ b = Head(rx)
  BY <1>2
<1>6. PICK n : n = Upcoming(1)' /\ n = Upcoming(2)
  <2>1. 1 \in Nat /\ 1 >= 1 /\ 1 + 1 = 2
    BY SMT
  <2> QED BY <1>3, <2>1
<1>7. Precedes(b, n) /\ BudgetAt(b)
  <2>1. 1 \in 1..Len(rx) /\ 1 + 1 = 2 /\ 1 <= Len(rx)
    BY <1>2, SMT
  <2>2. Upcoming(1) = b
    BY <2>1, <1>5 DEF Upcoming
  <2>3. Precedes(rx[1], Upcoming(1 + 1))
    BY <2>1 DEF InBudget, Chained
  <2> QED BY <2>1, <2>2, <2>3, <1>5, <1>6 DEF InBudget
<1>8. /\ n.place \in Nat
      /\ n.place > 1 => n.frame \in Frames /\ n.place <= Len(n.frame)
  <2>1. 2 \in Nat /\ 2 > 0
    BY SMT
  <2> QED BY <2>1, <1>6, UpcomingFacts
<1>9. 6 * missed' <= Longest + 7 /\ BudgetAt(n)'
  BY <1>1, <1>5, <1>7, <1>8, MissedStep DEF InBudget
<1>10. BudgetAt(Upcoming(1))'
  BY <1>6, <1>9 DEF BudgetAt
<1> QED BY <1>4, <1>9, <1>10 DEF InBudget

-----------------------------------------------------------------------------
\* No more is known of byte m than of byte n.
KnownLess(m, n) ==
    /\ m.place > 1 => n.place = m.place /\ n.frame = m.frame
    /\ m.place = 1 /\ m.after => n.place = 1 /\ n.after

\* What the invariant says of byte n it says of byte m.
LEMMA LessPrecedes ==
    ASSUME NEW b, NEW m, NEW n, KnownLess(m, n), Precedes(b, n)
    PROVE  Precedes(b, m)
BY DEF KnownLess, Precedes

LEMMA LessBudget ==
    ASSUME NEW m, NEW n, KnownLess(m, n), BudgetAt(n), UNCHANGED <<parser, pkg, reading, missed>>
    PROVE  BudgetAt(m)'
<1>1. Left' = Left
  BY DEF Left
<1> QED BY <1>1 DEF KnownLess, BudgetAt

\* A step that puts nothing into the queue.
LEMMA SameQueue ==
    ASSUME IInv, InBudget, UNCHANGED <<rx, parser, pkg, reading, missed>>,
           KnownLess(Coming', Coming)
    PROVE  InBudget'
<1>1. Len(rx) \in Nat
  BY LenProperties DEF IInv, Types
<1>2. ASSUME NEW i \in Nat PROVE KnownLess(Upcoming(i)', Upcoming(i))
  <2>1. CASE i <= Len(rx)
    <3>1. Upcoming(i)' = Upcoming(i)
      BY <2>1 DEF Upcoming
    <3> QED BY <3>1 DEF KnownLess
  <2>2. CASE ~(i <= Len(rx))
    BY <2>2 DEF Upcoming
  <2> QED BY <2>1, <2>2
<1>3. Chained'
  <2> SUFFICES ASSUME NEW i \in 1..Len(rx) PROVE Precedes(rx[i], Upcoming(i + 1)')
    BY DEF Chained, Precedes, IsLast
  <2>1. i + 1 \in Nat
    BY SMT
  <2>2. Precedes(rx[i], Upcoming(i + 1))
    BY DEF InBudget, Chained
  <2> QED BY <2>1, <2>2, <1>2, LessPrecedes
<1>4. PICK m : m = Upcoming(1)'
  OBVIOUS
<1>5. BudgetAt(m)'
  <2>1. KnownLess(m, Upcoming(1))
    BY <1>2, <1>4, SMT
  <2>2. PICK n : n = Upcoming(1)
    OBVIOUS
  <2> QED BY <2>1, <2>2, LessBudget DEF InBudget
<1>6. BudgetAt(Upcoming(1))'
  BY <1>4, <1>5 DEF BudgetAt
<1> QED BY <1>3, <1>6 DEF InBudget

\* A step that puts one byte into the queue.
LEMMA ByteQueued ==
    ASSUME IInv, InBudget, NEW b \in Received, rx' = Append(rx, b),
           UNCHANGED <<parser, pkg, reading, missed>>,
           KnownLess(b, Coming), Precedes(b, Coming')
    PROVE  InBudget'
<1>1. /\ rx \in Seq(Received) /\ Len(rx) \in Nat /\ Len(rx') = Len(rx) + 1
      /\ \A i \in 1..Len(rx) : rx'[i] = rx[i]
      /\ rx'[Len(rx) + 1] = b
  BY AppendProperties, LenProperties DEF IInv, Types
<1>2. ASSUME NEW i \in Nat, i >= 1, i <= Len(rx) + 1 PROVE KnownLess(Upcoming(i)', Upcoming(i))
  <2>1. CASE i <= Len(rx)
    <3>1. i \in 1..Len(rx) /\ i <= Len(rx')
      BY <1>1, <1>2, <2>1, SMT
    <3>2. Upcoming(i)' = Upcoming(i)
      BY <3>1, <2>1, <1>1 DEF Upcoming
    <3> QED BY <3>2 DEF KnownLess
  <2>2. CASE ~(i <= Len(rx))
    <3>1. i = Len(rx) + 1 /\ i <= Len(rx')
      BY <1>1, <1>2, <2>2, SMT
    <3>2. Upcoming(i)' = b /\ Upcoming(i) = Coming
      BY <3>1, <2>2, <1>1 DEF Upcoming
    <3> QED BY <3>2
  <2> QED BY <2>1, <2>2
<1>3. Chained'
  <2> SUFFICES ASSUME NEW i \in 1..Len(rx') PROVE Precedes(rx'[i], Upcoming(i + 1)')
    BY DEF Chained, Precedes, IsLast
  <2>1. CASE i \in 1..Len(rx)
    <3>1. i + 1 \in Nat /\ i + 1 >= 1 /\ i + 1 <= Len(rx) + 1
      BY <1>1, <2>1, SMT
    <3>2. Precedes(rx[i], Upcoming(i + 1))
      BY <2>1 DEF InBudget, Chained
    <3> QED BY <3>1, <3>2, <2>1, <1>1, <1>2, LessPrecedes
  <2>2. CASE i \notin 1..Len(rx)
    <3>1. i = Len(rx) + 1 /\ ~(i + 1 <= Len(rx'))
      BY <1>1, <2>2, SMT
    <3> QED BY <3>1, <1>1 DEF Upcoming
  <2> QED BY <2>1, <2>2
<1>4. PICK m : m = Upcoming(1)'
  OBVIOUS
<1>5. BudgetAt(m)'
  <2>1. 1 \in Nat /\ 1 >= 1 /\ 1 <= Len(rx) + 1
    BY <1>1, SMT
  <2>2. KnownLess(m, Upcoming(1))
    BY <2>1, <1>2, <1>4
  <2>3. PICK n : n = Upcoming(1)
    OBVIOUS
  <2> QED BY <2>2, <2>3, LessBudget DEF InBudget
<1>6. BudgetAt(Upcoming(1))'
  BY <1>4, <1>5 DEF BudgetAt
<1> QED BY <1>3, <1>6 DEF InBudget

\* The first byte of a frame was upcoming before the frame was chosen.
LEMMA SendFrameSync == ASSUME NEW f \in Frames, IInv, InBudget, SendFrame(f) PROVE InBudget'
<1>1. /\ sending = Nothing /\ sending' = [frame |-> f, out |-> 0, after |-> whole]
      /\ whole' = TRUE /\ whole \in BOOLEAN
      /\ UNCHANGED <<rx, parser, pkg, reading, missed>>
  BY DEF SendFrame, parserVars, IInv, Types
<1>2. sending' # Nothing
  <2>1. f # <<>>
    BY FrameFacts
  <2> QED BY <2>1, <1>1, NothingFacts
<1>3. /\ Coming' = [place |-> 1, frame |-> f, after |-> whole]
      /\ Coming = [place |-> IF whole THEN 1 ELSE 0, frame |-> <<>>, after |-> whole]
  <2>1. sending'.out + 1 = 1 /\ sending.out + 1 = 1 /\ sending.frame = <<>>
    BY <1>1, SMT DEF Nothing
  <2> QED BY <1>1, <1>2, <2>1 DEF Coming
<1>4. KnownLess(Coming', Coming)
  BY <1>3, SMT DEF KnownLess
<1> QED BY <1>1, <1>4, SameQueue

\* A byte comes, changed or not, or is lost, on the line or at a full queue.
LEMMA UartSync ==
    ASSUME NEW ch \in Bytes, NEW lost \in BOOLEAN, IInv, IInv', InBudget,
           UART1_IRQHandler(ch, lost)
    PROVE  InBudget'
<1> DEFINE f == sending.frame
           n == sending.out + 1
           good == whole /\ ~lost /\ ch = f[n]
           b == IF good THEN [ch |-> ch, frame |-> f, place |-> n, after |-> sending.after]
                ELSE [ch |-> ch, frame |-> <<>>, place |-> 0, after |-> FALSE]
<1>1. /\ sending # Nothing
      /\ rx' = IF lost THEN rx ELSE Queued(b)
      /\ whole' = (good /\ Len(rx) < QueueSize)
      /\ sending' = IF n = Len(f) THEN Nothing ELSE [sending EXCEPT !.out = n]
      /\ UNCHANGED <<parser, pkg, reading, missed>>
  BY DEF UART1_IRQHandler, parserVars
<1>2. f \in Frames /\ Len(f) \in Nat /\ n \in 1..Len(f) /\ sending.out \in Nat /\ n \in Nat
      /\ sending \in Progress
  <2>1. f \in Frames /\ sending.out \in Nat /\ sending.out < Len(f) /\ sending \in Progress
    BY <1>1 DEF IInv, Types, Partly, Progress
  <2> QED BY <2>1, FrameFacts, SMT
<1>3. Coming = [place |-> IF whole THEN n ELSE 0, frame |-> f, after |-> sending.after]
  BY <1>1 DEF Coming
<1>4. CASE ~whole'
  <2>1. Coming'.place = 0
    BY <1>4 DEF Coming
  <2>2. KnownLess(Coming', Coming)
    BY <2>1, SMT DEF KnownLess
  <2>3. CASE rx' = rx
    BY <1>1, <2>2, <2>3, SameQueue
  <2>4. CASE rx' = Append(rx, b) /\ Len(rx) < QueueSize
    <3>1. ~good /\ b = [ch |-> ch, frame |-> <<>>, place |-> 0, after |-> FALSE]
      BY <1>1, <1>4, <2>4
    <3>r. [ch |-> ch, frame |-> <<>>, place |-> 0, after |-> FALSE] \in Received
      BY SMT DEF Received
    <3>2. PICK c \in Received : c = b
      BY <3>1, <3>r
    <3>3. c.place = 0 /\ rx' = Append(rx, c)
      BY <2>4, <3>1, <3>2
    <3>4. KnownLess(c, Coming) /\ Precedes(c, Coming')
      BY <2>1, <3>3, SMT DEF KnownLess, Precedes
    <3> HIDE DEF b, good
    <3> QED BY <1>1, <3>2, <3>3, <3>4, ByteQueued
  <2> QED BY <1>1, <2>3, <2>4 DEF Queued
<1>5. CASE whole'
  <2>1. /\ good /\ rx' = Append(rx, b)
        /\ b = [ch |-> ch, frame |-> f, place |-> n, after |-> sending.after]
    BY <1>1, <1>5 DEF Queued
  <2>2. b \in Received
    BY <2>1, <1>2, SMT DEF Progress, Received
  <2>3. PICK c \in Received : c = b
    BY <2>2
  <2>4. c.place = n /\ c.frame = f /\ c.after = sending.after /\ rx' = Append(rx, c)
    BY <2>1, <2>3
  <2>5. KnownLess(c, Coming)
    <3>1. Coming.place = n /\ Coming.frame = f /\ Coming.after = sending.after
      BY <1>3, <2>1
    <3> QED BY <2>4, <3>1 DEF KnownLess
  <2>6. Precedes(c, Coming')
    <3>1. CASE n = Len(f)
      <4>1. sending' = Nothing
        BY <3>1, <1>1
      <4>2. Coming'.place = 1
        BY <4>1, <1>5, SMT DEF Coming, Nothing
      <4>3. c.place > 0 /\ IsLast(c)
        BY <3>1, <2>4, <1>2, SMT DEF IsLast
      <4> QED BY <4>2, <4>3, SMT DEF Precedes
    <3>2. CASE n # Len(f)
      <4>1. sending' = [sending EXCEPT !.out = n]
        BY <3>2, <1>1
      <4>2. sending'.out = n /\ sending'.frame = f
        BY <4>1, <1>2 DEF Progress
      <4>3. Coming'.place = n + 1 /\ Coming'.frame = f
        BY <4>2, <1>5 DEF Coming
      <4>4. (n + 1) - 1 = n /\ n + 1 # 1
        BY <1>2, SMT
      <4> QED BY <4>3, <4>4, <2>4 DEF Precedes
    <3> QED BY <3>1, <3>2
  <2> HIDE DEF b, good
  <2> QED BY <1>1, <2>4, <2>5, <2>6, ByteQueued
<1> QED BY <1>4, <1>5

\* The first byte of the first frame finds the parser waiting.
LEMMA InitSync == Init => InBudget
<1> SUFFICES ASSUME Init PROVE InBudget
  OBVIOUS
<1>1. Len(rx) = 0
  BY EmptySeq DEF Init
<1>2. Upcoming(1) = [place |-> 1, frame |-> <<>>, after |-> TRUE]
  <2>1. Coming = [place |-> 1, frame |-> <<>>, after |-> TRUE]
    BY SMT DEF Init, Coming, Nothing
  <2> QED BY <1>1, <2>1, SMT DEF Upcoming
<1>3. Chained
  BY <1>1, SMT DEF Chained
<1>4. BudgetAt(Upcoming(1))
  BY <1>2, SMT DEF BudgetAt, Init
<1>5. 6 * missed <= Longest + 7
  BY ByteFacts, SMT DEF Init, Longest
<1> QED BY <1>3, <1>4, <1>5 DEF InBudget

\* Every step of the code, and every stutter, preserves both invariants.
LEMMA SyncInductive == IInv /\ IInv' /\ SyncInv /\ [Next]_vars => SyncInv'
<1> SUFFICES ASSUME IInv, IInv', SyncInv, [Next]_vars, mpc' # "spilled" PROVE InBudget'
  BY DEF SyncInv
<1>1. InBudget
  <2>1. mpc # "spilled"
    BY DEF Next, vars, SendFrame, UART1_IRQHandler, TakeEvent, ParseByte, Heartbeat
  <2> QED BY <2>1 DEF SyncInv
<1>2. CASE TakeEvent \/ Heartbeat \/ UNCHANGED vars
  <2>1. UNCHANGED <<rx, parser, pkg, reading, missed, sending, whole>>
    BY <1>2 DEF TakeEvent, Heartbeat, vars, lineVars, parserVars
  <2>2. KnownLess(Coming', Coming)
    BY <2>1 DEF Coming, KnownLess
  <2> QED BY <1>1, <2>1, <2>2, SameQueue
<1> QED BY <1>1, <1>2, SendFrameSync, UartSync, ParseSync DEF Next

\* A parser that lost its place, or whose queue was full, misses no more than
\* (PayloadSize + 8) \div 6 plain frames in a row that come through whole,
\* as long as it stores no byte behind payload.data.
THEOREM MissedBounded == Spec => []SyncRegained
<1>0. Init => SyncInv
  BY InitSync DEF SyncInv
<1>1. Spec => []SyncInv
  BY Invariance, <1>0, SyncInductive, PTL DEF Spec
<1>2. IInv /\ SyncInv => SyncRegained
  <2> SUFFICES ASSUME IInv, SyncInv, mpc # "spilled"
               PROVE  missed <= (PayloadSize + 3 + 5) \div 6
    BY DEF SyncRegained
  <2>1. 6 * missed <= PayloadSize + 1 + 7 /\ missed \in Nat /\ PayloadSize \in Nat
    BY ByteFacts DEF IInv, Types, SyncInv, InBudget, Longest
  <2> QED BY <2>1, SMT
<1> QED BY <1>1, <1>2, Invariance, PTL
=============================================================================
