------------------------------ MODULE Datalink ------------------------------
(***************************************************************************)
(* Telemetry from the flight controller to the receiver, byte by byte: the *)
(* line, the receive queue of drv_usart.c that the UART interrupt fills,   *)
(* and the parser of datalink.c that the RF task feeds until it has one    *)
(* frame (Receiver/drivers/drv_radio.c).  Module Receiver has the same     *)
(* telemetry as whole frames.                                              *)
(*                                                                         *)
(* A frame is magic, checksum, rssi, len and len bytes of payload, type    *)
(* first.  The line may lose and change bytes.  A byte carries its frame   *)
(* and its place in it: history, which no action looks at.  A byte that    *)
(* was changed, and what follows a lost or changed one in its frame, has   *)
(* place 0.  The payload is not kept, only its checksum and how much of    *)
(* payload.data is full: datalink.c:62 stores a byte without a look at the *)
(* room, and with a length above DATALINK_MAX_PAYLOAD_SIZE it writes past  *)
(* the end, into whatever the linker has put behind rx_data.  From there   *)
(* on anything may happen: the RF task takes no further step ("spilled"),  *)
(* and nothing is claimed of what would follow.                            *)
(***************************************************************************)
EXTENDS Integers, Sequences

CONSTANTS
    Modulus,    \* a byte is below 256
    Magic,      \* DATALINK_MAGIC
    PayloadSize,    \* DATALINK_MAX_PAYLOAD_SIZE: the type and the data
    Frames,     \* the frames the flight controller sends
    QueueSize   \* of uart_rx_ringbuf: 256

Bytes == 0..(Modulus - 1)

\* The sums of the first bytes of a payload, from none to all of it.
IsSums(s, f) ==
    /\ s \in [4..Len(f) -> Bytes]
    /\ s[4] = 0
    /\ \A i \in 5..Len(f) : s[i] = (s[i - 1] + f[i]) % Modulus

\* A frame as datalink.h lays it out, with the checksum of its payload.
IsFrame(f) ==
    /\ f \in Seq(Bytes) /\ Len(f) >= 5
    /\ f[1] = Magic /\ f[4] = Len(f) - 4 /\ f[4] <= PayloadSize
    /\ \E s \in [4..Len(f) -> Bytes] : IsSums(s, f) /\ s[Len(f)] = f[2]

ASSUME ConstantsAssumption ==
    /\ Modulus \in Nat /\ Modulus > 2 /\ Magic \in Bytes /\ QueueSize \in Nat \ {0}
    /\ PayloadSize \in Nat \ {0, 1}
    /\ \A f \in Frames : IsFrame(f)

VARIABLES
    sending,    \* the frame on the line, how many of its bytes are out, and
                \* history: whether the frame before it came through whole
    whole,      \* history: none of its bytes was lost or changed so far
    rx,         \* uart_rx_ringbuf
    parser,     \* parser.state, checksum and index
    pkg,        \* rx_data.checksum and len
    mpc,        \* where the RF task stands
    reading,    \* history: the frame being parsed, and how many of its bytes were
    missed      \* history: whole plain frames in a row that were not delivered

lineVars   == <<sending, whole>>
parserVars == <<parser, pkg>>
vars       == <<lineVars, rx, parserVars, mpc, reading, missed>>

-----------------------------------------------------------------------------
Nothing == [frame |-> <<>>, out |-> 0, after |-> TRUE]

Init ==
    /\ sending = Nothing /\ whole = TRUE
    /\ rx = <<>>
    /\ parser = [state |-> "SYNC", checksum |-> 0, index |-> 0]
    /\ pkg = [checksum |-> 0, len |-> 0]
    /\ mpc = "loop"
    /\ reading = Nothing /\ missed = 0

-----------------------------------------------------------------------------
(***************************************************************************)
(* The flight controller and the line; UART1_IRQHandler.                   *)
(***************************************************************************)
SendFrame(f) ==
    /\ sending = Nothing
    /\ sending' = [frame |-> f, out |-> 0, after |-> whole]
    /\ whole' = TRUE
    /\ UNCHANGED <<rx, parserVars, mpc, reading, missed>>

\* rt_ringbuffer_putchar: a byte that does not fit is dropped.
Queued(b) == IF Len(rx) < QueueSize THEN Append(rx, b) ELSE rx

\* The next byte of the frame comes as ch, or is lost on the line.
UART1_IRQHandler(ch, lost) ==
    LET f    == sending.frame
        n    == sending.out + 1
        good == whole /\ ~lost /\ ch = f[n]
        b    == IF good THEN [ch |-> ch, frame |-> f, place |-> n, after |-> sending.after]
                ELSE [ch |-> ch, frame |-> <<>>, place |-> 0, after |-> FALSE]
    IN  /\ sending # Nothing
        /\ rx' = IF lost THEN rx ELSE Queued(b)
        /\ whole' = (good /\ Len(rx) < QueueSize)
        /\ sending' = IF n = Len(f) THEN Nothing ELSE [sending EXCEPT !.out = n]
        /\ UNCHANGED <<parserVars, mpc, reading, missed>>

-----------------------------------------------------------------------------
(***************************************************************************)
(* datalink_parse_char.                                                    *)
(***************************************************************************)
\* Mutant: the sum of a frame that failed is kept.
StartKeepsSum == [state |-> "CHECKSUM", checksum |-> parser.checksum, index |-> 0]

Start == [state |-> "CHECKSUM", checksum |-> 0, index |-> 0]

Sync(ch) ==
    /\ parser.state = "SYNC"
    /\ parser' = IF ch = Magic THEN Start ELSE parser
    /\ UNCHANGED pkg

Goes(s) == parser' = [parser EXCEPT !.state = s]

Header(ch) ==
    \/ parser.state = "CHECKSUM" /\ Goes("RSSI") /\ pkg' = [pkg EXCEPT !.checksum = ch]
    \/ parser.state = "RSSI" /\ Goes("LEN") /\ UNCHANGED pkg
    \/ parser.state = "LEN" /\ Goes("TYPE") /\ pkg' = [pkg EXCEPT !.len = ch]

Summed(ch) == (parser.checksum + ch) % Modulus

Type(ch) ==
    /\ parser.state = "TYPE"
    /\ parser' = [parser EXCEPT !.state = "DATA", !.checksum = Summed(ch)]
    /\ UNCHANGED pkg

\* Mutant: a frame ends at its exact length only.
EndsExact == parser.index + 2 = pkg.len

\* Mutant: the byte that was just counted is forgotten.
EndsLate == parser.index + 1 >= pkg.len

\* parser.index + 1 >= pkg->len, after the byte has been counted.
Ends == parser.index + 2 >= pkg.len

\* Mutant: a frame with a bad checksum is not left.
FailStays(ch) == [state |-> "DATA", checksum |-> Summed(ch), index |-> 0]

\* The next data byte is stored behind the end of payload.data.
Spills == parser.state = "DATA" /\ parser.index >= PayloadSize - 1

Fail(ch) == [state |-> "SYNC", checksum |-> Summed(ch), index |-> parser.index + 1]

\* The last byte of a frame with the right checksum: 1 is returned.
Complete(ch) == parser.state = "DATA" /\ Ends /\ Summed(ch) = pkg.checksum

Data(ch) ==
    /\ parser.state = "DATA"
    /\ \/ /\ ~Ends
          /\ parser' = [parser EXCEPT !.checksum = Summed(ch), !.index = @ + 1]
       \/ /\ Ends /\ ~Complete(ch)
          /\ parser' = Fail(ch)
       \/ /\ Complete(ch)
          /\ parser' = [state |-> "SYNC", checksum |-> 0, index |-> parser.index + 1]
    /\ UNCHANGED pkg

datalink_parse_char(ch) == Sync(ch) \/ Header(ch) \/ Type(ch) \/ Data(ch)

-----------------------------------------------------------------------------
(***************************************************************************)
(* History.                                                                *)
(***************************************************************************)
\* The byte is the first of a frame and the parser waits for one, or it is
\* the next one of the frame that is being parsed.
Follows(b) ==
    \/ reading = Nothing /\ parser.state = "SYNC" /\ b.place = 1
    \/ reading # Nothing /\ b.frame = reading.frame /\ b.place = reading.out + 1

IsLast(b) == b.place = Len(b.frame)

\* A frame whose first byte alone is DATALINK_MAGIC, with data.
IsPlain(f) == Len(f) >= 6 /\ \A i \in 2..Len(f) : f[i] # Magic

Parsed(b) ==
    /\ reading' = IF Follows(b) /\ ~IsLast(b)
                  THEN [frame |-> b.frame, out |-> b.place, after |-> b.after] ELSE Nothing
    /\ missed' = CASE b.place = 0 \/ ~IsPlain(b.frame)     -> 0
                   [] b.place = 1 /\ IsPlain(b.frame) /\ ~b.after -> 0
                   [] b.place > 1 /\ IsPlain(b.frame) /\ IsLast(b) ->
                          IF Follows(b) /\ Complete(b.ch) THEN 0 ELSE missed + 1
                   [] OTHER -> missed

-----------------------------------------------------------------------------
(***************************************************************************)
(* RF_ProcessEvent, SBP_RF_RF_RX_EVT: bytes are read and parsed until a    *)
(* frame is complete; without one a heartbeat is sent.                     *)
(***************************************************************************)
TakeEvent ==
    /\ mpc = "loop"
    /\ mpc' = "parse"
    /\ UNCHANGED <<lineVars, rx, parserVars, reading, missed>>

ParseByte ==
    /\ mpc = "parse" /\ rx # <<>>
    /\ rx' = Tail(rx)
    /\ datalink_parse_char(Head(rx).ch)
    /\ mpc' = IF Spills THEN "spilled" ELSE IF Complete(Head(rx).ch) THEN "loop" ELSE "parse"
    /\ Parsed(Head(rx))
    /\ UNCHANGED lineVars

Heartbeat ==
    /\ mpc = "parse" /\ rx = <<>>
    /\ mpc' = "loop"
    /\ UNCHANGED <<lineVars, rx, parserVars, reading, missed>>

Next ==
    \/ \E f \in Frames : SendFrame(f)
    \/ \E ch \in Bytes, lost \in BOOLEAN : UART1_IRQHandler(ch, lost)
    \/ TakeEvent
    \/ ParseByte
    \/ Heartbeat

Spec == Init /\ [][Next]_vars

-----------------------------------------------------------------------------
States == {"SYNC", "CHECKSUM", "RSSI", "LEN", "TYPE", "DATA"}

\* The index never runs past the length that was announced, nor, before a
\* byte was stored behind it, past the end of payload.data.
TypeOK ==
    /\ \/ sending = Nothing
       \/ sending.frame \in Frames /\ sending.out \in 0..(Len(sending.frame) - 1)
    /\ whole \in BOOLEAN
    /\ \A i \in 1..Len(rx) : rx[i].ch \in Bytes
    /\ Len(rx) <= QueueSize
    /\ parser \in [state : States, checksum : Bytes, index : 0..(Modulus - 1)]
    /\ parser.state = "DATA" => (parser.index + 1 < pkg.len \/ parser.index = 0)
    /\ mpc # "spilled" => parser.index < PayloadSize
    /\ pkg \in [checksum : Bytes, len : Bytes]
    /\ mpc \in {"loop", "parse", "spilled"}
    /\ \/ reading = Nothing
       \/ reading.frame \in Frames /\ reading.out \in 1..(Len(reading.frame) - 1)
    /\ missed \in Nat

\* A frame with data that comes through whole and finds the parser between
\* two frames is delivered with its last byte and not before, whatever bytes
\* it has, DATALINK_MAGIC among them.  (Not so a frame of the type alone: the
\* parser takes one byte more, the magic of the next frame.)
WholeFrameDelivered ==
    [][rx # <<>> /\ rx' = Tail(rx) /\ Follows(Head(rx)) /\ Len(Head(rx).frame) >= 6
         => (mpc' = "loop") = IsLast(Head(rx))]_vars

\* A byte is stored behind payload.data only when the length byte before it
\* was above DATALINK_MAX_PAYLOAD_SIZE.  No frame announces that; a byte that
\* was changed, or one taken for the length by a parser out of step, may.
SpillsOnlyTooLong == mpc = "spilled" => pkg.len > PayloadSize

\* After bytes were lost or changed, or a queue was full, the parser may take
\* the next frames for the rest of a frame with the longest payload, but then
\* it is back in step: it misses no more frames than these bytes touch, as
\* long as it stores none behind payload.data.
SyncRegained == mpc # "spilled" => missed <= (PayloadSize + 3 + 5) \div 6
=============================================================================
