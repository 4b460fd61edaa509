----------------------------- MODULE RingBuffer -----------------------------
(***************************************************************************)
(* rt_ringbuffer (rt-thread/components/drivers/ipc/ringbuffer.c) as this   *)
(* firmware uses it: an interrupt handler puts bytes (the RF callback into *)
(* the transmitter's rb_cdc_tx, the UART interrupt into the receiver's     *)
(* uart_rx_ringbuf) and a thread gets them, with no lock between the two.  *)
(* The handler is never interrupted by the thread, so a put is one step;   *)
(* a get may be interrupted between any two of its accesses, where an      *)
(* index and its mirror bit, fields of one halfword, are accessed at once. *)
(*                                                                         *)
(* rt_ringbuffer_putchar and rt_ringbuffer_getchar move the indices like   *)
(* a put and a get of one byte and are covered by them.                    *)
(***************************************************************************)
EXTENDS Integers, Sequences

CONSTANTS
    N,         \* buffer_size
    MaxLength, \* the longest block a put or a get is asked for
    MaxBytes   \* bound: bytes accepted in a behaviour

ASSUME ConstantsAssumption ==
    /\ N \in Nat \ {0} /\ MaxLength \in Nat \ {0} /\ MaxBytes \in Nat

VARIABLES
    buf,                        \* buffer_ptr[]: a byte is its number, 0 unwritten
    read_mirror, read_index,
    write_mirror, write_index,
    rpc,                        \* where the thread's get stands
    length,                     \* its local length
    got,                        \* what it has copied to *ptr
    accepted,                   \* history: bytes put and not discarded
    delivered                   \* history: bytes whose get has returned

vars == <<buf, read_mirror, read_index, write_mirror, write_index,
          rpc, length, got, accepted, delivered>>

-----------------------------------------------------------------------------
Init ==
    /\ buf = [s \in 0..(N - 1) |-> 0]
    /\ read_mirror = 0 /\ read_index = 0
    /\ write_mirror = 0 /\ write_index = 0
    /\ rpc = "idle" /\ length = 0 /\ got = <<>>
    /\ accepted = 0 /\ delivered = 0

\* Mutant: the two sides of the mirror are not told apart.
LenWithoutMirror(ri, rm, wi, wm) ==
    IF ri = wi THEN 0 ELSE IF wi > ri THEN wi - ri ELSE N - (ri - wi)

\* rt_ringbuffer_status and rt_ringbuffer_data_len: equal indices mean empty
\* on the same side of the mirror and full on different sides.
DataLen(ri, rm, wi, wm) ==
    IF ri = wi THEN IF rm = wm THEN 0 ELSE N
    ELSE IF wi > ri THEN wi - ri ELSE N - (ri - wi)

SpaceLen(ri, rm, wi, wm) == N - DataLen(ri, rm, wi, wm)

\* The slot i places after an index, and how far a slot lies after one.
Slot(index, i) == IF index + i < N THEN index + i ELSE index + i - N
Ahead(index, s) == IF s >= index THEN s - index ELSE s - index + N

\* Mutants: the bit is not flipped when the block ends exactly at the end,
\* and the index runs past it.
MirrorLate(index, mirror, n) == IF N - index >= n THEN mirror ELSE 1 - mirror
IndexNoWrap(index, n) == index + n

\* An index and its mirror bit after n bytes.
IndexAfter(index, n)          == IF N - index > n THEN index + n ELSE n - (N - index)
MirrorAfter(index, mirror, n) == IF N - index > n THEN mirror ELSE 1 - mirror

\* The bytes of a block, numbered from `first', in the n slots from an index.
Written(b, index, n, first) ==
    [s \in 0..(N - 1) |-> IF Ahead(index, s) < n THEN first + Ahead(index, s) ELSE b[s]]

Lesser(a, b) == IF a < b THEN a ELSE b

\* Mutant: a block that does not fit is written all the same.
Undropped(len, space) == len

\* What of a block of len bytes is kept: the rest is discarded.
Kept(len, space) == Lesser(len, space)

\* rt_ringbuffer_put, in the interrupt handler.
Put(len) ==
    LET n == Kept(len, SpaceLen(read_index, read_mirror, write_index, write_mirror))
    IN  /\ n > 0
        /\ accepted + n <= MaxBytes
        /\ buf' = Written(buf, write_index, n, accepted + 1)
        /\ write_index' = IndexAfter(write_index, n)
        /\ write_mirror' = MirrorAfter(write_index, write_mirror, n)
        /\ accepted' = accepted + n
        /\ UNCHANGED <<read_mirror, read_index, rpc, length, got, delivered>>

\* rt_ringbuffer_get: what rt_ringbuffer_status finds ...
ReadStatus(want) ==
    /\ rpc = "idle"
    /\ \/ /\ read_index # write_index
          /\ rpc' = "halffull"
       \/ /\ read_index = write_index /\ read_mirror # write_mirror
          /\ rpc' = "full"
    /\ length' = want
    /\ got' = <<>>
    /\ UNCHANGED <<buf, read_mirror, read_index, write_mirror, write_index,
                   accepted, delivered>>

\* ... and how many bytes rt_ringbuffer_data_len makes of it, from the
\* indices as they are by now; a put may have come between.
SizeOf(status, ri, wi) ==
    IF status = "full" THEN N ELSE IF wi > ri THEN wi - ri ELSE N - (ri - wi)

ReadLength ==
    /\ rpc \in {"full", "halffull"}
    /\ length' = Lesser(length, SizeOf(rpc, read_index, write_index))
    /\ rpc' = "copy"
    /\ UNCHANGED <<buf, read_mirror, read_index, write_mirror, write_index,
                   got, accepted, delivered>>

\* The two rt_memcpy, byte by byte.
CopyByte ==
    /\ rpc = "copy"
    /\ Len(got) < length
    /\ got' = Append(got, buf[Slot(read_index, Len(got))])
    /\ UNCHANGED <<buf, read_mirror, read_index, write_mirror, write_index,
                   rpc, length, accepted, delivered>>

\* The block is copied: give its slots back, mirror bit and index at once.
Release ==
    /\ rpc = "copy"
    /\ Len(got) = length
    /\ read_mirror' = MirrorAfter(read_index, read_mirror, length)
    /\ read_index' = IndexAfter(read_index, length)
    /\ delivered' = delivered + length
    /\ rpc' = "idle"
    /\ UNCHANGED <<buf, write_mirror, write_index, length, got, accepted>>

Next ==
    \/ \E len \in 1..MaxLength : Put(len)
    \/ \E want \in 1..MaxLength : ReadStatus(want)
    \/ ReadLength
    \/ CopyByte
    \/ Release

Spec == Init /\ [][Next]_vars

-----------------------------------------------------------------------------
\* The indices stay inside the buffer and a get never exceeds it.
TypeOK ==
    /\ buf \in [0..(N - 1) -> Nat]
    /\ read_mirror \in {0, 1} /\ write_mirror \in {0, 1}
    /\ read_index \in 0..(N - 1) /\ write_index \in 0..(N - 1)
    /\ rpc \in {"idle", "full", "halffull", "copy"}
    /\ length \in Nat
    /\ got \in Seq(Nat) /\ Len(got) <= length
    /\ accepted \in Nat /\ delivered \in Nat

\* ringbuffer.c says of a put that "it will discard out-of-range data": no
\* put ever writes over a byte the reader has not taken yet.
UnreadKept ==
    /\ accepted - delivered \in 0..N
    /\ \A i \in 0..(accepted - delivered - 1) :
          buf[Slot(read_index, i)] = delivered + 1 + i

\* The two indices and mirror bits, moved by two actors without a lock,
\* always tell the exact number of unread bytes: nothing is discarded while
\* there is room and no byte is read that was not written.
LengthExact ==
    DataLen(read_index, read_mirror, write_index, write_mirror) = accepted - delivered

\* What an interrupted get has copied so far are the oldest unread bytes, and
\* what it is going to copy has all been written, although the status, the
\* indices and the bytes were read at different times.
GotIsOldest ==
    /\ rpc = "copy" => length <= accepted - delivered
    /\ rpc # "idle" => \A i \in 1..Len(got) : got[i] = delivered + i

\* The bytes between the indices.
Unread ==
    [i \in 1..DataLen(read_index, read_mirror, write_index, write_mirror)
       |-> buf[Slot(read_index, i - 1)]]

Abstract == INSTANCE Fifo WITH Capacity <- N, queue <- Unread

\* The ring buffer is a first-in first-out queue of N bytes.
IsFifo == Abstract!Spec
=============================================================================
