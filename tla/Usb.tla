--------------------------------- MODULE Usb ---------------------------------
(***************************************************************************)
(* The transmitter's USB side (usbd_cdc_acm_hid.c): the main loop that     *)
(* hands telemetry to the serial port (CDC), the radio thread that sends   *)
(* joystick reports (HID), and the USB interrupt that tells both when the  *)
(* host has taken a packet.                                                *)
(*                                                                         *)
(* An interrupt comes between any two steps of the threads and is one      *)
(* step.  The byte queue rb_cdc_tx is what RingBuffer is shown to be: a    *)
(* queue that drops what does not fit.  Bytes are numbered as it accepts   *)
(* them.  The driver of the endpoints and the host are external: the       *)
(* driver copies a packet when it is written, and the host takes it or     *)
(* not.  rb_cdc_rx, which nothing fills, is left out.                      *)
(***************************************************************************)
EXTENDS Integers, Sequences

CONSTANTS
    BufferSize,  \* of rb_cdc_tx: 128
    MaxPacket,   \* CDC_MAX_MPS and the size of write_buffer: 64
    MaxData,     \* bytes of telemetry in an RF packet: 31
    MaxBytes     \* bound: bytes accepted in a behaviour

ASSUME ConstantsAssumption ==
    /\ BufferSize \in Nat \ {0} /\ MaxPacket \in Nat \ {0}
    /\ MaxData \in Nat /\ MaxBytes \in Nat

VARIABLES
    rb_cdc_tx,     \* the bytes in the ring buffer
    accepted,      \* history: how many bytes it has accepted
    write_buffer,  \* what the main loop has taken out of it
    cdc_tx_sem,    \* the semaphore's value
    dtr_enable,    \* the host has opened the serial port
    pc,            \* where the main loop stands
    endpoint,      \* the CDC packet the host may take, <<0>> if there is none
    received,      \* history: the bytes the host has taken
    open,          \* history: the host's last packet was full
    enabled,       \* the host has configured the device
    hid_state, rpc,  \* HID_STATE_..., where usbd_hid_send_report stands
    hid_armed,     \* the HID endpoint holds a report the host may take
    report         \* which report it is, modulo 2

mainVars == <<write_buffer, pc>>
cdcVars  == <<rb_cdc_tx, accepted, cdc_tx_sem, endpoint, received, open>>
hidVars  == <<hid_state, rpc, hid_armed, report>>
vars     == <<mainVars, cdcVars, hidVars, dtr_enable, enabled>>

-----------------------------------------------------------------------------
Free == <<0>>

Lesser(a, b) == IF a < b THEN a ELSE b

Numbers(first, last) == [i \in 1..(last - first + 1) |-> first + i - 1]

\* cdc_acm_hid_init.
Init ==
    /\ rb_cdc_tx = <<>> /\ accepted = 0 /\ write_buffer = <<>>
    /\ cdc_tx_sem = 1 /\ dtr_enable = FALSE
    /\ pc = "tmos"
    /\ endpoint = Free /\ received = <<>> /\ open = FALSE /\ enabled = FALSE
    /\ hid_state = "IDLE" /\ rpc = "idle" /\ hid_armed = FALSE /\ report = 0

-----------------------------------------------------------------------------
(***************************************************************************)
(* The main loop: TMOS, usbd_cdc_acm_proccess, and again.                  *)
(***************************************************************************)
TMOS_SystemProcess ==
    /\ pc = "tmos"
    /\ pc' = "proccess"
    /\ UNCHANGED <<write_buffer, cdcVars, hidVars, dtr_enable, enabled>>

usbd_cdc_acm_proccess ==
    /\ pc = "proccess"
    /\ pc' = IF dtr_enable /\ Len(rb_cdc_tx) > 0 THEN "sem_take" ELSE "tmos"
    /\ UNCHANGED <<write_buffer, cdcVars, hidVars, dtr_enable, enabled>>

\* rt_sem_take waits for ever.
TakeSem ==
    /\ pc = "sem_take" /\ cdc_tx_sem > 0
    /\ cdc_tx_sem' = cdc_tx_sem - 1
    /\ pc' = "get"
    /\ UNCHANGED <<write_buffer, rb_cdc_tx, accepted, endpoint, received, open,
                   hidVars, dtr_enable, enabled>>

\* Mutant: the packet is filled while the last one is still under way.
GetBeforeSem ==
    LET n == Lesser(MaxPacket, Len(rb_cdc_tx))
    IN  /\ pc \in {"sem_take", "get"}
        /\ write_buffer' = SubSeq(rb_cdc_tx, 1, n)
        /\ rb_cdc_tx' = SubSeq(rb_cdc_tx, n + 1, Len(rb_cdc_tx))
        /\ pc' = "write"
        /\ UNCHANGED <<accepted, cdc_tx_sem, endpoint, received, open,
                       hidVars, dtr_enable, enabled>>

GetPacket ==
    LET n == Lesser(MaxPacket, Len(rb_cdc_tx))
    IN  /\ pc = "get"
        /\ write_buffer' = SubSeq(rb_cdc_tx, 1, n)
        /\ rb_cdc_tx' = SubSeq(rb_cdc_tx, n + 1, Len(rb_cdc_tx))
        /\ pc' = "write"
        /\ UNCHANGED <<accepted, cdc_tx_sem, endpoint, received, open,
                       hidVars, dtr_enable, enabled>>

\* The driver copies the packet; a packet still there is overwritten.
WritePacket ==
    /\ pc = "write"
    /\ endpoint' = write_buffer
    /\ write_buffer' = <<>>
    /\ pc' = "tmos"
    /\ UNCHANGED <<rb_cdc_tx, accepted, cdc_tx_sem, received, open,
                   hidVars, dtr_enable, enabled>>

Main == TMOS_SystemProcess \/ usbd_cdc_acm_proccess \/ TakeSem \/ GetPacket \/ WritePacket

-----------------------------------------------------------------------------
(***************************************************************************)
(* Interrupts.                                                             *)
(***************************************************************************)
\* The RF callback: usbd_cdc_acm_write of len bytes.
usbd_cdc_acm_write(len) ==
    LET n == Lesser(len, BufferSize - Len(rb_cdc_tx))
    IN  /\ n > 0 /\ accepted + n <= MaxBytes
        /\ rb_cdc_tx' = rb_cdc_tx \o Numbers(accepted + 1, accepted + n)
        /\ accepted' = accepted + n
        /\ UNCHANGED <<cdc_tx_sem, endpoint, received, open,
                       mainVars, hidVars, dtr_enable, enabled>>

\* Mutant: the empty packet is taken for a full one.
BulkInZlpForever(nbytes) ==
    IF nbytes % MaxPacket = 0
    THEN endpoint' = <<>> /\ UNCHANGED cdc_tx_sem
    ELSE endpoint' = Free /\ cdc_tx_sem' = cdc_tx_sem + 1

\* Mutant: a full packet is not followed by an empty one.
BulkInNoZlp(nbytes) == endpoint' = Free /\ cdc_tx_sem' = cdc_tx_sem + 1

\* Mutant: the semaphore is released before the empty packet is out.
BulkInReleases(nbytes) ==
    /\ endpoint' = IF nbytes % MaxPacket = 0 /\ nbytes > 0 THEN <<>> ELSE Free
    /\ cdc_tx_sem' = cdc_tx_sem + 1

\* A full packet is followed by an empty one, another frees the endpoint.
usbd_cdc_acm_bulk_in(nbytes) ==
    IF nbytes % MaxPacket = 0 /\ nbytes > 0
    THEN endpoint' = <<>> /\ UNCHANGED cdc_tx_sem
    ELSE endpoint' = Free /\ cdc_tx_sem' = cdc_tx_sem + 1

\* The host takes the CDC packet.
HostTakesPacket ==
    /\ endpoint # Free
    /\ received' = received \o endpoint
    /\ open' = (Len(endpoint) = MaxPacket)
    /\ usbd_cdc_acm_bulk_in(Len(endpoint))
    /\ UNCHANGED <<rb_cdc_tx, accepted, mainVars, hidVars, dtr_enable, enabled>>

\* The host configures the device: the driver's endpoints are enabled.
HostConfigures ==
    /\ ~enabled
    /\ enabled' = TRUE
    /\ UNCHANGED <<mainVars, cdcVars, hidVars, dtr_enable>>

\* A program on the host opens or closes the serial port.
usbd_cdc_acm_set_dtr(dtr) ==
    /\ enabled
    /\ dtr_enable' = dtr
    /\ UNCHANGED <<mainVars, cdcVars, hidVars, enabled>>

-----------------------------------------------------------------------------
(***************************************************************************)
(* Joystick reports: the radio thread writes one, then marks the state.    *)
(***************************************************************************)
\* Mutant: the state is not looked at.
SendReportAnyway ==
    /\ rpc = "idle"
    /\ enabled
    /\ hid_armed' = TRUE /\ report' = 1 - report
    /\ rpc' = "written"
    /\ UNCHANGED <<hid_state, mainVars, cdcVars, dtr_enable, enabled>>

\* Without a host usbd_ep_start_write fails and nothing is changed.
usbd_hid_send_report ==
    /\ rpc = "idle" /\ hid_state # "BUSY"
    /\ enabled
    /\ hid_armed' = TRUE /\ report' = 1 - report
    /\ rpc' = "written"
    /\ UNCHANGED <<hid_state, mainVars, cdcVars, dtr_enable, enabled>>

MarkBusy ==
    /\ rpc = "written"
    /\ hid_state' = "BUSY"
    /\ rpc' = "idle"
    /\ UNCHANGED <<hid_armed, report, mainVars, cdcVars, dtr_enable, enabled>>

\* The host takes the report: usbd_hid_int_callback.
usbd_hid_int_callback ==
    /\ hid_armed
    /\ hid_armed' = FALSE
    /\ hid_state' = "IDLE"
    /\ UNCHANGED <<rpc, report, mainVars, cdcVars, dtr_enable, enabled>>

Next ==
    \/ Main
    \/ \E len \in 1..MaxData : usbd_cdc_acm_write(len)
    \/ HostTakesPacket
    \/ HostConfigures
    \/ \E dtr \in BOOLEAN : usbd_cdc_acm_set_dtr(dtr)
    \/ usbd_hid_send_report
    \/ MarkBusy
    \/ usbd_hid_int_callback

Spec == Init /\ [][Next]_vars

\* The main thread runs every millisecond; the host takes what is offered.
FairSpec == Spec /\ WF_vars(Main) /\ WF_vars(HostTakesPacket)

-----------------------------------------------------------------------------
TypeOK ==
    /\ rb_cdc_tx \in Seq(1..MaxBytes) /\ Len(rb_cdc_tx) <= BufferSize
    /\ accepted \in 0..MaxBytes
    /\ write_buffer \in Seq(1..MaxBytes) /\ Len(write_buffer) <= MaxPacket
    /\ cdc_tx_sem \in 0..1 /\ dtr_enable \in BOOLEAN
    /\ pc \in {"tmos", "proccess", "sem_take", "get", "write"}
    /\ endpoint \in Seq(0..MaxBytes) /\ received \in Seq(1..MaxBytes)
    /\ open \in BOOLEAN /\ enabled \in BOOLEAN
    /\ hid_state \in {"IDLE", "BUSY"} /\ rpc \in {"idle", "written"}
    /\ hid_armed \in BOOLEAN /\ report \in 0..1

\* What the ring buffer accepts reaches the host in order, each byte once:
\* no packet is written over one the host has not taken.
NothingLost ==
    received \o (IF endpoint = Free THEN <<>> ELSE endpoint)
             \o write_buffer \o rb_cdc_tx = Numbers(1, accepted)

\* The semaphore stands for the endpoint: it is free, or the main loop is
\* about to write, or the host has a packet to take.
OnePacketAtATime ==
    cdc_tx_sem + (IF pc \in {"get", "write"} THEN 1 ELSE 0)
               + (IF endpoint # Free THEN 1 ELSE 0) = 1

\* A host's read ends: after a full packet there comes a shorter one.
TransferEnds == open ~> ~open

\* The main loop, and the RF task it runs, comes round as long as the host
\* takes its packets.
MainKeepsRunning == pc # "tmos" ~> pc = "tmos"

\* A report is never changed while the host may take it.
ReportKept == [][hid_armed /\ hid_armed' => report' = report]_vars

\* When the radio thread is not sending, HID_STATE_BUSY means that the host
\* has a report to take and hid_state will return to idle.
BusyMeansSending == rpc = "idle" /\ hid_state = "BUSY" => hid_armed
=============================================================================
