----------------------------- MODULE UsbProofs -----------------------------
(***************************************************************************)
(* Proofs about Usb for every size of buffer and packet and every number   *)
(* of bytes: the bytes on their way to the host are those the ring buffer  *)
(* accepted, in order, and the semaphore tells who has the endpoint.       *)
(***************************************************************************)
EXTENDS Usb, SequenceTheorems, TLAPS

Byte == 1..MaxBytes

\* The packet on its way to the host.
Offered == IF endpoint = Free THEN <<>> ELSE endpoint

\* The buffer of the main loop holds bytes only until they are written.
EmptyBuffer == pc # "write" => write_buffer = <<>>

\* A packet is made of bytes, and a report waits under the mark or before it.
PacketOfBytes == endpoint # Free => endpoint \in Seq(Byte)

ReportMarked == hid_armed => hid_state = "BUSY" \/ rpc = "written"

IInv ==
    /\ TypeOK
    /\ EmptyBuffer /\ PacketOfBytes /\ ReportMarked
    /\ OnePacketAtATime
    /\ NothingLost

-----------------------------------------------------------------------------
LEMMA NumbersAre ==
    ASSUME NEW a \in Nat, NEW b \in a..MaxBytes
    PROVE  /\ Numbers(a + 1, b) \in Seq(Byte)
           /\ Len(Numbers(a + 1, b)) = b - a
           /\ \A i \in 1..(b - a) : Numbers(a + 1, b)[i] = a + i
BY ConstantsAssumption, SMT DEF Numbers, Byte

\* The numbers up to b are those up to a and those after a.
LEMMA NumbersJoin ==
    ASSUME NEW a \in Nat, NEW b \in a..MaxBytes
    PROVE  Numbers(1, a) \o Numbers(a + 1, b) = Numbers(1, b)
<1> DEFINE s == Numbers(1, a)  t == Numbers(a + 1, b)  u == Numbers(1, b)
<1>1. /\ s \in Seq(Byte) /\ Len(s) = a /\ \A i \in 1..a : s[i] = i
      /\ u \in Seq(Byte) /\ Len(u) = b /\ \A i \in 1..b : u[i] = i
  <2>1. a \in 0..MaxBytes /\ b \in 0..MaxBytes /\ 0 + 1 = 1 /\ a - 0 = a /\ b - 0 = b
    BY ConstantsAssumption, SMT
  <2>2. \A k \in 0..MaxBytes : /\ Numbers(0 + 1, k) \in Seq(Byte)
                               /\ Len(Numbers(0 + 1, k)) = k - 0
                               /\ \A i \in 1..(k - 0) : Numbers(0 + 1, k)[i] = 0 + i
    BY NumbersAre
  <2> QED BY <2>1, <2>2, SMT
<1>2. t \in Seq(Byte) /\ Len(t) = b - a /\ \A i \in 1..(b - a) : t[i] = a + i
  BY NumbersAre
<1> HIDE DEF s, t, u
<1>3. /\ s \o t \in Seq(Byte) /\ Len(s \o t) = Len(s) + Len(t)
      /\ \A i \in 1..(Len(s) + Len(t)) :
            (s \o t)[i] = IF i <= Len(s) THEN s[i] ELSE t[i - Len(s)]
  BY <1>1, <1>2, ConcatProperties
<1>4. Len(s \o t) = b /\ b \in Nat
  BY <1>1, <1>2, <1>3, ConstantsAssumption, SMT
<1>5. ASSUME NEW i \in 1..b PROVE (s \o t)[i] = u[i]
  <2>1. (s \o t)[i] = IF i <= a THEN s[i] ELSE t[i - a]
    BY <1>1, <1>3, <1>4
  <2>2. CASE i <= a
    BY <2>1, <2>2, <1>1, <1>4, SMT
  <2>3. CASE ~(i <= a)
    <3>1. i - a \in 1..(b - a) /\ a + (i - a) = i
      BY <2>3, <1>4, SMT
    <3> QED BY <3>1, <2>1, <2>3, <1>1, <1>2
  <2> QED BY <2>2, <2>3
<1> QED BY <1>1, <1>3, <1>4, <1>5, SeqEqual DEF s, t, u

\* A buffer is its first n bytes and the rest.
LEMMA Split ==
    ASSUME NEW s \in Seq(Byte), NEW n \in 0..Len(s)
    PROVE  /\ SubSeq(s, 1, n) \in Seq(Byte) /\ Len(SubSeq(s, 1, n)) = n
           /\ SubSeq(s, n + 1, Len(s)) \in Seq(Byte)
           /\ Len(SubSeq(s, n + 1, Len(s))) = Len(s) - n
           /\ SubSeq(s, 1, n) \o SubSeq(s, n + 1, Len(s)) = s
<1> DEFINE p == SubSeq(s, 1, n)  q == SubSeq(s, n + 1, Len(s))
<1>1. p \in Seq(Byte) /\ Len(p) = n /\ \A i \in 1..n : p[i] = s[i]
  BY SMT
<1>2. q \in Seq(Byte) /\ Len(q) = Len(s) - n /\ \A i \in 1..(Len(s) - n) : q[i] = s[n + i]
  BY SMT
<1> HIDE DEF p, q
<1>3. /\ p \o q \in Seq(Byte) /\ Len(p \o q) = Len(p) + Len(q)
      /\ \A i \in 1..(Len(p) + Len(q)) :
            (p \o q)[i] = IF i <= Len(p) THEN p[i] ELSE q[i - Len(p)]
  BY <1>1, <1>2, ConcatProperties
<1>4. Len(p \o q) = Len(s) /\ Len(s) \in Nat
  BY <1>1, <1>2, <1>3, SMT
<1>5. ASSUME NEW i \in 1..Len(s) PROVE (p \o q)[i] = s[i]
  <2>1. (p \o q)[i] = IF i <= n THEN p[i] ELSE q[i - n]
    BY <1>1, <1>3, <1>4
  <2>2. CASE i <= n
    BY <2>1, <2>2, <1>1, <1>4, SMT
  <2>3. CASE ~(i <= n)
    <3>1. i - n \in 1..(Len(s) - n) /\ n + (i - n) = i
      BY <2>3, <1>4, SMT
    <3> QED BY <3>1, <2>1, <2>3, <1>1, <1>2
  <2> QED BY <2>2, <2>3
<1>6. p \o q = s
  BY <1>3, <1>4, <1>5, SeqEqual
<1> QED BY <1>1, <1>2, <1>6 DEF p, q

\* Where the bytes stand does not matter for their order.
LEMMA Regroup ==
    ASSUME NEW r \in Seq(Byte), NEW s \in Seq(Byte), NEW t \in Seq(Byte)
    PROVE  (r \o s) \o t = r \o (s \o t) /\ r \o <<>> = r /\ <<>> \o r = r
           /\ r \o s \in Seq(Byte) /\ <<>> \in Seq(Byte)
BY ConcatAssociative, ConcatEmptySeq, ConcatProperties, EmptySeq

LEMMA LesserIs ==
    ASSUME NEW a \in Nat, NEW b \in Nat
    PROVE  Lesser(a, b) \in Nat /\ Lesser(a, b) <= a /\ Lesser(a, b) <= b
BY SMT DEF Lesser

LEMMA FreeIsNoPacket == Free \notin Seq(Byte) /\ Free # <<>> /\ Free \in Seq(0..MaxBytes)
<1>1. Free \in Seq(Byte) => Free[1] \in Byte
  <2>1. Len(Free) = 1 /\ 1 \in 1..1
    BY SMT DEF Free
  <2> QED BY <2>1, ElementOfSeq
<1>2. Free[1] = 0 /\ 0 \notin Byte
  BY SMT DEF Free, Byte
<1>3. Free # <<>> /\ Free \in Seq(0..MaxBytes)
  BY ConstantsAssumption, SMT DEF Free
<1> QED BY <1>1, <1>2, <1>3

LEMMA BytesAreEndpointBytes == ASSUME NEW s \in Seq(Byte) PROVE s \in Seq(0..MaxBytes)
<1>1. Byte \subseteq 0..MaxBytes
  BY SMT DEF Byte
<1> QED BY <1>1, SeqMonotonic

-----------------------------------------------------------------------------
\* The invariant holds in every initial state.
THEOREM Initially == Init => IInv
<1> SUFFICES ASSUME Init PROVE IInv
  OBVIOUS
<1>1. <<>> \in Seq(Byte) /\ Len(<<>>) = 0 /\ <<>> \o <<>> = <<>>
  BY Regroup, EmptySeq
<1>2. TypeOK
  <2>1. 0 \in 0..MaxBytes /\ 0 <= BufferSize /\ 0 <= MaxPacket /\ 1 \in 0..1 /\ 0 \in 0..1
    BY ConstantsAssumption, SMT
  <2> QED BY <1>1, <2>1, FreeIsNoPacket DEF Init, TypeOK, Byte
<1>3. OnePacketAtATime
  BY SMT DEF Init, OnePacketAtATime
<1>4. NothingLost
  <2>1. Numbers(1, 0) = <<>>
    <3>1. 0 \in 0..MaxBytes /\ 0 - 0 = 0 /\ 0 + 1 = 1
      BY ConstantsAssumption, SMT
    <3>2. Numbers(0 + 1, 0) \in Seq(Byte) /\ Len(Numbers(0 + 1, 0)) = 0 - 0
      BY <3>1, NumbersAre
    <3> QED BY <3>1, <3>2, EmptySeq
  <2> QED BY <2>1, <1>1 DEF Init, NothingLost
<1> QED BY <1>2, <1>3, <1>4 DEF Init, IInv, EmptyBuffer, PacketOfBytes, ReportMarked

\* The types of the parts, and the order of the bytes on their way.
LEMMA Parts ==
    ASSUME IInv
    PROVE  /\ received \in Seq(Byte) /\ Offered \in Seq(Byte)
           /\ write_buffer \in Seq(Byte) /\ rb_cdc_tx \in Seq(Byte)
           /\ ((received \o Offered) \o write_buffer) \o rb_cdc_tx = Numbers(1, accepted)
BY Regroup DEF IInv, TypeOK, PacketOfBytes, NothingLost, Offered, Byte

LEMMA TakeSemStep == IInv /\ TakeSem => IInv'
<1> SUFFICES ASSUME IInv, TakeSem PROVE IInv'
  OBVIOUS
<1>1. cdc_tx_sem = 1 /\ cdc_tx_sem' = 0 /\ pc' = "get"
  BY SMT DEF IInv, TypeOK, TakeSem
<1>2. OnePacketAtATime'
  BY <1>1, SMT DEF IInv, OnePacketAtATime, TakeSem
<1>3. TypeOK' /\ EmptyBuffer'
  BY <1>1, SMT DEF IInv, TypeOK, EmptyBuffer, TakeSem, hidVars
<1>4. NothingLost' /\ PacketOfBytes' /\ ReportMarked'
  BY DEF IInv, NothingLost, PacketOfBytes, ReportMarked, TakeSem, hidVars
<1> QED BY <1>2, <1>3, <1>4 DEF IInv

LEMMA GetPacketStep == IInv /\ GetPacket => IInv'
<1> SUFFICES ASSUME IInv, GetPacket PROVE IInv'
  OBVIOUS
<1> DEFINE n == Lesser(MaxPacket, Len(rb_cdc_tx))
<1>1. rb_cdc_tx \in Seq(Byte) /\ Len(rb_cdc_tx) \in Nat /\ Len(rb_cdc_tx) <= BufferSize
  BY LenProperties DEF IInv, TypeOK, Byte
<1>2. n \in 0..Len(rb_cdc_tx) /\ n <= MaxPacket
  <2>1. MaxPacket \in Nat
    BY ConstantsAssumption, SMT
  <2>2. n \in Nat /\ n <= MaxPacket /\ n <= Len(rb_cdc_tx)
    BY <2>1, <1>1, LesserIs
  <2> HIDE DEF n
  <2> QED BY <2>2, <1>1, SMT
<1>3. /\ pc = "get" /\ pc' = "write"
      /\ write_buffer' = SubSeq(rb_cdc_tx, 1, n)
      /\ rb_cdc_tx' = SubSeq(rb_cdc_tx, n + 1, Len(rb_cdc_tx))
      /\ UNCHANGED <<accepted, cdc_tx_sem, endpoint, received, open,
                     hidVars, dtr_enable, enabled>>
  BY DEF GetPacket
<1> HIDE DEF n
<1>4. /\ write_buffer' \in Seq(Byte) /\ Len(write_buffer') = n
      /\ rb_cdc_tx' \in Seq(Byte) /\ Len(rb_cdc_tx') = Len(rb_cdc_tx) - n
      /\ write_buffer' \o rb_cdc_tx' = rb_cdc_tx
  BY <1>1, <1>2, <1>3, Split
<1>5. Len(rb_cdc_tx') <= BufferSize /\ Len(write_buffer') <= MaxPacket
  BY <1>1, <1>2, <1>4, ConstantsAssumption, SMT
<1>6. TypeOK'
  BY <1>3, <1>4, <1>5 DEF IInv, TypeOK, Byte, hidVars
<1>7. OnePacketAtATime'
  BY <1>3 DEF IInv, OnePacketAtATime
<1>8. NothingLost'
  <2>1. write_buffer = <<>> /\ Offered' = Offered
    BY <1>3 DEF IInv, EmptyBuffer, Offered
  <2>2. received \o Offered \in Seq(Byte)
    BY Parts, Regroup
  <2>3. ((received \o Offered) \o write_buffer') \o rb_cdc_tx'
            = (received \o Offered) \o rb_cdc_tx
    <3> DEFINE r == received \o Offered
    <3> HIDE DEF r
    <3>1. ASSUME NEW p \in Seq(Byte), NEW q \in Seq(Byte), r \in Seq(Byte)
          PROVE  (r \o p) \o q = r \o (p \o q)
      BY <3>1, Regroup
    <3> QED BY <3>1, <2>2, <1>4 DEF r
  <2>4. ((received \o Offered) \o write_buffer) \o rb_cdc_tx
            = (received \o Offered) \o rb_cdc_tx
    BY <2>1, <2>2, Regroup
  <2> QED BY <2>1, <2>3, <2>4, <1>3, Parts DEF NothingLost, Offered
<1>9. EmptyBuffer' /\ PacketOfBytes' /\ ReportMarked'
  BY <1>3 DEF IInv, EmptyBuffer, PacketOfBytes, ReportMarked, hidVars
<1> QED BY <1>6, <1>7, <1>8, <1>9 DEF IInv

LEMMA WritePacketStep == IInv /\ WritePacket => IInv'
<1> SUFFICES ASSUME IInv, WritePacket PROVE IInv'
  OBVIOUS
<1>1. /\ pc = "write" /\ pc' = "tmos" /\ endpoint' = write_buffer /\ write_buffer' = <<>>
      /\ UNCHANGED <<rb_cdc_tx, accepted, cdc_tx_sem, received, open,
                     hidVars, dtr_enable, enabled>>
  BY DEF WritePacket
<1>2. write_buffer \in Seq(Byte) /\ write_buffer # Free
  BY Parts, FreeIsNoPacket
<1>3. cdc_tx_sem = 0 /\ endpoint = Free
  BY <1>1, SMT DEF IInv, TypeOK, OnePacketAtATime
<1>4. OnePacketAtATime'
  BY <1>1, <1>2, <1>3, SMT DEF OnePacketAtATime
<1>5. <<>> \in Seq(Byte) /\ Len(<<>>) <= MaxPacket
  BY Regroup, EmptySeq, ConstantsAssumption, SMT
<1>6. TypeOK'
  BY <1>1, <1>2, <1>5, BytesAreEndpointBytes DEF IInv, TypeOK, Byte, hidVars
<1>7. NothingLost'
  <2>1. Offered = <<>> /\ Offered' = write_buffer
    BY <1>1, <1>2, <1>3 DEF Offered
  <2>2. (received \o Offered) \o write_buffer = received \o write_buffer
    BY <2>1, Parts, Regroup
  <2>3. (received \o Offered') \o <<>> = received \o write_buffer
    BY <2>1, Parts, Regroup
  <2> QED BY <2>1, <2>2, <2>3, <1>1, Parts DEF NothingLost, Offered
<1>8. EmptyBuffer' /\ PacketOfBytes' /\ ReportMarked'
  BY <1>1, <1>2 DEF IInv, EmptyBuffer, PacketOfBytes, ReportMarked, hidVars
<1> QED BY <1>4, <1>6, <1>7, <1>8 DEF IInv

LEMMA WriteStep ==
    ASSUME NEW len \in 1..MaxData, IInv, usbd_cdc_acm_write(len)
    PROVE  IInv'
<1> DEFINE n == Lesser(len, BufferSize - Len(rb_cdc_tx))
           new == Numbers(accepted + 1, accepted + n)
<1>1. /\ n > 0 /\ accepted + n <= MaxBytes
      /\ rb_cdc_tx' = rb_cdc_tx \o new /\ accepted' = accepted + n
      /\ UNCHANGED <<cdc_tx_sem, endpoint, received, open,
                     mainVars, hidVars, dtr_enable, enabled>>
  BY DEF usbd_cdc_acm_write
<1>2. /\ Len(rb_cdc_tx) \in Nat /\ Len(rb_cdc_tx) <= BufferSize /\ accepted \in Nat
      /\ BufferSize \in Nat /\ MaxBytes \in Nat /\ len \in Nat
  BY LenProperties, ConstantsAssumption, SMT DEF IInv, TypeOK
<1>3. n \in Nat /\ n <= BufferSize - Len(rb_cdc_tx)
  <2>1. BufferSize - Len(rb_cdc_tx) \in Nat
    BY <1>2, SMT
  <2> QED BY <2>1, <1>2, LesserIs
<1> HIDE DEF n
<1>4. accepted + n \in accepted..MaxBytes /\ accepted' \in 0..MaxBytes
      /\ (accepted + n) - accepted = n
  BY <1>1, <1>2, <1>3, SMT
<1>5. new \in Seq(Byte) /\ Len(new) = n
  BY <1>2, <1>4, NumbersAre
<1>6. Numbers(1, accepted) \o new = Numbers(1, accepted')
  BY <1>1, <1>2, <1>4, NumbersJoin
<1> HIDE DEF new
<1>7. rb_cdc_tx' \in Seq(Byte) /\ Len(rb_cdc_tx') <= BufferSize
  <2>1. rb_cdc_tx' \in Seq(Byte) /\ Len(rb_cdc_tx') = Len(rb_cdc_tx) + Len(new)
    BY <1>1, <1>5, Parts, ConcatProperties
  <2> QED BY <2>1, <1>2, <1>3, <1>5, SMT
<1>8. TypeOK'
  BY <1>1, <1>4, <1>7 DEF IInv, TypeOK, Byte, mainVars, hidVars
<1>9. NothingLost'
  <2>1. (received \o Offered) \o write_buffer \in Seq(Byte)
    BY Parts, Regroup
  <2>2. ((received \o Offered) \o write_buffer) \o (rb_cdc_tx \o new)
            = (((received \o Offered) \o write_buffer) \o rb_cdc_tx) \o new
    <3> DEFINE r == (received \o Offered) \o write_buffer
    <3>1. r \in Seq(Byte) /\ rb_cdc_tx \in Seq(Byte)
      BY <2>1, Parts
    <3> HIDE DEF r
    <3>2. (r \o rb_cdc_tx) \o new = r \o (rb_cdc_tx \o new)
      BY <3>1, <1>5, Regroup
    <3> QED BY <3>2 DEF r
  <2>3. Offered' = Offered
    BY <1>1 DEF Offered
  <2> QED BY <2>2, <2>3, <1>1, <1>6, Parts DEF NothingLost, Offered, mainVars
<1>10. EmptyBuffer' /\ PacketOfBytes' /\ ReportMarked' /\ OnePacketAtATime'
  BY <1>1 DEF IInv, EmptyBuffer, PacketOfBytes, ReportMarked, OnePacketAtATime,
     mainVars, hidVars
<1> QED BY <1>8, <1>9, <1>10 DEF IInv

LEMMA HostTakesPacketStep == IInv /\ HostTakesPacket => IInv'
<1> SUFFICES ASSUME IInv, HostTakesPacket PROVE IInv'
  OBVIOUS
<1>1. /\ endpoint # Free /\ received' = received \o endpoint
      /\ open' = (Len(endpoint) = MaxPacket)
      /\ UNCHANGED <<rb_cdc_tx, accepted, mainVars, hidVars, dtr_enable, enabled>>
      /\ \/ endpoint' = <<>> /\ cdc_tx_sem' = cdc_tx_sem
         \/ endpoint' = Free /\ cdc_tx_sem' = cdc_tx_sem + 1
  BY DEF HostTakesPacket, usbd_cdc_acm_bulk_in
<1>2. cdc_tx_sem = 0 /\ pc \notin {"get", "write"}
  BY <1>1, SMT DEF IInv, TypeOK, OnePacketAtATime
<1>3. OnePacketAtATime'
  BY <1>1, <1>2, FreeIsNoPacket, SMT DEF OnePacketAtATime, mainVars
<1>4. Offered = endpoint /\ Offered' = <<>> /\ received' \in Seq(Byte)
  BY <1>1, FreeIsNoPacket, Parts, Regroup DEF Offered
<1>5. TypeOK'
  <2>1. endpoint' \in Seq(0..MaxBytes) /\ cdc_tx_sem' \in 0..1
    <3>1. endpoint' \in Seq(0..MaxBytes)
      <4>1. <<>> \in Seq(0..MaxBytes)
        BY EmptySeq
      <4> QED BY <4>1, <1>1, FreeIsNoPacket
    <3>2. cdc_tx_sem' \in 0..1
      BY <1>1, <1>2, SMT
    <3> QED BY <3>1, <3>2
  <2> QED BY <2>1, <1>1, <1>4 DEF IInv, TypeOK, Byte, mainVars, hidVars
<1>6. NothingLost'
  <2>1. received' \o <<>> = received \o Offered
    BY <1>1, <1>4, Regroup
  <2> QED BY <2>1, <1>1, <1>4, Parts DEF NothingLost, Offered, mainVars
<1>7. EmptyBuffer' /\ PacketOfBytes' /\ ReportMarked'
  BY <1>1, Regroup DEF IInv, EmptyBuffer, PacketOfBytes, ReportMarked, mainVars, hidVars
<1> QED BY <1>3, <1>5, <1>6, <1>7 DEF IInv

\* The other steps move no byte.
LEMMA OtherStep ==
    ASSUME IInv,
           \/ TMOS_SystemProcess \/ usbd_cdc_acm_proccess \/ HostConfigures
           \/ (\E dtr \in BOOLEAN : usbd_cdc_acm_set_dtr(dtr))
           \/ usbd_hid_send_report \/ MarkBusy \/ usbd_hid_int_callback
           \/ UNCHANGED vars
    PROVE  IInv'
<1> USE DEF TMOS_SystemProcess, usbd_cdc_acm_proccess, HostConfigures,
        usbd_cdc_acm_set_dtr, usbd_hid_send_report, MarkBusy, usbd_hid_int_callback,
        vars, mainVars, cdcVars, hidVars
<1>1. UNCHANGED cdcVars /\ UNCHANGED write_buffer
  OBVIOUS
<1>2. pc' = pc \/ (pc \in {"tmos", "proccess"} /\ pc' \in {"tmos", "proccess", "sem_take"})
  OBVIOUS
<1>3. NothingLost' /\ PacketOfBytes'
  BY <1>1 DEF IInv, NothingLost, PacketOfBytes
<1>4. OnePacketAtATime' /\ EmptyBuffer'
  BY <1>1, <1>2 DEF IInv, OnePacketAtATime, EmptyBuffer
<1>5. ReportMarked'
  BY DEF IInv, ReportMarked
<1>6. /\ enabled' \in BOOLEAN /\ dtr_enable' \in BOOLEAN
      /\ hid_state' \in {"IDLE", "BUSY"} /\ rpc' \in {"idle", "written"}
      /\ hid_armed' \in BOOLEAN
  BY DEF IInv, TypeOK
<1>7. report' \in 0..1
  BY SMT DEF IInv, TypeOK
<1>8. TypeOK'
  BY <1>1, <1>2, <1>6, <1>7 DEF IInv, TypeOK
<1> QED BY <1>3, <1>4, <1>5, <1>8 DEF IInv

\* Every step of the code, and every stutter, preserves the invariant.
THEOREM Inductive == IInv /\ [Next]_vars => IInv'
<1> SUFFICES ASSUME IInv, [Next]_vars PROVE IInv'
  OBVIOUS
<1> QED BY TakeSemStep, GetPacketStep, WritePacketStep, WriteStep, HostTakesPacketStep,
           OtherStep DEF Next, Main

\* So it holds in every reachable state.
THEOREM Invariance == Spec => []IInv
BY Initially, Inductive, PTL DEF Spec

\* Every state has its type; the semaphore is binary.
THEOREM TypeCorrect == Spec => []TypeOK
BY Invariance, PTL DEF IInv

\* The bytes the ring buffer accepted reach the host in order, each once.
THEOREM BytesReachHost == Spec => []NothingLost
BY Invariance, PTL DEF IInv

\* One of semaphore, main loop and host has the endpoint, and never two.
THEOREM OneOwnsEndpoint == Spec => []OnePacketAtATime
BY Invariance, PTL DEF IInv

\* The radio thread never changes a report that the host may take.
THEOREM ReportStands == Spec => ReportKept
<1>1. IInv /\ [Next]_vars => [hid_armed /\ hid_armed' => report' = report]_vars
  <2> SUFFICES ASSUME IInv, Next, hid_armed, hid_armed' PROVE report' = report
    OBVIOUS
  <2>1. usbd_hid_send_report => FALSE
    BY DEF usbd_hid_send_report, IInv, ReportMarked
  <2> QED BY <2>1 DEF Next, Main, TMOS_SystemProcess, usbd_cdc_acm_proccess, TakeSem,
       GetPacket, WritePacket, usbd_cdc_acm_write, HostTakesPacket, HostConfigures,
       usbd_cdc_acm_set_dtr, MarkBusy, usbd_hid_int_callback, hidVars
<1> QED BY <1>1, Invariance, PTL DEF Spec, ReportKept

-----------------------------------------------------------------------------
(***************************************************************************)
(* From the ring buffer to the host: what the port promises as a whole.    *)
(***************************************************************************)
\* A packet fits its endpoint, and one after a full packet is the empty one.
Framed ==
    /\ endpoint # Free => Len(endpoint) <= MaxPacket
    /\ open => endpoint = <<>>

LEMMA FullIsMultiple == MaxPacket % MaxPacket = 0 /\ MaxPacket > 0
<1>1. \A n \in Nat \ {0} : n % n = 0 /\ n > 0
  BY SMT
<1> QED BY <1>1, ConstantsAssumption

LEMMA FramedInitially == Init => Framed
BY FreeIsNoPacket DEF Init, Framed

LEMMA FramedStep == IInv /\ Framed /\ [Next]_vars => Framed'
<1> SUFFICES ASSUME IInv, Framed, [Next]_vars PROVE Framed'
  OBVIOUS
<1>1. CASE WritePacket
  <2>1. endpoint' = write_buffer /\ open' = open /\ pc = "write"
    BY <1>1 DEF WritePacket
  <2>2. endpoint = Free
    BY <2>1, SMT DEF IInv, TypeOK, OnePacketAtATime
  <2>3. ~open
    BY <2>2, FreeIsNoPacket DEF Framed
  <2>4. Len(write_buffer) <= MaxPacket
    BY DEF IInv, TypeOK
  <2> QED BY <2>1, <2>3, <2>4 DEF Framed
<1>2. CASE HostTakesPacket
  <2>1. /\ endpoint # Free /\ open' = (Len(endpoint) = MaxPacket)
        /\ usbd_cdc_acm_bulk_in(Len(endpoint))
    BY <1>2 DEF HostTakesPacket
  <2>2. endpoint' = <<>> \/ endpoint' = Free
    BY <2>1 DEF usbd_cdc_acm_bulk_in
  <2>3. open' => endpoint' = <<>>
    BY <2>1, FullIsMultiple DEF usbd_cdc_acm_bulk_in
  <2>4. Len(<<>>) <= MaxPacket
    BY ConstantsAssumption, EmptySeq, SMT
  <2> QED BY <2>2, <2>3, <2>4 DEF Framed
<1>3. CASE ~(WritePacket \/ HostTakesPacket)
  <2>1. endpoint' = endpoint /\ open' = open
    BY <1>3 DEF Next, Main, TMOS_SystemProcess, usbd_cdc_acm_proccess, TakeSem, GetPacket,
       usbd_cdc_acm_write, HostConfigures, usbd_cdc_acm_set_dtr, usbd_hid_send_report,
       MarkBusy, usbd_hid_int_callback, vars, cdcVars
  <2> QED BY <2>1 DEF Framed
<1> QED BY <1>1, <1>2, <1>3

LEMMA FramedInvariant == Spec => []Framed
BY FramedInitially, FramedStep, Invariance, PTL DEF Spec

\* While the host's read is open after a full packet, a short one is there to
\* end it: usbd_cdc_acm_bulk_in leaves no gap for another packet of the main loop.
THEOREM ReadCanEnd == Spec => [](open => endpoint = <<>>)
<1>1. Framed => (open => endpoint = <<>>)
  BY DEF Framed
<1> QED BY <1>1, FramedInvariant, PTL

\* The main loop waits for the semaphore only while the host has a packet to
\* take: no wait without an end but by the host.
THEOREM WaitsOnlyForHost ==
    Spec => [](pc = "sem_take" /\ cdc_tx_sem = 0 => endpoint # Free)
<1>1. IInv => (pc = "sem_take" /\ cdc_tx_sem = 0 => endpoint # Free)
  BY SMT DEF IInv, OnePacketAtATime
<1> QED BY <1>1, Invariance, PTL

-----------------------------------------------------------------------------
\* All bytes that were accepted and not yet taken by the host.
UnderWay == Offered \o (write_buffer \o rb_cdc_tx)

\* The port as the abstract queue, one packet larger than the ring buffer.
Port == INSTANCE Fifo WITH Capacity <- BufferSize + MaxPacket, queue <- UnderWay

LEMMA UnderWayIs ==
    ASSUME IInv
    PROVE  /\ UnderWay \in Seq(Byte)
           /\ Len(UnderWay) = Len(Offered) + (Len(write_buffer) + Len(rb_cdc_tx))
BY Parts, Regroup, ConcatProperties DEF UnderWay

\* A packet is either with the main loop or with the host.
LEMMA UnderWayFits ==
    ASSUME IInv, Framed
    PROVE  Len(Offered) + Len(write_buffer) <= MaxPacket
<1>1. Len(<<>>) = 0 /\ MaxPacket \in Nat /\ Len(write_buffer) \in Nat /\ Len(Offered) \in Nat
  BY EmptySeq, ConstantsAssumption, Parts, LenProperties
<1>2. CASE pc = "write"
  <2>1. endpoint = Free
    BY <1>2, SMT DEF IInv, TypeOK, OnePacketAtATime
  <2>2. Offered = <<>> /\ Len(write_buffer) <= MaxPacket
    BY <2>1 DEF Offered, IInv, TypeOK
  <2> QED BY <1>1, <2>2, SMT
<1>3. CASE pc # "write"
  <2>1. write_buffer = <<>>
    BY <1>3 DEF IInv, EmptyBuffer
  <2>2. Len(Offered) <= MaxPacket
    BY <1>1, SMT DEF Offered, Framed
  <2> QED BY <1>1, <2>1, <2>2, SMT
<1> QED BY <1>2, <1>3

LEMMA AcceptedIsPut ==
    ASSUME NEW len \in 1..MaxData, IInv, Framed, usbd_cdc_acm_write(len)
    PROVE  Port!Put
<1> DEFINE n == Lesser(len, BufferSize - Len(rb_cdc_tx))
           new == Numbers(accepted + 1, accepted + n)
<1>1. /\ n > 0 /\ accepted + n <= MaxBytes
      /\ rb_cdc_tx' = rb_cdc_tx \o new /\ accepted' = accepted + n
      /\ write_buffer' = write_buffer /\ endpoint' = endpoint
  BY DEF usbd_cdc_acm_write, mainVars
<1>2. /\ Len(rb_cdc_tx) \in Nat /\ Len(rb_cdc_tx) <= BufferSize /\ accepted \in Nat
      /\ BufferSize \in Nat /\ MaxBytes \in Nat /\ MaxPacket \in Nat /\ len \in Nat
      /\ Len(Offered) \in Nat /\ Len(write_buffer) \in Nat
  BY Parts, LenProperties, ConstantsAssumption, SMT DEF IInv, TypeOK
<1>3. n \in Nat /\ n <= BufferSize - Len(rb_cdc_tx)
  <2>1. BufferSize - Len(rb_cdc_tx) \in Nat
    BY <1>2, SMT
  <2> QED BY <2>1, <1>2, LesserIs
<1>4. new = [i \in 1..n |-> accepted + i]
  <2>1. \A m \in Nat : (accepted + m) - (accepted + 1) + 1 = m
    BY <1>2, SMT
  <2>2. \A i \in 1..n : (accepted + 1) + i - 1 = accepted + i
    BY <1>2, <1>3, SMT
  <2> HIDE DEF n
  <2> QED BY <1>3, <2>1, <2>2 DEF Numbers
<1> HIDE DEF n
<1>5. new \in Seq(Byte)
  <2>1. accepted + n \in accepted..MaxBytes
    BY <1>1, <1>2, <1>3, SMT
  <2> QED BY <2>1, <1>2, NumbersAre
<1> HIDE DEF new
<1>6. UnderWay' = UnderWay \o new
  <2>1. Offered' = Offered
    BY <1>1 DEF Offered
  <2>2. write_buffer \in Seq(Byte) /\ rb_cdc_tx \in Seq(Byte) /\ Offered \in Seq(Byte)
    BY Parts
  <2>3. (write_buffer \o rb_cdc_tx) \o new = write_buffer \o (rb_cdc_tx \o new)
    BY <2>2, <1>5, ConcatAssociative
  <2>4. Offered \o ((write_buffer \o rb_cdc_tx) \o new)
          = (Offered \o (write_buffer \o rb_cdc_tx)) \o new
    <3>1. write_buffer \o rb_cdc_tx \in Seq(Byte)
      BY <2>2, ConcatProperties
    <3> QED BY <2>2, <3>1, <1>5, ConcatAssociative
  <2> QED BY <2>1, <2>3, <2>4, <1>1 DEF UnderWay
<1>7. n \in 1..((BufferSize + MaxPacket) - Len(UnderWay))
  BY <1>1, <1>2, <1>3, UnderWayIs, UnderWayFits, SMT
<1> QED BY <1>1, <1>4, <1>6, <1>7 DEF Port!Put

LEMMA TakenIsTake == ASSUME IInv, HostTakesPacket PROVE Port!Take \/ UNCHANGED <<UnderWay, accepted>>
<1> DEFINE rest == write_buffer \o rb_cdc_tx
<1>1. /\ Offered = endpoint /\ Offered' = <<>> /\ accepted' = accepted
      /\ UNCHANGED <<write_buffer, rb_cdc_tx>>
  BY FreeIsNoPacket DEF HostTakesPacket, usbd_cdc_acm_bulk_in, Offered, mainVars
<1>2. rest \in Seq(Byte) /\ Offered \in Seq(Byte)
  BY Parts, Regroup
<1>3. UnderWay' = rest
  BY <1>1, <1>2, Regroup DEF UnderWay
<1>4. UnderWay = Offered \o rest
  BY DEF UnderWay
<1> HIDE DEF rest
<1>5. CASE Offered = <<>>
  BY <1>5, <1>1, <1>2, <1>3, <1>4, Regroup
<1>6. CASE Offered # <<>>
  <2> DEFINE n == Len(Offered)
  <2>1. /\ n \in Nat \ {0} /\ Len(rest) \in Nat
        /\ UnderWay \in Seq(Byte) /\ Len(UnderWay) = n + Len(rest)
        /\ \A i \in 1..(n + Len(rest)) :
              UnderWay[i] = IF i <= n THEN Offered[i] ELSE rest[i - n]
    BY <1>2, <1>4, <1>6, ConcatProperties, EmptySeq, LenProperties, SMT
  <2> HIDE DEF n
  <2>2. n \in 1..Len(UnderWay)
    BY <2>1, SMT
  <2>3. /\ SubSeq(UnderWay, n + 1, Len(UnderWay)) \in Seq(Byte)
        /\ Len(SubSeq(UnderWay, n + 1, Len(UnderWay))) = Len(rest)
        /\ \A i \in 1..Len(rest) :
              SubSeq(UnderWay, n + 1, Len(UnderWay))[i] = UnderWay[n + i]
    BY <2>1, <2>2, SMT
  <2>4. \A i \in 1..Len(rest) : UnderWay[n + i] = rest[i]
    <3> SUFFICES ASSUME NEW i \in 1..Len(rest) PROVE UnderWay[n + i] = rest[i]
      OBVIOUS
    <3>1. n + i \in 1..(n + Len(rest)) /\ ~(n + i <= n) /\ (n + i) - n = i
      BY <2>1, SMT
    <3> QED BY <3>1, <2>1
  <2>5. SubSeq(UnderWay, n + 1, Len(UnderWay)) = rest
    BY <2>3, <2>4, <1>2, SeqEqual
  <2> QED BY <2>2, <2>5, <1>1, <1>3 DEF Port!Take
<1> QED BY <1>5, <1>6

LEMMA MovesWithin ==
    ASSUME IInv, GetPacket \/ WritePacket
    PROVE  UNCHANGED <<UnderWay, accepted>>
<1>1. CASE GetPacket
  <2> DEFINE n == Lesser(MaxPacket, Len(rb_cdc_tx))
  <2>1. rb_cdc_tx \in Seq(Byte) /\ Len(rb_cdc_tx) \in Nat /\ MaxPacket \in Nat
    BY Parts, LenProperties, ConstantsAssumption
  <2>2. n \in 0..Len(rb_cdc_tx)
    <3>1. n \in Nat /\ n <= Len(rb_cdc_tx)
      BY <2>1, LesserIs
    <3> HIDE DEF n
    <3> QED BY <3>1, <2>1, SMT
  <2>3. /\ write_buffer' = SubSeq(rb_cdc_tx, 1, n)
        /\ rb_cdc_tx' = SubSeq(rb_cdc_tx, n + 1, Len(rb_cdc_tx))
        /\ UNCHANGED <<accepted, endpoint>> /\ pc = "get"
    BY <1>1 DEF GetPacket
  <2> HIDE DEF n
  <2>4. write_buffer' \o rb_cdc_tx' = rb_cdc_tx
    BY <2>1, <2>2, <2>3, Split
  <2>5. write_buffer \o rb_cdc_tx = rb_cdc_tx
    BY <2>1, <2>3, Regroup DEF IInv, EmptyBuffer
  <2> QED BY <2>3, <2>4, <2>5 DEF UnderWay, Offered
<1>2. CASE WritePacket
  <2>1. /\ endpoint' = write_buffer /\ write_buffer' = <<>> /\ pc = "write"
        /\ UNCHANGED <<rb_cdc_tx, accepted>>
    BY <1>2 DEF WritePacket
  <2>2. endpoint = Free
    BY <2>1, SMT DEF IInv, TypeOK, OnePacketAtATime
  <2>3. Offered = <<>> /\ Offered' = write_buffer
    BY <2>1, <2>2, Parts, FreeIsNoPacket DEF Offered
  <2>4. write_buffer \o rb_cdc_tx \in Seq(Byte)
    BY Parts, Regroup
  <2>5. UnderWay = write_buffer \o rb_cdc_tx
    BY <2>3, <2>4, Regroup DEF UnderWay
  <2>6. UnderWay' = write_buffer \o rb_cdc_tx
    <3>1. <<>> \o rb_cdc_tx = rb_cdc_tx
      BY Parts, Regroup
    <3> QED BY <3>1, <2>1, <2>3 DEF UnderWay
  <2> QED BY <2>1, <2>5, <2>6
<1> QED BY <1>1, <1>2

\* Ring buffer, main loop, semaphore and endpoint together are one first-in
\* first-out queue from the RF callback to the host, a packet larger than the
\* ring buffer: the host takes the oldest bytes, each once.
THEOREM PortIsFifo == Spec => Port!Spec
<1>1. Init => Port!Init
  <2> SUFFICES ASSUME Init PROVE UnderWay = <<>> /\ accepted = 0
    BY DEF Port!Init
  <2> QED BY Regroup, EmptySeq DEF Init, UnderWay, Offered
<1>2. IInv /\ Framed /\ [Next]_vars => [Port!Next]_<<UnderWay, accepted>>
  <2> SUFFICES ASSUME IInv, Framed, [Next]_vars
               PROVE  Port!Put \/ Port!Take \/ UNCHANGED <<UnderWay, accepted>>
    BY DEF Port!Next
  <2>1. CASE \E len \in 1..MaxData : usbd_cdc_acm_write(len)
    BY <2>1, AcceptedIsPut
  <2>2. CASE HostTakesPacket
    BY <2>2, TakenIsTake
  <2>3. CASE GetPacket \/ WritePacket
    BY <2>3, MovesWithin
  <2>4. CASE \/ TMOS_SystemProcess \/ usbd_cdc_acm_proccess \/ TakeSem \/ HostConfigures
             \/ (\E dtr \in BOOLEAN : usbd_cdc_acm_set_dtr(dtr))
             \/ usbd_hid_send_report \/ MarkBusy \/ usbd_hid_int_callback
             \/ UNCHANGED vars
    <3>1. UNCHANGED <<rb_cdc_tx, accepted, write_buffer, endpoint>>
      BY <2>4 DEF TMOS_SystemProcess, usbd_cdc_acm_proccess, TakeSem, HostConfigures,
         usbd_cdc_acm_set_dtr, usbd_hid_send_report, MarkBusy, usbd_hid_int_callback,
         vars, mainVars, cdcVars
    <3> QED BY <3>1 DEF UnderWay, Offered
  <2> QED BY <2>1, <2>2, <2>3, <2>4 DEF Next, Main
<1> QED BY <1>1, <1>2, Invariance, FramedInvariant, PTL DEF Spec, Port!Spec
=============================================================================
