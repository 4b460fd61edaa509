------------------------- MODULE RingBufferProofs -------------------------
(***************************************************************************)
(* Proofs about RingBuffer for every buffer size, block length and number  *)
(* of bytes: the invariants of MCRingBuffer.cfg and the refinement of Fifo. *)
(***************************************************************************)
EXTENDS RingBuffer, TLAPS

unread == accepted - delivered

\* The mirror bits differ exactly while the writer is a lap ahead.
MirrorsTell ==
    /\ write_index > read_index => write_mirror = read_mirror
    /\ write_index < read_index => write_mirror # read_mirror

\* What an interrupted get relies on: the bytes it counted do not go away.
GetStands ==
    /\ rpc = "full" => unread = N
    /\ rpc = "halffull" => unread >= 1
    /\ rpc \in {"full", "halffull"} => got = <<>>
    /\ rpc # "idle" => length >= 1

IInv ==
    /\ TypeOK
    /\ MirrorsTell
    /\ GetStands
    /\ UnreadKept
    /\ LengthExact
    /\ GotIsOldest

-----------------------------------------------------------------------------
\* A length computed from indices and mirror bits that agree is a length.
LEMMA DataLenRange ==
    ASSUME NEW ri \in 0..(N - 1), NEW wi \in 0..(N - 1),
           NEW rm \in {0, 1}, NEW wm \in {0, 1}
    PROVE  DataLen(ri, rm, wi, wm) \in 0..N
BY ConstantsAssumption, SMT DEF DataLen

\* An index and its mirror bit stay in range.
LEMMA AfterRange ==
    ASSUME NEW index \in 0..(N - 1), NEW m \in {0, 1}, NEW n \in 1..N
    PROVE  /\ IndexAfter(index, n) \in 0..(N - 1)
           /\ MirrorAfter(index, m, n) \in {0, 1}
BY ConstantsAssumption, SMT DEF IndexAfter, MirrorAfter

\* n bytes written are n bytes more, and the mirror bits still tell.
LEMMA Writing ==
    ASSUME NEW ri \in 0..(N - 1), NEW wi \in 0..(N - 1),
           NEW rm \in {0, 1}, NEW wm \in {0, 1},
           wi > ri => wm = rm, wi < ri => wm # rm,
           NEW n \in 1..N, n <= N - DataLen(ri, rm, wi, wm)
    PROVE  /\ DataLen(ri, rm, IndexAfter(wi, n), MirrorAfter(wi, wm, n))
                 = DataLen(ri, rm, wi, wm) + n
           /\ IndexAfter(wi, n) > ri => MirrorAfter(wi, wm, n) = rm
           /\ IndexAfter(wi, n) < ri => MirrorAfter(wi, wm, n) # rm
           /\ wi = Slot(ri, DataLen(ri, rm, wi, wm))
BY ConstantsAssumption, SMT DEF DataLen, IndexAfter, MirrorAfter, Slot

\* n bytes read are n bytes less, and the mirror bits still tell.
LEMMA Reading ==
    ASSUME NEW ri \in 0..(N - 1), NEW wi \in 0..(N - 1),
           NEW rm \in {0, 1}, NEW wm \in {0, 1},
           wi > ri => wm = rm, wi < ri => wm # rm,
           NEW n \in 1..N, n <= DataLen(ri, rm, wi, wm)
    PROVE  /\ DataLen(IndexAfter(ri, n), MirrorAfter(ri, rm, n), wi, wm)
                 = DataLen(ri, rm, wi, wm) - n
           /\ wi > IndexAfter(ri, n) => wm = MirrorAfter(ri, rm, n)
           /\ wi < IndexAfter(ri, n) => wm # MirrorAfter(ri, rm, n)
           /\ \A i \in 0..(N - n - 1) : Slot(IndexAfter(ri, n), i) = Slot(ri, n + i)
BY ConstantsAssumption, SMT DEF DataLen, IndexAfter, MirrorAfter, Slot

\* The n slots after the first u ones are theirs, and no other's.
LEMMA Slots ==
    ASSUME NEW index \in 0..(N - 1), NEW u \in 0..(N - 1), NEW n \in 1..(N - u),
           NEW i \in 0..(u + n - 1)
    PROVE  /\ Slot(index, i) \in 0..(N - 1)
           /\ i < u => ~(Ahead(Slot(index, u), Slot(index, i)) < n)
           /\ i >= u => Ahead(Slot(index, u), Slot(index, i)) = i - u
BY ConstantsAssumption, SMT DEF Slot, Ahead

LEMMA SlotRange ==
    ASSUME NEW index \in 0..(N - 1), NEW i \in 0..(N - 1)
    PROVE  Slot(index, i) \in 0..(N - 1)
BY ConstantsAssumption, SMT DEF Slot

-----------------------------------------------------------------------------
\* The invariant holds in every initial state.
THEOREM Initially == Init => IInv
BY ConstantsAssumption, SMT DEF Init, IInv, TypeOK, MirrorsTell, GetStands, unread,
   UnreadKept, LengthExact, GotIsOldest, DataLen

\* A put leaves every unread byte where it is and appends its own.
LEMMA PutStep ==
    ASSUME IInv, NEW len \in 1..MaxLength, Put(len)
    PROVE  IInv'
<1> DEFINE n == Kept(len, SpaceLen(read_index, read_mirror, write_index, write_mirror))
<1> USE DEF IInv
<1>t. /\ read_index \in 0..(N - 1) /\ write_index \in 0..(N - 1)
      /\ read_mirror \in {0, 1} /\ write_mirror \in {0, 1}
      /\ accepted \in Nat /\ delivered \in Nat /\ N \in Nat \ {0}
      /\ MaxLength \in Nat
  BY ConstantsAssumption DEF TypeOK
<1>u. /\ unread \in 0..N
      /\ DataLen(read_index, read_mirror, write_index, write_mirror) = unread
  BY DEF UnreadKept, LengthExact, unread
<1>n. n \in 1..(N - unread)
  BY <1>t, <1>u, SMT DEF Put, Kept, SpaceLen, Lesser
<1>n2. n \in 1..N /\ unread \in 0..(N - 1)
  BY <1>t, <1>u, <1>n, SMT
<1>v. /\ write_index' = IndexAfter(write_index, n)
      /\ write_mirror' = MirrorAfter(write_index, write_mirror, n)
      /\ accepted' = accepted + n
      /\ buf' = Written(buf, write_index, n, accepted + 1)
      /\ UNCHANGED <<read_mirror, read_index, rpc, length, got, delivered>>
  BY DEF Put
<1>w. unread' = unread + n
  BY <1>v, <1>t, <1>n, SMT DEF unread
<1> HIDE DEF n
<1>m. /\ write_index > read_index => write_mirror = read_mirror
      /\ write_index < read_index => write_mirror # read_mirror
  BY DEF MirrorsTell
<1>a. /\ DataLen(read_index, read_mirror, write_index', write_mirror') = unread + n
      /\ write_index' > read_index => write_mirror' = read_mirror
      /\ write_index' < read_index => write_mirror' # read_mirror
      /\ write_index = Slot(read_index, unread)
  BY <1>t, <1>u, <1>n, <1>n2, <1>v, <1>m, Writing, SMT
<1>r. write_index' \in 0..(N - 1) /\ write_mirror' \in {0, 1}
  BY <1>t, <1>n2, <1>v, AfterRange
<1>b. \A i \in 0..(unread + n - 1) : buf'[Slot(read_index, i)] = delivered + 1 + i
  <2> SUFFICES ASSUME NEW i \in 0..(unread + n - 1)
               PROVE  buf'[Slot(read_index, i)] = delivered + 1 + i
    OBVIOUS
  <2>1. /\ Slot(read_index, i) \in 0..(N - 1)
        /\ i < unread => ~(Ahead(write_index, Slot(read_index, i)) < n)
        /\ i >= unread => Ahead(write_index, Slot(read_index, i)) = i - unread
    BY <1>t, <1>n, <1>n2, <1>a, Slots
  <2>2. CASE i < unread
    <3>1. buf'[Slot(read_index, i)] = buf[Slot(read_index, i)]
      BY <2>1, <2>2, <1>v DEF Written
    <3>2. i \in 0..(unread - 1)
      BY <2>2, <1>u, <1>t, <1>n, SMT
    <3> QED BY <3>1, <3>2 DEF UnreadKept, unread
  <2>3. CASE i >= unread
    <3>1. Ahead(write_index, Slot(read_index, i)) < n
      BY <2>1, <2>3, <1>u, <1>n, <1>t, SMT
    <3>2. buf'[Slot(read_index, i)] = accepted + 1 + (i - unread)
      BY <2>1, <2>3, <3>1, <1>v DEF Written
    <3>3. i \in Int
      BY <1>u, <1>n, <1>t, SMT
    <3> QED BY <3>2, <3>3, <1>t, SMT DEF unread
  <2> QED BY <2>2, <2>3, <1>u, <1>n, <1>t, SMT
<1>1. TypeOK'
  <2>1. buf' \in [0..(N - 1) -> Nat]
    <3>1. \A s \in 0..(N - 1) : Ahead(write_index, s) < n => Ahead(write_index, s) \in Nat
      BY <1>t, SMT DEF Ahead
    <3>2. \A s \in 0..(N - 1) : Ahead(write_index, s) < n
                               => accepted + 1 + Ahead(write_index, s) \in Nat
      BY <3>1, <1>t, SMT
    <3>3. \A s \in 0..(N - 1) : buf[s] \in Nat
      BY DEF TypeOK
    <3> QED BY <1>v, <3>2, <3>3 DEF Written
  <2>2. accepted' \in Nat
    BY <1>v, <1>t, <1>n2, SMT
  <2> QED BY <2>1, <2>2, <1>v, <1>r DEF TypeOK
<1>2. MirrorsTell'
  BY <1>a, <1>v DEF MirrorsTell
<1>3. GetStands'
  <2>1. rpc # "full"
    BY <1>n, <1>u, <1>t, SMT DEF GetStands
  <2>2. rpc = "halffull" => unread' >= 1
    BY <1>w, <1>n, <1>u, <1>t, SMT
  <2> QED BY <2>1, <2>2, <1>v DEF GetStands
<1>4. UnreadKept'
  <2>1. unread' \in 0..N
    BY <1>w, <1>n, <1>u, <1>t, SMT
  <2>2. ASSUME NEW i \in 0..(unread' - 1)
        PROVE  buf'[Slot(read_index', i)] = delivered' + 1 + i
    <3>1. i \in 0..(unread + n - 1)
      BY <1>w, <1>n, <1>u, <1>t, SMT
    <3>2. read_index' = read_index /\ delivered' = delivered
      BY <1>v
    <3> QED BY <3>1, <3>2, <1>b
  <2> QED BY <2>1, <2>2 DEF UnreadKept, unread
<1>5. LengthExact'
  BY <1>a, <1>v, <1>w DEF LengthExact, unread
<1>6. GotIsOldest'
  <2>1. rpc = "copy" => length <= unread'
    <3>1. rpc = "copy" => length <= unread
      BY DEF GotIsOldest, unread
    <3>2. length \in Nat
      BY DEF TypeOK
    <3> QED BY <3>1, <3>2, <1>w, <1>n, <1>u, <1>t, SMT
  <2> QED BY <2>1, <1>v DEF GotIsOldest, unread
<1> QED BY <1>1, <1>2, <1>3, <1>4, <1>5, <1>6

\* The status found stays true until the length is computed from it.
LEMMA ReadStatusStep ==
    ASSUME IInv, NEW want \in 1..MaxLength, ReadStatus(want)
    PROVE  IInv'
<1>t. /\ read_index \in 0..(N - 1) /\ write_index \in 0..(N - 1)
      /\ read_mirror \in {0, 1} /\ write_mirror \in {0, 1}
      /\ accepted \in Nat /\ delivered \in Nat /\ N \in Nat \ {0}
  BY ConstantsAssumption DEF TypeOK, IInv
<1>u. DataLen(read_index, read_mirror, write_index, write_mirror) = unread
  BY DEF IInv, LengthExact, unread
<1>w. want \in Nat /\ want >= 1
  BY ConstantsAssumption, SMT
<1>1. TypeOK'
  BY <1>w, ConstantsAssumption, SMT DEF IInv, TypeOK, ReadStatus
<1>2. MirrorsTell'
  BY DEF IInv, MirrorsTell, ReadStatus
<1>3. GetStands'
  <2>1. rpc' = "full" => unread' = N
    BY <1>t, <1>u, SMT DEF ReadStatus, unread, DataLen
  <2>2. rpc' = "halffull" => unread' >= 1
    BY <1>t, <1>u, SMT DEF ReadStatus, unread, DataLen
  <2> QED BY <2>1, <2>2, <1>w DEF GetStands, ReadStatus
<1>4. UnreadKept' /\ LengthExact'
  BY DEF IInv, UnreadKept, LengthExact, ReadStatus
<1>5. GotIsOldest'
  BY DEF GotIsOldest, ReadStatus
<1> QED BY <1>1, <1>2, <1>3, <1>4, <1>5 DEF IInv

\* Puts that came after the status only make the length larger than needed.
LEMMA ReadLengthStep ==
    ASSUME IInv, ReadLength
    PROVE  IInv'
<1>t. /\ read_index \in 0..(N - 1) /\ write_index \in 0..(N - 1)
      /\ read_mirror \in {0, 1} /\ write_mirror \in {0, 1}
      /\ accepted \in Nat /\ delivered \in Nat /\ N \in Nat \ {0}
      /\ length \in Nat
  BY ConstantsAssumption DEF TypeOK, IInv
<1>u. DataLen(read_index, read_mirror, write_index, write_mirror) = unread
  BY DEF IInv, LengthExact, unread
<1>v. /\ length' = Lesser(length, SizeOf(rpc, read_index, write_index))
      /\ rpc' = "copy" /\ rpc \in {"full", "halffull"}
      /\ UNCHANGED <<buf, read_mirror, read_index, write_mirror, write_index,
                     got, accepted, delivered>>
  BY DEF ReadLength
<1>l. length' \in Nat /\ length' >= 1 /\ length' <= unread
  <2>1. length >= 1
    BY <1>v DEF IInv, GetStands
  <2>2. CASE rpc = "full"
    <3>1. unread = N
      BY <2>2 DEF IInv, GetStands
    <3> QED BY <2>1, <2>2, <3>1, <1>t, <1>v, SMT DEF Lesser, SizeOf
  <2>3. CASE rpc = "halffull"
    <3>1. unread >= 1
      BY <2>3 DEF IInv, GetStands
    <3> QED BY <2>1, <2>3, <3>1, <1>t, <1>u, <1>v, SMT DEF Lesser, SizeOf, DataLen
  <2> QED BY <2>2, <2>3, <1>v
<1>g. got = <<>>
  BY <1>v DEF IInv, GetStands
<1>1. TypeOK'
  BY <1>v, <1>l, <1>g, SMT DEF IInv, TypeOK
<1>2. MirrorsTell'
  BY <1>v DEF IInv, MirrorsTell
<1>3. GetStands'
  BY <1>v, <1>l DEF GetStands
<1>4. UnreadKept' /\ LengthExact'
  BY <1>v DEF IInv, UnreadKept, LengthExact
<1>5. GotIsOldest'
  BY <1>v, <1>l, <1>g, SMT DEF GotIsOldest, unread
<1> QED BY <1>1, <1>2, <1>3, <1>4, <1>5 DEF IInv

\* The next byte copied is the next unread byte.
LEMMA CopyByteStep ==
    ASSUME IInv, CopyByte
    PROVE  IInv'
<1>t. /\ read_index \in 0..(N - 1) /\ buf \in [0..(N - 1) -> Nat]
      /\ accepted \in Nat /\ delivered \in Nat /\ N \in Nat \ {0}
      /\ length \in Nat /\ got \in Seq(Nat) /\ Len(got) \in Nat
  BY ConstantsAssumption DEF TypeOK, IInv
<1>v. /\ rpc = "copy" /\ Len(got) < length
      /\ got' = Append(got, buf[Slot(read_index, Len(got))])
      /\ UNCHANGED <<buf, read_mirror, read_index, write_mirror, write_index,
                     rpc, length, accepted, delivered>>
  BY DEF CopyByte
<1>u. length <= unread /\ unread \in 0..N
  BY <1>v DEF IInv, GotIsOldest, UnreadKept, unread
<1>i. Len(got) \in 0..(unread - 1) /\ Len(got) \in 0..(N - 1)
  BY <1>t, <1>u, <1>v, SMT
<1>b. buf[Slot(read_index, Len(got))] = delivered + 1 + Len(got)
  BY <1>i DEF IInv, UnreadKept, unread
<1>c. delivered + 1 + Len(got) \in Nat
  BY <1>t, SMT
<1>g. /\ got' \in Seq(Nat) /\ Len(got') = Len(got) + 1
      /\ \A i \in 1..Len(got) : got'[i] = got[i]
      /\ got'[Len(got) + 1] = delivered + 1 + Len(got)
  BY <1>t, <1>b, <1>c, <1>v, SMT
<1>1. TypeOK'
  <2>1. Len(got') <= length
    BY <1>g, <1>t, <1>v, SMT
  <2> QED BY <2>1, <1>v, <1>g DEF IInv, TypeOK
<1>2. MirrorsTell' /\ UnreadKept' /\ LengthExact'
  BY <1>v DEF IInv, MirrorsTell, UnreadKept, LengthExact
<1>3. GetStands'
  BY <1>v DEF IInv, GetStands, unread
<1>4. GotIsOldest'
  <2>1. \A i \in 1..Len(got) : got[i] = delivered + i
    BY <1>v DEF IInv, GotIsOldest
  <2>2. ASSUME NEW i \in 1..Len(got') PROVE got'[i] = delivered + i
    <3>1. CASE i = Len(got) + 1
      BY <3>1, <1>g, <1>t, SMT
    <3>2. CASE i # Len(got) + 1
      <4>1. i \in 1..Len(got)
        BY <3>2, <1>g, <1>t, SMT
      <4> QED BY <4>1, <1>g, <2>1
    <3> QED BY <3>1, <3>2
  <2> QED BY <2>2, <1>u, <1>v DEF GotIsOldest, unread
<1> QED BY <1>1, <1>2, <1>3, <1>4 DEF IInv

\* Giving the copied slots back leaves the other unread bytes in place.
LEMMA ReleaseStep ==
    ASSUME IInv, Release
    PROVE  IInv'
<1>t. /\ read_index \in 0..(N - 1) /\ write_index \in 0..(N - 1)
      /\ read_mirror \in {0, 1} /\ write_mirror \in {0, 1}
      /\ accepted \in Nat /\ delivered \in Nat /\ N \in Nat \ {0}
      /\ length \in Nat
  BY ConstantsAssumption DEF TypeOK, IInv
<1>v. /\ rpc = "copy" /\ rpc' = "idle"
      /\ read_mirror' = MirrorAfter(read_index, read_mirror, length)
      /\ read_index' = IndexAfter(read_index, length)
      /\ delivered' = delivered + length
      /\ UNCHANGED <<buf, write_mirror, write_index, length, got, accepted>>
  BY DEF Release
<1>u. /\ unread \in 0..N /\ length <= unread
      /\ DataLen(read_index, read_mirror, write_index, write_mirror) = unread
  BY <1>v DEF IInv, GotIsOldest, UnreadKept, LengthExact, unread
<1>n. length \in 1..N /\ length <= DataLen(read_index, read_mirror, write_index, write_mirror)
  <2>1. length >= 1
    BY <1>v DEF IInv, GetStands
  <2> QED BY <2>1, <1>u, <1>t, SMT
<1>w. unread' = unread - length
  BY <1>v, <1>t, SMT DEF unread
<1>m. /\ write_index > read_index => write_mirror = read_mirror
      /\ write_index < read_index => write_mirror # read_mirror
  BY DEF IInv, MirrorsTell
<1>a. /\ DataLen(read_index', read_mirror', write_index, write_mirror) = unread - length
      /\ write_index > read_index' => write_mirror = read_mirror'
      /\ write_index < read_index' => write_mirror # read_mirror'
      /\ \A i \in 0..(N - length - 1) : Slot(read_index', i) = Slot(read_index, length + i)
  BY <1>t, <1>u, <1>n, <1>v, <1>m, Reading
<1>r. read_index' \in 0..(N - 1) /\ read_mirror' \in {0, 1}
  BY <1>t, <1>n, <1>v, AfterRange
<1>1. TypeOK'
  <2>1. delivered' \in Nat
    BY <1>v, <1>t, SMT
  <2> QED BY <2>1, <1>v, <1>r DEF IInv, TypeOK
<1>2. MirrorsTell'
  BY <1>a, <1>v DEF MirrorsTell
<1>3. GetStands'
  BY <1>v DEF GetStands
<1>4. UnreadKept'
  <2>1. unread' \in 0..N
    BY <1>w, <1>u, <1>t, SMT
  <2>2. ASSUME NEW i \in 0..(unread' - 1)
        PROVE  buf'[Slot(read_index', i)] = delivered' + 1 + i
    <3>1. i \in 0..(N - length - 1) /\ length + i \in 0..(unread - 1) /\ i \in Int
      BY <1>w, <1>u, <1>t, SMT
    <3>2. buf[Slot(read_index, length + i)] = delivered + 1 + (length + i)
      BY <3>1 DEF IInv, UnreadKept, unread
    <3>3. delivered + 1 + (length + i) = delivered' + 1 + i
      BY <3>1, <1>v, <1>t, SMT
    <3> QED BY <3>1, <3>2, <3>3, <1>a, <1>v
  <2> QED BY <2>1, <2>2 DEF UnreadKept, unread
<1>5. LengthExact'
  BY <1>a, <1>v, <1>w DEF LengthExact, unread
<1>6. GotIsOldest'
  BY <1>v DEF GotIsOldest
<1> QED BY <1>1, <1>2, <1>3, <1>4, <1>5, <1>6 DEF IInv

\* Every step of the code, and every stutter, preserves the invariant.
THEOREM Inductive == IInv /\ [Next]_vars => IInv'
<1> SUFFICES ASSUME IInv, [Next]_vars PROVE IInv'
  OBVIOUS
<1>1. ASSUME NEW len \in 1..MaxLength, Put(len) PROVE IInv'
  BY <1>1, PutStep
<1>2. ASSUME NEW want \in 1..MaxLength, ReadStatus(want) PROVE IInv'
  BY <1>2, ReadStatusStep
<1>3. CASE ReadLength
  BY <1>3, ReadLengthStep
<1>4. CASE CopyByte
  BY <1>4, CopyByteStep
<1>5. CASE Release
  BY <1>5, ReleaseStep
<1>6. CASE UNCHANGED vars
  BY <1>6 DEF vars, IInv, TypeOK, MirrorsTell, GetStands, unread, UnreadKept,
     LengthExact, GotIsOldest
<1> QED BY <1>1, <1>2, <1>3, <1>4, <1>5, <1>6 DEF Next

\* So it holds in every reachable state.
THEOREM Invariance == Spec => []IInv
BY Initially, Inductive, PTL DEF Spec

\* The indices stay in the buffer and a get within the block it was asked for.
THEOREM TypeCorrect == Spec => []TypeOK
BY Invariance, PTL DEF IInv

\* ringbuffer.c: what does not fit is discarded; no unread byte is overwritten.
THEOREM UnreadBytesKept == Spec => []UnreadKept
BY Invariance, PTL DEF IInv

\* The indices and mirror bits always tell how many bytes are unread.
THEOREM LengthIsExact == Spec => []LengthExact
BY Invariance, PTL DEF IInv

\* An interrupted get has copied the oldest unread bytes, and only such.
THEOREM GetIsOldest == Spec => []GotIsOldest
BY Invariance, PTL DEF IInv

-----------------------------------------------------------------------------
\* The numbers of u bytes, the first of which follows d.
Run(d, u) == [i \in 1..u |-> d + i]

LEMMA SeqEqual ==
    ASSUME NEW r \in Seq(Nat), NEW t \in Seq(Nat), Len(r) = Len(t),
           \A i \in 1..Len(r) : r[i] = t[i]
    PROVE  r = t
BY SMT

LEMMA RunSeq ==
    ASSUME NEW d \in Nat, NEW u \in Nat
    PROVE  Run(d, u) \in Seq(Nat) /\ Len(Run(d, u)) = u
<1>1. \A i \in 1..u : d + i \in Nat
  OBVIOUS
<1> QED BY <1>1, SMT DEF Run

LEMMA RunAppended ==
    ASSUME NEW d \in Nat, NEW u \in Nat, NEW n \in Nat
    PROVE  Run(d, u + n) = Run(d, u) \o [i \in 1..n |-> d + u + i]
<1> DEFINE q == [i \in 1..n |-> d + u + i]
<1>1. Run(d, u) \in Seq(Nat) /\ Len(Run(d, u)) = u
  BY RunSeq
<1>2. q \in Seq(Nat) /\ Len(q) = n
  <2>1. \A i \in 1..n : d + u + i \in Nat
    OBVIOUS
  <2> QED BY <2>1, SMT
<1>3. /\ Run(d, u + n) \in Seq(Nat) /\ Len(Run(d, u + n)) = u + n
  BY RunSeq
<1>4. ASSUME NEW i \in 1..(u + n)
      PROVE  Run(d, u + n)[i] = (Run(d, u) \o q)[i]
  <2>0. Run(d, u + n)[i] = d + i
    BY DEF Run
  <2>1. CASE i <= u
    <3>1. (Run(d, u) \o q)[i] = Run(d, u)[i] /\ i \in 1..u
      BY <2>1, <1>1, <1>2, SMT
    <3> QED BY <3>1, <2>0 DEF Run
  <2>2. CASE i > u
    <3>1. (Run(d, u) \o q)[i] = q[i - u] /\ i - u \in 1..n
      BY <2>2, <1>1, <1>2, SMT
    <3>2. d + u + (i - u) = d + i
      OBVIOUS
    <3>3. q[i - u] = d + i
      BY <3>1, <3>2
    <3> HIDE DEF q
    <3> QED BY <3>1, <3>3, <2>0
  <2>3. i <= u \/ i > u
    OBVIOUS
  <2> QED BY <2>1, <2>2, <2>3
<1>5. Run(d, u) \o q \in Seq(Nat) /\ Len(Run(d, u) \o q) = u + n
  BY <1>1, <1>2, SMT
<1> HIDE DEF q
<1>6. Run(d, u + n) = Run(d, u) \o q
  <2> DEFINE r == Run(d, u + n)
             t == Run(d, u) \o q
  <2>1. /\ r \in Seq(Nat) /\ t \in Seq(Nat) /\ Len(r) = Len(t)
        /\ \A i \in 1..Len(r) : r[i] = t[i]
    BY <1>3, <1>4, <1>5
  <2> HIDE DEF r, t
  <2>2. r = t
    BY <2>1, SeqEqual
  <2> QED BY <2>2 DEF r, t
<1> QED BY <1>6 DEF q

LEMMA RunTaken ==
    ASSUME NEW d \in Nat, NEW u \in Nat, NEW n \in 0..u
    PROVE  Run(d + n, u - n) = SubSeq(Run(d, u), n + 1, Len(Run(d, u)))
<1>1. Run(d, u) \in Seq(Nat) /\ Len(Run(d, u)) = u
  BY RunSeq
<1>2. Run(d + n, u - n) \in Seq(Nat) /\ Len(Run(d + n, u - n)) = u - n
  <2>1. d + n \in Nat /\ u - n \in Nat
    BY SMT
  <2> QED BY <2>1, RunSeq
<1>3. /\ SubSeq(Run(d, u), n + 1, u) \in Seq(Nat)
      /\ Len(SubSeq(Run(d, u), n + 1, u)) = u - n
  BY <1>1, SMT
<1>4. ASSUME NEW i \in 1..(u - n)
      PROVE  Run(d + n, u - n)[i] = SubSeq(Run(d, u), n + 1, u)[i]
  BY <1>1, SMT DEF Run
<1>5. Run(d + n, u - n) = SubSeq(Run(d, u), n + 1, u)
  BY <1>2, <1>3, <1>4, SMT
<1> QED BY <1>5, <1>1

\* The bytes between the indices are the unread ones.
LEMMA UnreadIsRun ==
    ASSUME IInv
    PROVE  Unread = Run(delivered, unread) /\ delivered \in Nat /\ unread \in 0..N
<1>1. /\ delivered \in Nat /\ unread \in 0..N
      /\ DataLen(read_index, read_mirror, write_index, write_mirror) = unread
  BY DEF IInv, TypeOK, UnreadKept, LengthExact, unread
<1>2. \A i \in 0..(unread - 1) : buf[Slot(read_index, i)] = delivered + 1 + i
  BY DEF IInv, UnreadKept, unread
<1>3. ASSUME NEW i \in 1..unread
      PROVE  buf[Slot(read_index, i - 1)] = delivered + i
  <2>1. i - 1 \in 0..(unread - 1) /\ delivered + 1 + (i - 1) = delivered + i
    BY <1>1, SMT
  <2> QED BY <2>1, <1>2
<1> QED BY <1>1, <1>3 DEF Unread, Run

UnreadInv ==
    /\ Unread = Run(delivered, unread)
    /\ delivered \in Nat /\ unread \in 0..N

LEMMA UnreadInvariant == Spec => []UnreadInv
<1>1. IInv => UnreadInv
  BY UnreadIsRun DEF UnreadInv
<1> QED BY <1>1, Invariance, PTL

\* Put, Release and the other steps as steps of the queue.
LEMMA StepRefines ==
    ASSUME IInv, UnreadInv, UnreadInv', [Next]_vars
    PROVE  [Abstract!Next]_<<Unread, accepted>>
<1>1. /\ Unread = Run(delivered, unread) /\ delivered \in Nat /\ unread \in 0..N
      /\ unread \in Nat /\ N \in Nat /\ accepted \in Nat
      /\ Unread' = Run(delivered', unread')
      /\ Len(Unread) = unread
  <2>1. unread \in Nat /\ N \in Nat
    BY ConstantsAssumption, SMT DEF UnreadInv
  <2> QED BY <2>1, RunSeq DEF UnreadInv, IInv, TypeOK
<1>3. ASSUME NEW len \in 1..MaxLength, Put(len) PROVE Abstract!Put
  <2> DEFINE n == Kept(len, SpaceLen(read_index, read_mirror, write_index, write_mirror))
  <2>1. SpaceLen(read_index, read_mirror, write_index, write_mirror) = N - unread
    BY DEF IInv, LengthExact, SpaceLen, unread
  <2>2. n \in 1..(N - Len(Unread)) /\ n \in Nat
    <3>1. n > 0
      BY <1>3 DEF Put
    <3> QED BY <2>1, <3>1, <1>1, ConstantsAssumption, SMT DEF Kept, Lesser
  <2>3. accepted' = accepted + n /\ delivered' = delivered
    BY <1>3 DEF Put
  <2> HIDE DEF n
  <2>4. unread' = unread + n /\ accepted = delivered + unread
    BY <2>2, <2>3, <1>1, SMT DEF unread
  <2>5. Unread' = Unread \o [i \in 1..n |-> accepted + i]
    <3>1. Run(delivered, unread + n)
             = Run(delivered, unread) \o [i \in 1..n |-> delivered + unread + i]
      BY <2>2, <1>1, RunAppended
    <3>2. Unread' = Run(delivered, unread + n)
      BY <2>3, <2>4, <1>1
    <3> QED BY <3>1, <3>2, <2>4, <1>1
  <2> QED BY <2>2, <2>3, <2>5 DEF Abstract!Put
<1>4. CASE Release
  <2>1. delivered' = delivered + length /\ accepted' = accepted /\ rpc = "copy"
    BY <1>4 DEF Release
  <2>2. length \in Nat /\ length >= 1 /\ length <= unread
    BY <2>1 DEF IInv, TypeOK, GetStands, GotIsOldest, unread
  <2>3. length \in 1..Len(Unread) /\ length \in 0..unread
    BY <2>2, <1>1, SMT
  <2>4. unread' = unread - length
    BY <2>1, <2>2, <1>1, SMT DEF unread
  <2>5. Unread' = SubSeq(Unread, length + 1, Len(Unread))
    BY <2>1, <2>3, <2>4, <1>1, RunTaken
  <2> QED BY <2>1, <2>3, <2>5 DEF Abstract!Take, Abstract!Next
<1>5. ASSUME NEW want \in 1..MaxLength, ReadStatus(want)
      PROVE  UNCHANGED <<Unread, accepted>>
  BY <1>5 DEF ReadStatus, Unread
<1>6. CASE ReadLength
  BY <1>6 DEF ReadLength, Unread
<1>7. CASE CopyByte
  BY <1>7 DEF CopyByte, Unread
<1>8. CASE UNCHANGED vars
  BY <1>8 DEF vars, Unread
<1>9. CASE \E len \in 1..MaxLength : Put(len)
  BY <1>9, <1>3 DEF Abstract!Next
<1>10. CASE Release
  BY <1>10, <1>4 DEF Abstract!Next
<1>11. CASE \E want \in 1..MaxLength : ReadStatus(want)
  BY <1>11, <1>5
<1> QED BY <1>6, <1>7, <1>8, <1>9, <1>10, <1>11 DEF Next

\* Between the interrupt handler and the thread the ring buffer is a
\* first-in first-out queue of N bytes.
THEOREM RefinesFifo == Spec => IsFifo
<1>1. Init => Abstract!Init
  <2> SUFFICES ASSUME Init PROVE Abstract!Init
    OBVIOUS
  <2>1. DataLen(read_index, read_mirror, write_index, write_mirror) = 0
    BY DEF Init, DataLen
  <2>2. Unread = <<>>
    BY <2>1, SMT DEF Unread
  <2> QED BY <2>2 DEF Init, Abstract!Init
<1>2. IInv /\ UnreadInv /\ UnreadInv' /\ [Next]_vars
         => [Abstract!Next]_<<Unread, accepted>>
  BY StepRefines
<1> QED BY <1>1, <1>2, Invariance, UnreadInvariant, PTL DEF Spec, IsFifo, Abstract!Spec
=============================================================================
