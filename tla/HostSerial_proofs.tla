-------------------------- MODULE HostSerial_proofs --------------------------
(***************************************************************************)
(* The reception of the host for any size of its two buffers, any number   *)
(* of bytes and any interleaving of the RX thread with the shell.          *)
(*                                                                         *)
(* InOrder and FreshIsWhole speak of the bytes read; they are invariant    *)
(* because of the bytes on their way: those in the ring buffer, then those *)
(* that the RX thread holds, then those in the kernel are in order, come   *)
(* after the ones read, and with the refused ones are all that came since  *)
(* the last flush.                                                         *)
(***************************************************************************)
EXTENDS HostSerial, RingOrder

\* The places of the ring buffer that hold a byte
Live == IF full THEN FullSpan(RX_BUF_SIZE, first, last) ELSE Span(RX_BUF_SIZE, first, last)

RingBytes == Elements(base, Live)

RingSorted == RisingFrom(base, first, Live)

\* The two threads agree on the buffers
BufferInv ==
    /\ full => first = last
    /\ rx = "push" => inter # <<>>
    /\ rx = "read" => inter = <<>>
    /\ mark <= arrived

\* What was read, the ring buffer, what the RX thread holds and what the kernel
\* has are in order ...
EachSorted == Rising(read) /\ RingSorted /\ Rising(inter) /\ Rising(kernel)

\* ... come in this order ...
Between ==
    /\ Below(Range(read), RingBytes \cup Range(inter) \cup Range(kernel))
    /\ Below(RingBytes, Range(inter) \cup Range(kernel))
    /\ Below(Range(inter), Range(kernel))

Held == Range(read) \cup RingBytes \cup Range(inter) \cup Range(kernel)

\* ... and, outside of a flush and a disconnection, leave out only what came
\* before the last flush and what was refused.
Accounted ==
    /\ Held \subseteq 1 .. arrived
    /\ open /\ main = "idle" => mark + 1 .. arrived \subseteq Held \cup refused

\* The inductive invariant
Inv == TypeOK /\ BufferInv /\ EachSorted /\ Between /\ Accounted /\ FreshIsWhole

-----------------------------------------------------------------------------

\* The next place is the next number, or the first one after the last.
LEMMA Shift ==
    ASSUME NEW idx \in Indexes
    PROVE  shifted_idx(idx) = NextPlace(RX_BUF_SIZE, idx) /\ shifted_idx(idx) \in Indexes
BY HostSerialAssumption, RemainderIsNext DEF shifted_idx, Indexes

\* Types of the variables, as the provers need them
LEMMA Types ==
    ASSUME TypeOK
    PROVE  /\ RX_BUF_SIZE \in Nat /\ RX_BUF_SIZE > 1
           /\ \A i \in Indexes : i \in Int /\ 0 <= i /\ i < RX_BUF_SIZE /\ base[i] \in Int
           /\ 0 \in Indexes /\ first \in Indexes /\ last \in Indexes
           /\ arrived \in Nat /\ mark \in Nat
BY HostSerialAssumption DEF TypeOK, Indexes

\* An operation that leaves the ring buffer alone.
LEMMA SameRing == UNCHANGED ring => RingBytes' = RingBytes /\ (RingSorted => RingSorted')
<1> SUFFICES ASSUME UNCHANGED ring PROVE RingBytes' = RingBytes /\ (RingSorted => RingSorted')
  OBVIOUS
<1>1. base' = base /\ first' = first /\ last' = last /\ full' = full
  BY DEF ring
<1> QED
  BY <1>1 DEF RingBytes, RingSorted, Live

\* An empty ring buffer
LEMMA EmptyRing ==
    ASSUME first' = last', full' = FALSE, first' \in Indexes
    PROVE  RingBytes' = {} /\ RingSorted'
<1>1. Live' = {}
  BY HostSerialAssumption DEF Live, Span, Indexes
<1> QED
  BY <1>1 DEF RingBytes, RingSorted, Elements, RisingFrom

\* A push puts a byte behind the others.
LEMMA PushRing ==
    ASSUME TypeOK, full => first = last, ~full, NEW byte \in Int,
           base' = [base EXCEPT ![last] = byte], last' = shifted_idx(last),
           full' = IsLastPlace, first' = first
    PROVE  /\ RingBytes' = RingBytes \cup {byte}
           /\ RingSorted /\ Below(RingBytes, {byte}) => RingSorted'
<1>1. last' = NextPlace(RX_BUF_SIZE, last) /\ (full' <=> first = last')
  BY Shift, Types DEF IsLastPlace
<1>2. Ring(RX_BUF_SIZE, base, first, last) /\ Stored(base, last, byte, base')
  BY HostSerialAssumption DEF TypeOK, Indexes, Ring, Stored
<1>3. Live = Span(RX_BUF_SIZE, first, last)
  BY DEF Live
<1>4. Live' = FullSpan(RX_BUF_SIZE, first, NextPlace(RX_BUF_SIZE, last))
  BY <1>1 DEF Live, FullSpan
<1>5. RingBytes' = RingBytes \cup {byte}
  BY <1>2, <1>3, <1>4, PushElement DEF RingBytes
<1>6. RingSorted /\ Below(RingBytes, {byte}) => RingSorted'
  BY <1>2, <1>3, <1>4, PushRising DEF RingBytes, RingSorted
<1> QED
  BY <1>5, <1>6

\* A pop takes the byte before the others.
LEMMA PopRing ==
    ASSUME TypeOK, full => first = last, ~IsEmpty, Pop, base' = base, last' = last
    PROVE  /\ RingBytes = RingBytes' \cup {base[first]}
           /\ RingSorted => RingSorted' /\ Below({base[first]}, RingBytes')
<1>1. first' = NextPlace(RX_BUF_SIZE, first) /\ full' = FALSE
  BY Shift, Types DEF Pop
<1>2. Ring(RX_BUF_SIZE, base, first, last)
  BY HostSerialAssumption DEF TypeOK, Indexes, Ring
<1>3. Live = FullSpan(RX_BUF_SIZE, first, last)
  BY DEF Live, FullSpan, IsEmpty
<1>4. Live' = Span(RX_BUF_SIZE, NextPlace(RX_BUF_SIZE, first), last)
  BY <1>1 DEF Live
<1> QED
  BY <1>1, <1>2, <1>3, <1>4, PopElement, PopRising DEF RingBytes, RingSorted

-----------------------------------------------------------------------------

\* What the shell reads does not change, and the mark only moves up.
LEMMA SameRead ==
    ASSUME Inv, TypeOK', read' = read, mark <= mark', refused \subseteq refused'
    PROVE  FreshIsWhole'
<1>1. mark \in Int /\ mark' \in Int /\ read \in Seq(1 .. MaxReceived)
  BY HostSerialAssumption DEF Inv, TypeOK
<1>2. 1 .. MaxReceived \in SUBSET Int
  OBVIOUS
<1>3. \A i \in DOMAIN read : read[i] \in Int /\ i \in Int
  BY <1>1, <1>2, BytePositions
<1> QED
  BY <1>1, <1>3 DEF Inv, FreshIsWhole

\* The bytes numbered so far, as the lemmas on sequences take them
LEMMA Bytes ==
    /\ MaxReceived \in Nat /\ 1 .. MaxReceived \in SUBSET Int
    /\ <<>> \in Seq(1 .. MaxReceived) /\ Range(<<>>) = {} /\ Rising(<<>>)
<1>1. <<>> \in Seq(1 .. MaxReceived) /\ DOMAIN <<>> = {}
  OBVIOUS
<1> QED
  BY <1>1, HostSerialAssumption DEF Range, Rising

\* Nothing has come in the beginning.
LEMMA InitInv == Init => Inv
<1> SUFFICES ASSUME Init PROVE Inv
  OBVIOUS
<1>1. TypeOK
  <2>1. kernel \in Seq(1 .. MaxReceived) /\ inter \in Seq(1 .. MaxReceived) /\ read \in Seq(1 .. MaxReceived)
    BY Bytes DEF Init
  <2>2. base \in [Indexes -> 0 .. MaxReceived]
    BY HostSerialAssumption DEF Init, Indexes
  <2>3. first \in Indexes /\ last \in Indexes /\ arrived \in 0 .. MaxReceived /\ mark \in 0 .. MaxReceived
    BY HostSerialAssumption DEF Init, Indexes
  <2> QED
    BY <2>1, <2>2, <2>3 DEF Init, TypeOK
<1>2. RingBytes = {} /\ RingSorted
  <2>1. Live = {}
    BY HostSerialAssumption DEF Init, Live, Span
  <2> QED
    BY <2>1 DEF RingBytes, RingSorted, Elements, RisingFrom
<1>3. BufferInv
  BY DEF Init, BufferInv
<1>4. EachSorted /\ Between
  BY <1>2, Bytes DEF Init, EachSorted, Between, Below
<1>5. Accounted /\ FreshIsWhole
  BY <1>2, Bytes DEF Init, Accounted, Held, FreshIsWhole
<1> QED
  BY <1>1, <1>3, <1>4, <1>5 DEF Inv

\* A byte comes after all the others.
LEMMA ByteArrivesKeeps == Inv /\ ByteArrives => Inv'
<1> SUFFICES ASSUME Inv, ByteArrives PROVE Inv'
  OBVIOUS
<1> DEFINE byte == arrived + 1
<1>1. /\ arrived \in Nat /\ mark \in Nat /\ byte \in 1 .. MaxReceived /\ mark <= arrived
      /\ kernel \in Seq(1 .. MaxReceived)
  BY Bytes DEF Inv, TypeOK, ByteArrives, BufferInv
<1>2. Below(Held, {byte}) /\ Held \subseteq 1 .. arrived
  BY <1>1 DEF Inv, Accounted, Below
<1>3. Rising(kernel) /\ Below(Range(kernel), {byte})
  BY <1>2 DEF Inv, EachSorted, Held, Below
<1>4. /\ kernel' \in Seq(1 .. MaxReceived) /\ Rising(kernel')
      /\ Range(kernel') = Range(kernel) \cup {byte}
  BY <1>1, <1>3, Bytes, AppendBytes DEF ByteArrives
<1>5. RingBytes' = RingBytes /\ RingSorted'
  BY SameRing DEF ByteArrives, Inv, EachSorted
<1>6. TypeOK'
  BY <1>1, <1>4 DEF Inv, TypeOK, ByteArrives, ring
<1>7. BufferInv'
  BY <1>1 DEF Inv, BufferInv, ByteArrives, ring
<1>8. EachSorted' /\ Between'
  BY <1>2, <1>4, <1>5 DEF Inv, EachSorted, Between, Held, Below, ByteArrives
<1>9. Accounted'
  <2>1. Held' = Held \cup {byte}
    BY <1>4, <1>5 DEF Held, ByteArrives
  <2>2. 1 .. arrived' = 1 .. arrived \cup {byte} /\ mark' + 1 .. arrived' = mark + 1 .. arrived \cup {byte}
    BY <1>1 DEF ByteArrives
  <2> QED
    BY <1>2, <2>1, <2>2 DEF Inv, Accounted, ByteArrives
<1>10. FreshIsWhole'
  BY <1>1, <1>6, SameRead DEF ByteArrives
<1> QED
  BY <1>6, <1>7, <1>8, <1>9, <1>10 DEF Inv

\* The RX thread takes the first bytes of the kernel, with none in hand.
LEMMA RxReadKeeps == Inv /\ RxRead => Inv'
<1> SUFFICES ASSUME Inv, RxRead PROVE Inv'
  OBVIOUS
<1> DEFINE n == Smaller(Len(kernel), RX_INTER_BUF_SIZE)
<1>1. kernel \in Seq(1 .. MaxReceived) /\ n \in 0 .. Len(kernel) /\ n # 0
  <2>1. kernel \in Seq(1 .. MaxReceived) /\ kernel # <<>>
    BY DEF Inv, TypeOK, RxRead
  <2>2. Len(kernel) \in Nat \ {0}
    BY <2>1
  <2> QED
    BY <2>1, <2>2, HostSerialAssumption DEF Smaller
<1>2. /\ inter' \in Seq(1 .. MaxReceived) /\ kernel' \in Seq(1 .. MaxReceived)
      /\ Len(inter') = n /\ Range(kernel) = Range(inter') \cup Range(kernel')
      /\ Rising(inter') /\ Rising(kernel') /\ Below(Range(inter'), Range(kernel'))
  <2>1. inter' = SubSeq(kernel, 1, n) /\ kernel' = SubSeq(kernel, n + 1, Len(kernel))
    BY DEF RxRead
  <2>2. Rising(kernel)
    BY DEF Inv, EachSorted
  <2> HIDE DEF n
  <2>3. LET a == SubSeq(kernel, 1, n)
            b == SubSeq(kernel, n + 1, Len(kernel))
        IN  /\ a \in Seq(1 .. MaxReceived) /\ b \in Seq(1 .. MaxReceived) /\ Len(a) = n
            /\ Range(kernel) = Range(a) \cup Range(b)
            /\ Rising(kernel) => Rising(a) /\ Rising(b) /\ Below(Range(a), Range(b))
    <3>1. 1 .. MaxReceived \in SUBSET Int /\ kernel \in Seq(1 .. MaxReceived) /\ n \in 0 .. Len(kernel)
      BY <1>1
    <3> QED
      BY <3>1, Split
  <2> QED
    BY <2>1, <2>2, <2>3
<1>3. Range(inter) = {}
  BY Bytes DEF Inv, BufferInv, RxRead
<1>4. RingBytes' = RingBytes /\ RingSorted'
  BY SameRing DEF RxRead, Inv, EachSorted
<1>5. TypeOK'
  BY <1>2 DEF Inv, TypeOK, RxRead, ring
<1>6. BufferInv'
  <2>1. inter' # <<>>
    BY <1>1, <1>2
  <2> QED
    BY <2>1 DEF Inv, BufferInv, RxRead, ring
<1>7. EachSorted' /\ Between'
  BY <1>2, <1>4 DEF Inv, EachSorted, Between, Below, RxRead
<1>8. Accounted'
  <2>1. Held' = Held
    BY <1>2, <1>3, <1>4 DEF Held, RxRead
  <2> QED
    BY <2>1 DEF Inv, Accounted, RxRead
<1>9. FreshIsWhole'
  <2>1. read' = read /\ mark <= mark' /\ refused \subseteq refused'
    BY DEF RxRead, Inv, TypeOK
  <2> QED
    BY <1>5, <2>1, SameRead
<1> QED
  BY <1>5, <1>6, <1>7, <1>8, <1>9 DEF Inv

\* The first byte in hand goes behind those of the ring buffer, or is refused.
LEMMA RxPushKeeps == Inv /\ RxPush => Inv'
<1> SUFFICES ASSUME Inv, RxPush PROVE Inv'
  OBVIOUS
<1> DEFINE byte == Head(inter)
<1>1. inter \in Seq(1 .. MaxReceived) /\ inter # <<>> /\ Rising(inter)
  BY DEF Inv, TypeOK, BufferInv, EachSorted, RxPush
<1>2. /\ byte \in 1 .. MaxReceived /\ inter' \in Seq(1 .. MaxReceived)
      /\ Range(inter) = {byte} \cup Range(inter')
      /\ Rising(inter') /\ Below({byte}, Range(inter'))
  BY <1>1, Bytes, HeadTail DEF RxPush
<1>3. Below(RingBytes, {byte}) /\ Below({byte}, Range(kernel))
  BY <1>2 DEF Inv, Between, Below
<1>4. /\ RingSorted'
      /\ \/ RingBytes' = RingBytes /\ refused' = refused \cup {byte}
         \/ RingBytes' = RingBytes \cup {byte} /\ refused' = refused
  <2>1. CASE full
    BY <2>1, SameRing DEF RxPush, Inv, EachSorted
  <2>2. CASE ~full
    <3>1. /\ TypeOK /\ (full => first = last) /\ byte \in Int /\ RingSorted
          /\ base' = [base EXCEPT ![last] = byte] /\ last' = shifted_idx(last)
          /\ full' = IsLastPlace /\ first' = first /\ refused' = refused
      BY <1>2, <2>2 DEF Inv, BufferInv, EachSorted, RxPush
    <3> QED
      BY <1>3, <2>2, <3>1, PushRing
  <2> QED
    BY <2>1, <2>2
<1>5. TypeOK'
  <2>1. CASE full
    BY <1>2, <2>1 DEF Inv, TypeOK, RxPush, ring
  <2>2. CASE ~full
    <3>1. shifted_idx(last) \in Indexes
      BY Shift DEF Inv, TypeOK
    <3>2. base' \in [Indexes -> 0 .. MaxReceived]
      BY SMTT(20), <1>2, <2>2 DEF Inv, TypeOK, RxPush
    <3>3. full' \in BOOLEAN
      BY <2>2 DEF RxPush, IsLastPlace
    <3> QED
      BY <1>2, <2>2, <3>1, <3>2, <3>3 DEF Inv, TypeOK, RxPush
  <2> QED
    BY <2>1, <2>2
<1>6. BufferInv'
  <2> DEFINE others == Tail(inter)
  <2>1. others \in Seq(1 .. MaxReceived) /\ Len(others) = Len(inter) - 1
    BY <1>1
  <2>2. (rx' = "push" => inter' # <<>>) /\ (rx' = "read" => inter' = <<>>)
    <3>1. Len(inter) = 1 <=> Len(others) = 0
      BY <1>1, <2>1
    <3>2. Len(others) = 0 <=> others = <<>>
      <4> HIDE DEF others
      <4> QED
        BY <2>1
    <3>3. inter' = others /\ rx' = IF Len(inter) = 1 THEN "read" ELSE "push"
      BY DEF RxPush
    <3> QED
      BY <3>1, <3>2, <3>3
  <2>3. full' => first' = last'
    <3>1. CASE full
      BY <3>1 DEF Inv, BufferInv, RxPush, ring
    <3>2. CASE ~full
      BY <3>2 DEF RxPush, IsLastPlace
    <3> QED
      BY <3>1, <3>2
  <2> QED
    BY <2>2, <2>3 DEF Inv, BufferInv, RxPush
<1>7. EachSorted' /\ Between'
  BY <1>2, <1>3, <1>4 DEF Inv, EachSorted, Between, Below, RxPush
<1>8. Accounted'
  <2>1. Held' \subseteq Held /\ Held \cup refused \subseteq Held' \cup refused'
    BY <1>2, <1>4 DEF Held, RxPush
  <2> QED
    BY <2>1 DEF Inv, Accounted, RxPush
<1>9. FreshIsWhole'
  <2>1. read' = read /\ mark' = mark /\ refused \subseteq refused' /\ mark <= mark'
    BY <1>4 DEF RxPush, Inv, TypeOK
  <2> QED
    BY <1>5, <2>1, SameRead
<1> QED
  BY <1>5, <1>6, <1>7, <1>8, <1>9 DEF Inv

\* The shell reads the byte that comes after all it has read: those between
\* that came since the last flush were refused.
LEMMA serial_rxKeeps == Inv /\ serial_rx => Inv'
<1> SUFFICES ASSUME Inv, serial_rx PROVE Inv'
  OBVIOUS
<1> DEFINE byte == base[first]
<1>1. /\ RingBytes = RingBytes' \cup {byte}
      /\ RingSorted' /\ Below({byte}, RingBytes')
  <2>1. /\ TypeOK /\ (full => first = last) /\ RingSorted
        /\ ~IsEmpty /\ Pop /\ base' = base /\ last' = last
    BY DEF Inv, BufferInv, EachSorted, serial_rx
  <2> QED
    BY <2>1, PopRing
<1>2. byte \in 1 .. MaxReceived /\ byte <= arrived
  <2>1. byte \in 1 .. arrived /\ arrived \in 0 .. MaxReceived
    BY <1>1 DEF Inv, TypeOK, Accounted, Held
  <2> QED
    BY <2>1, HostSerialAssumption
<1>3. read \in Seq(1 .. MaxReceived) /\ Rising(read) /\ Below(Range(read), {byte})
  BY <1>1 DEF Inv, TypeOK, EachSorted, Between, Below
<1>4. /\ read' \in Seq(1 .. MaxReceived) /\ Rising(read')
      /\ Range(read') = Range(read) \cup {byte}
  BY <1>2, <1>3, Bytes, AppendBytes DEF serial_rx
<1>5. TypeOK'
  BY <1>4, Shift DEF Inv, TypeOK, serial_rx, Pop
<1>6. BufferInv'
  BY DEF Inv, BufferInv, serial_rx, Pop
<1>7. EachSorted' /\ Between'
  BY <1>1, <1>4 DEF Inv, EachSorted, Between, Below, serial_rx
<1>8. Accounted'
  <2>1. Held' = Held
    BY <1>1, <1>4 DEF Held, serial_rx
  <2> QED
    BY <2>1 DEF Inv, Accounted, serial_rx
<1>9. FreshIsWhole'
  <2>1. ASSUME NEW i \in DOMAIN read',
               NEW b \in (IF i = 1 THEN 0 ELSE read'[i - 1]) + 1 .. read'[i] - 1
        PROVE  b <= mark \/ b \in refused
    <3>1. /\ i \in Int /\ Len(read) \in Nat /\ DOMAIN read = 1 .. Len(read)
          /\ i \in 1 .. Len(read) + 1 /\ read'[Len(read) + 1] = byte
          /\ \A k \in 1 .. Len(read) : read'[k] = read[k] /\ read[k] \in Int
      <4>1. read' = Append(read, byte) /\ byte \in 1 .. MaxReceived
        BY <1>2 DEF serial_rx
      <4>2. Len(read') = Len(read) + 1 /\ DOMAIN read' = 1 .. Len(read')
        BY <1>3, <1>4, <4>1
      <4>3. Len(read) \in Nat /\ DOMAIN read = 1 .. Len(read)
        BY <1>3
      <4>4. read'[Len(read) + 1] = byte /\ \A k \in 1 .. Len(read) : read'[k] = read[k]
        BY <1>3, <4>1
      <4>5. \A k \in 1 .. Len(read) : read[k] \in Int
        BY <1>3, <4>3, Bytes, BytePositions
      <4> QED
        BY <2>1, <4>2, <4>3, <4>4, <4>5
    <3>2. CASE i \in DOMAIN read
      <4>1. read'[i] = read[i] /\ (i # 1 => read'[i - 1] = read[i - 1])
        BY <3>1, <3>2
      <4> QED
        BY <2>1, <3>2, <4>1 DEF Inv, FreshIsWhole
    <3>3. CASE i = Len(read) + 1
      <4>1. b \in Int /\ b < byte /\ 0 < b
        <5>1. ASSUME i # 1 PROVE read'[i - 1] \in Int /\ 0 < read'[i - 1]
          <6>1. i - 1 \in DOMAIN read /\ read'[i - 1] = read[i - 1]
            BY <3>1, <3>3, <5>1
          <6>2. read[i - 1] \in 1 .. arrived
            BY <6>1 DEF Inv, Accounted, Held, Range
          <6> QED
            BY <6>1, <6>2
        <5> QED
          BY <1>2, <2>1, <3>1, <3>3, <5>1
      <4>2. \A a \in Range(read) : a < b
        <5>1. ASSUME NEW k \in DOMAIN read PROVE read[k] < b
          <6>1. i # 1 /\ i - 1 \in DOMAIN read /\ read'[i - 1] = read[i - 1] /\ k <= i - 1
            BY <3>1, <3>3
          <6>2. read[i - 1] < b /\ read[i - 1] \in Int /\ read[k] \in Int
            BY <2>1, <3>1, <3>3, <6>1, <1>2
          <6>3. k = i - 1 \/ read[k] < read[i - 1]
            BY <1>3, <3>1, <6>1 DEF Rising
          <6> QED
            BY <4>1, <6>2, <6>3
        <5> QED
          BY <5>1 DEF Range
      <4>3. b \notin Range(read) /\ b \notin RingBytes'
        BY <1>1, <1>2, <4>1, <4>2 DEF Below
      <4>4. b \notin Range(inter) /\ b \notin Range(kernel) /\ b # byte
        <5>1. \A a \in Range(inter) \cup Range(kernel) : byte < a
          BY <1>1 DEF Inv, Between, Below
        <5> HIDE DEF byte
        <5> QED
          BY <1>2, <4>1, <5>1
      <4>5. b \notin Held
        BY <1>1, <4>3, <4>4 DEF Held
      <4>6. b \in mark + 1 .. arrived => b \in refused
        BY <4>5 DEF Inv, Accounted, serial_rx
      <4>7. mark \in Int /\ arrived \in Int
        BY DEF Inv, TypeOK
      <4> QED
        BY <1>2, <4>1, <4>6, <4>7
    <3> QED
      BY <3>1, <3>2, <3>3
  <2>2. mark' = mark /\ refused' = refused
    BY DEF serial_rx
  <2> QED
    BY <2>1, <2>2 DEF FreshIsWhole
<1> QED
  BY <1>5, <1>6, <1>7, <1>8, <1>9 DEF Inv

\* The steps that only drop bytes, and leave the bytes missing to the mark.
LEMMA DropKeeps ==
    ASSUME Inv, TypeOK', BufferInv', RingBytes' \subseteq RingBytes, RingSorted',
           inter' = inter \/ inter' = <<>>, kernel' = kernel \/ kernel' = <<>>,
           read' = read, refused' = refused, arrived' = arrived, mark <= mark',
           open' /\ main' = "idle" => mark' = arrived
    PROVE  Inv'
<1>1. /\ Range(inter') \subseteq Range(inter) /\ Rising(inter')
      /\ Range(kernel') \subseteq Range(kernel) /\ Rising(kernel')
  BY Bytes DEF Inv, EachSorted
<1>2. EachSorted' /\ Between'
  BY <1>1 DEF Inv, EachSorted, Between, Below
<1>3. Accounted'
  <2>1. Held' \subseteq Held
    BY <1>1 DEF Held
  <2>2. open' /\ main' = "idle" => mark' + 1 .. arrived' = {}
    BY DEF Inv, TypeOK
  <2> QED
    BY <2>1, <2>2 DEF Inv, Accounted
<1> QED
  BY <1>2, <1>3, SameRead DEF Inv

\* The steps that throw bytes away, a flush or a connection, only move the mark.
LEMMA DropsKeep ==
    Inv /\ (FlushRing \/ FlushKernel \/ serial_open \/ CancelThread \/ JoinThread) => Inv'
<1> SUFFICES ASSUME Inv PROVE (FlushRing \/ FlushKernel \/ serial_open \/ CancelThread \/ JoinThread) => Inv'
  OBVIOUS
<1>1. /\ TypeOK /\ BufferInv /\ RingSorted /\ mark \in Nat /\ arrived \in Nat /\ mark <= arrived
      /\ <<>> \in Seq(1 .. MaxReceived)
  BY Bytes DEF Inv, EachSorted, BufferInv, TypeOK
<1>2. ASSUME FlushRing PROVE Inv'
  <2>1. TypeOK' /\ BufferInv' /\ mark <= mark'
    <3>1. TypeOK'
      BY <1>1, <1>2 DEF TypeOK, FlushRing, Flush
    <3> QED
      BY <1>1, <1>2, <3>1 DEF BufferInv, FlushRing, Flush
  <2>2. RingBytes' = {} /\ RingSorted'
    BY <1>1, <1>2, EmptyRing DEF TypeOK, FlushRing, Flush
  <2> QED
    BY <1>2, <2>1, <2>2, DropKeeps DEF FlushRing
<1>3. ASSUME FlushKernel PROVE Inv'
  <2>1. TypeOK' /\ BufferInv' /\ mark <= mark'
    BY <1>1, <1>3 DEF TypeOK, BufferInv, FlushKernel, ring
  <2>2. RingBytes' = RingBytes /\ RingSorted'
    BY <1>1, <1>3, SameRing DEF FlushKernel
  <2> QED
    BY <1>3, <2>1, <2>2, DropKeeps DEF FlushKernel
<1>4. ASSUME serial_open PROVE Inv'
  <2>1. BufferInv' /\ mark <= mark'
    BY <1>1, <1>4 DEF BufferInv, serial_open
  <2>2. TypeOK'
    <3>1. base' \in [Indexes -> 0 .. MaxReceived] /\ 0 \in Indexes
      BY <1>4, HostSerialAssumption DEF serial_open, Indexes
    <3> QED
      BY <1>1, <1>4, <3>1 DEF TypeOK, serial_open
  <2>3. RingBytes' = {} /\ RingSorted'
    BY <1>4, <2>2, EmptyRing DEF TypeOK, serial_open
  <2> QED
    BY <1>4, <2>1, <2>2, <2>3, DropKeeps DEF serial_open
<1>5. ASSUME CancelThread PROVE Inv'
  <2>1. TypeOK' /\ BufferInv' /\ mark <= mark'
    BY <1>1, <1>5 DEF TypeOK, BufferInv, CancelThread, ring
  <2>2. RingBytes' = RingBytes /\ RingSorted'
    BY <1>1, <1>5, SameRing DEF CancelThread
  <2> QED
    BY <1>5, <2>1, <2>2, DropKeeps DEF CancelThread
<1>6. ASSUME JoinThread PROVE Inv'
  <2>1. TypeOK' /\ BufferInv' /\ mark <= mark'
    <3>1. TypeOK'
      BY <1>1, <1>6 DEF TypeOK, JoinThread, ring
    <3> QED
      BY <1>1, <1>6, <3>1 DEF BufferInv, JoinThread, ring
  <2>2. RingBytes' = RingBytes /\ RingSorted'
    BY <1>1, <1>6, SameRing DEF JoinThread
  <2> QED
    BY <1>6, <2>1, <2>2, DropKeeps DEF JoinThread
<1> QED
  BY <1>2, <1>3, <1>4, <1>5, <1>6

\* The steps that move no byte
LEMMA SameKeeps == Inv /\ (RxCancel \/ UNCHANGED vars) => Inv'
<1> SUFFICES ASSUME Inv, RxCancel \/ UNCHANGED vars PROVE Inv'
  OBVIOUS
<1>1. /\ open' = open /\ kernel' = kernel /\ inter' = inter /\ UNCHANGED ring
      /\ main' = main /\ arrived' = arrived /\ mark' = mark /\ read' = read
      /\ refused' = refused /\ rx' \in {rx, "none"}
  BY DEF RxCancel, vars
<1>2. TypeOK' /\ BufferInv'
  BY <1>1 DEF Inv, TypeOK, BufferInv, ring
<1>3. RingBytes' = RingBytes /\ RingSorted'
  BY <1>1, SameRing DEF Inv, EachSorted
<1>4. EachSorted' /\ Between'
  BY <1>1, <1>3 DEF Inv, EachSorted, Between
<1>5. Accounted' /\ FreshIsWhole'
  BY <1>1, <1>3 DEF Inv, Accounted, Held, FreshIsWhole
<1> QED
  BY <1>2, <1>4, <1>5 DEF Inv

\* The inductive invariant of the reception of the host.
LEMMA Invariance == Spec => []Inv
<1>1. Inv /\ [Next]_vars => Inv'
  BY ByteArrivesKeeps, RxReadKeeps, RxPushKeeps, serial_rxKeeps, DropsKeep, SameKeeps
     DEF Next, RxThread, Shell
<1> QED
  BY InitInv, <1>1, PTL DEF Spec

\* The types of the host's serial layer are right in every reachable state.
THEOREM HostTypes == Spec => []TypeOK
<1>1. Inv => TypeOK
  BY DEF Inv
<1> QED
  BY <1>1, Invariance, PTL

\* No flush, reconnection or schedule of the two threads makes the shell read
\* a byte twice or out of order.
THEOREM HostReadsInOrder == Spec => []InOrder
<1>1. Inv => InOrder
  <2> SUFFICES ASSUME Inv, NEW i \in 2 .. Len(read) PROVE read[i - 1] < read[i]
    BY DEF InOrder
  <2>1. i - 1 \in DOMAIN read /\ i \in DOMAIN read /\ i - 1 < i
    BY DEF Inv, TypeOK
  <2> QED
    BY <2>1 DEF Inv, EachSorted, Rising
<1> QED
  BY <1>1, Invariance, PTL

\* Of what comes after a flush, only the bytes that the full ring buffer
\* refused are missing from what the shell reads.
THEOREM HostReadsAllFresh == Spec => []FreshIsWhole
<1>1. Inv => FreshIsWhole
  BY DEF Inv
<1> QED
  BY <1>1, Invariance, PTL
=============================================================================
