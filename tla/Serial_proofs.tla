---------------------------- MODULE Serial_proofs ----------------------------
(***************************************************************************)
(* The serial layer of the AVR for any size of its two buffers and any     *)
(* sequence of calls, wherever the interrupts come.                        *)
(*                                                                         *)
(* Transmission. TxExact is not inductive: it needs to know what is in     *)
(* tx_buffer, and which of it went out.                                    *)
(*                                                                         *)
(* Reception. ReadsInOrder is about the bytes read; it is invariant        *)
(* because of those on their way, in the receiver and in the ring buffer,  *)
(* which come in order and after the ones read. The steps of ByteQueue are *)
(* found by listing the ring buffer from the byte that is read next, the   *)
(* one that serial_rx is taking left out.                                  *)
(***************************************************************************)
EXTENDS Serial, RingOrder

\* The bytes before those of the transmission that goes on
Earlier == written - tx_to_transmit

\* tx_buffer holds the last bytes written and tx_transmitted is the place of
\* the one that is going out
Transmitting ==
    /\ tx_to_transmit \in Nat /\ tx_transmitted \in Nat
    /\ tx_transmitted < tx_to_transmit
    /\ tx_buffer = [i \in 0 .. tx_to_transmit - 1 |-> Earlier + i + 1]
    /\ Len(wire) = Earlier + tx_transmitted + 1

\* The inductive invariant: what is on the line between two transmissions, and
\* during one
TxInv ==
    /\ written \in Nat /\ wire \in Seq(Int) /\ tx_ongoing \in BOOLEAN
    /\ TxExact
    /\ tx_ongoing => Transmitting
    /\ ~tx_ongoing => Len(wire) = written

\* Nothing is written or sent at first.
LEMMA InitTxInv == Init => TxInv
<1> SUFFICES ASSUME Init PROVE TxInv
  OBVIOUS
<1>1. written = 0 /\ wire = <<>> /\ tx_ongoing = FALSE
  BY DEF Init
<1>2. wire \in Seq(Int) /\ Len(wire) = 0 /\ TxExact
  BY <1>1 DEF TxExact
<1> QED
  BY <1>1, <1>2 DEF TxInv

\* Appending the number that comes next keeps the line exact.
LEMMA AppendNext ==
    ASSUME NEW s \in Seq(Int), \A i \in DOMAIN s : s[i] = i
    PROVE  /\ Append(s, Len(s) + 1) \in Seq(Int)
           /\ Len(Append(s, Len(s) + 1)) = Len(s) + 1
           /\ \A i \in DOMAIN Append(s, Len(s) + 1) : Append(s, Len(s) + 1)[i] = i
OBVIOUS

\* serial_tx waits for the previous transmission, so that all that was written
\* before is out when it sends its first byte.
LEMMA SerialTxKeeps ==
    ASSUME TxInv, NEW size \in 1 .. TX_BUFFER_SIZE, serial_tx(size)
    PROVE  TxInv'
<1>1. TX_BUFFER_SIZE \in Nat /\ size \in Nat /\ size > 0
  BY SerialAssumption
<1>2. ~tx_ongoing /\ Len(wire) = written
  BY DEF serial_tx, TxFree, TxInv
<1>3. /\ written' = written + size /\ wire' = Append(wire, Len(wire) + 1)
      /\ tx_ongoing' = TRUE /\ tx_to_transmit' = size /\ tx_transmitted' = 0
      /\ tx_buffer' = [i \in 0 .. size - 1 |-> written + i + 1]
  BY <1>2 DEF serial_tx
<1>4. wire' \in Seq(Int) /\ Len(wire') = written + 1 /\ TxExact'
  BY <1>2, <1>3, AppendNext DEF TxInv, TxExact
<1>5. Earlier' = written
  BY <1>1, <1>3 DEF Earlier, TxInv
<1>6. Transmitting'
  BY <1>1, <1>3, <1>4, <1>5 DEF Transmitting, TxInv
<1> QED
  BY <1>1, <1>3, <1>4, <1>6 DEF TxInv

\* The transmit interrupt sends the next byte of the buffer, or ends.
LEMMA TxIsrKeeps == ASSUME TxInv, TxIsr PROVE TxInv'
<1>1. tx_ongoing /\ Transmitting
  BY DEF TxIsr, TxInv
<1>2. written' = written /\ tx_buffer' = tx_buffer
  BY DEF TxIsr
<1>3. CASE TxMore
  <2>1. /\ tx_transmitted' = tx_transmitted + 1 /\ tx_to_transmit' = tx_to_transmit
        /\ tx_ongoing' = TRUE /\ wire' = Append(wire, tx_buffer[tx_transmitted + 1])
    BY <1>1, <1>3 DEF TxIsr
  <2>2. tx_buffer[tx_transmitted + 1] = Len(wire) + 1
    BY <1>1, <1>3 DEF Transmitting, TxMore, Earlier, TxInv
  <2>3. wire' \in Seq(Int) /\ Len(wire') = Len(wire) + 1 /\ TxExact'
    BY <2>1, <2>2, AppendNext DEF TxInv, TxExact
  <2>4. Earlier' = Earlier
    BY <1>2, <2>1 DEF Earlier
  <2>5. Transmitting'
    BY <1>1, <1>2, <1>3, <2>1, <2>3, <2>4 DEF Transmitting, TxMore, Earlier, TxInv
  <2> QED
    BY <1>2, <2>1, <2>3, <2>5 DEF TxInv
<1>4. CASE ~TxMore
  <2>1. tx_ongoing' = FALSE /\ wire' = wire
    BY <1>4 DEF TxIsr
  <2>2. Len(wire) = written
    BY <1>1, <1>4 DEF Transmitting, TxMore, Earlier, TxInv
  <2> QED
    BY <1>2, <2>1, <2>2 DEF TxInv, TxExact
<1> QED
  BY <1>3, <1>4

\* The reception side, whatever it does, and stuttering.
LEMMA OtherKeeps == ASSUME TxInv, UNCHANGED txVars PROVE TxInv'
BY DEF TxInv, TxExact, Transmitting, Earlier, txVars

\* Every step of the main loop and of the interrupts keeps the invariant.
LEMMA NextTxInv == TxInv /\ [Next]_vars => TxInv'
<1> SUFFICES ASSUME TxInv, [Next]_vars PROVE TxInv'
  OBVIOUS
<1>1. CASE ByteArrives \/ RxIsr \/ serial_rx \/ serial_rx_reset
  <2>1. UNCHANGED txVars
    BY <1>1 DEF ByteArrives, RxIsr, serial_rx, serial_rx_reset, RxStart, RxIsEmpty,
                RxPop, RxAdvance, RxNotFull
  <2> QED
    BY <2>1, OtherKeeps
<1>2. CASE TxIsr
  BY <1>2, TxIsrKeeps
<1>3. ASSUME NEW size \in 1 .. TX_BUFFER_SIZE, serial_tx(size) PROVE TxInv'
  BY <1>3, SerialTxKeeps
<1>4. CASE UNCHANGED vars
  BY <1>4, OtherKeeps DEF vars
<1> QED
  BY <1>1, <1>2, <1>3, <1>4 DEF Next

\* What goes out on the line is what serial_tx was given, whole and in order.
THEOREM TransmissionExact == Spec => []TxExact
<1>1. TxInv => TxExact
  BY DEF TxInv
<1> QED
  BY <1>1, InitTxInv, NextTxInv, PTL DEF Spec

-----------------------------------------------------------------------------
(***************************************************************************)
(* The reception side.  Between the two assignments of ringbuffer_pop the  *)
(* byte at first is read already and full means nothing, so that the ring  *)
(* that matters is not the one the fields describe: it starts at front,    *)
(* and is whole only if full is set and first has not moved.               *)
(***************************************************************************)

front == IF pc = "advance" THEN NextPlace(RX_BUFFER_SIZE, first) ELSE first

Whole == full /\ first = last /\ pc # "advance"

\* The places that hold a byte not read yet
Live == IF Whole THEN FullSpan(RX_BUFFER_SIZE, first, last)
                 ELSE Span(RX_BUFFER_SIZE, front, last)

RingBytes == Elements(base, Live)

RingSorted == RisingFrom(base, front, Live)

\* What was read, without the garbage
Kept == Range(read) \ {Garbage}

RxTypes ==
    /\ base \in [Indexes -> 0 .. MaxReceived]
    /\ first \in Indexes /\ last \in Indexes /\ full \in BOOLEAN
    /\ received \in 0 .. MaxReceived
    /\ read \in Seq(0 .. MaxReceived)
    /\ pc \in {"idle", "isempty", "pop", "advance", "notfull"}
    /\ seen_full \in BOOLEAN /\ udr \in Seq(1 .. MaxReceived) /\ Len(udr) <= 2
    /\ filled \in BOOLEAN

\* What serial_rx knows at each of its steps, whatever the interrupt did since
Control ==
    /\ full => filled /\ (first = last \/ pc = "notfull")
    /\ pc \in {"isempty", "pop"} /\ seen_full => full
    /\ pc \in {"pop", "advance"} => full \/ first # last

\* What was read, what the ring buffer holds and what the receiver holds are in
\* order, and come in this order.
RxOrder ==
    /\ ReadsInOrder /\ RingSorted /\ Rising(udr)
    /\ Below(Kept, RingBytes \cup Range(udr)) /\ Below(RingBytes, Range(udr))
    /\ Kept \cup RingBytes \cup Range(udr) \subseteq 1 .. received

\* The inductive invariant of the reception
RxInv == RxTypes /\ Control /\ RxOrder

\* The bytes numbered so far, as the lemmas on sequences take them
LEMMA Bytes ==
    /\ MaxReceived \in Nat /\ 1 .. MaxReceived \in SUBSET Int /\ 0 .. MaxReceived \in SUBSET Int
    /\ <<>> \in Seq(1 .. MaxReceived) /\ <<>> \in Seq(0 .. MaxReceived)
    /\ Range(<<>>) = {} /\ Rising(<<>>) /\ Len(<<>>) = 0
<1>1. /\ <<>> \in Seq(1 .. MaxReceived) /\ <<>> \in Seq(0 .. MaxReceived)
      /\ DOMAIN <<>> = {} /\ Len(<<>>) = 0
  OBVIOUS
<1> QED
  BY <1>1, SerialAssumption DEF Range, Rising

\* The next place is the next number, or the first one after the last.
LEMMA Shift ==
    ASSUME NEW idx \in Indexes
    PROVE  shifted_idx(idx) = NextPlace(RX_BUFFER_SIZE, idx) /\ shifted_idx(idx) \in Indexes
BY SerialAssumption, RemainderIsNext DEF shifted_idx, Indexes

\* The ring buffer keeps the shape of one, seen from the byte that serial_rx takes too.
LEMMA RingTypes ==
    ASSUME RxTypes
    PROVE  /\ Ring(RX_BUFFER_SIZE, base, first, last)
           /\ front \in Indexes /\ Ring(RX_BUFFER_SIZE, base, front, last)
<1>1. Ring(RX_BUFFER_SIZE, base, first, last)
  BY SerialAssumption DEF RxTypes, Indexes, Ring
<1>2. front \in Indexes
  BY <1>1, SerialAssumption, Shift DEF front, RxTypes
<1> QED
  BY <1>1, <1>2 DEF Ring, Indexes

\* A step that leaves the ring buffer as it is
LEMMA SameLive ==
    ASSUME base' = base, first' = first, last' = last, full' = full,
           pc' = "advance" <=> pc = "advance"
    PROVE  /\ front' = front /\ Live' = Live /\ RingBytes' = RingBytes
           /\ RingSorted => RingSorted'
BY DEF front, Live, Whole, RingBytes, RingSorted

\* Nothing has come in the beginning.
LEMMA InitRxInv == Init => RxInv
<1> SUFFICES ASSUME Init PROVE RxInv
  OBVIOUS
<1>1. RxTypes
  <2>1. base \in [Indexes -> 0 .. MaxReceived] /\ first \in Indexes /\ last \in Indexes
    BY SerialAssumption DEF Init, Indexes, Garbage
  <2> QED
    BY <2>1, Bytes DEF Init, RxTypes
<1>2. Control
  BY DEF Init, Control
<1>3. Live = {}
  BY SerialAssumption DEF Init, Live, Whole, Span, front
<1>4. RingBytes = {} /\ RingSorted
  BY <1>3 DEF RingBytes, Elements, RisingFrom, RingSorted
<1>5. ReadsInOrder /\ Kept = {} /\ Rising(udr) /\ Range(udr) = {}
  BY Bytes DEF Init, ReadsInOrder, Kept
<1> QED
  BY <1>1, <1>2, <1>4, <1>5 DEF RxInv, RxOrder, Below

\* A byte comes after all the others, unless the receiver is full.
LEMMA ByteArrivesKeeps == RxInv /\ ByteArrives => RxInv'
<1> SUFFICES ASSUME RxInv, ByteArrives PROVE RxInv'
  OBVIOUS
<1> DEFINE byte == received + 1
<1>1. /\ received \in 0 .. MaxReceived /\ received' = byte /\ byte \in 1 .. MaxReceived
      /\ udr \in Seq(1 .. MaxReceived)
  BY Bytes DEF RxInv, RxTypes, ByteArrives
<1>2. RingBytes' = RingBytes /\ RingSorted' /\ read' = read /\ Kept' = Kept
  BY SameLive DEF ByteArrives, Kept, RxInv, RxOrder
<1>3. Below(Range(udr), {byte}) /\ Rising(udr)
  BY <1>1 DEF RxInv, RxOrder, Below
<1>4. /\ udr' \in Seq(1 .. MaxReceived) /\ Len(udr') <= 2 /\ Rising(udr')
      /\ Range(udr') \subseteq Range(udr) \cup {byte}
  <2>1. CASE Len(udr) < 2
    <3>1. udr' = Append(udr, byte)
      BY <2>1 DEF ByteArrives
    <3>2. Len(udr') = Len(udr) + 1
      BY <1>1, <3>1
    <3> QED
      BY <1>1, <1>3, <2>1, <3>1, <3>2, Bytes, AppendBytes
  <2>2. CASE ~(Len(udr) < 2)
    BY <1>1, <1>3, <2>2 DEF ByteArrives, RxInv, RxTypes
  <2> QED
    BY <2>1, <2>2
<1>5. RxTypes' /\ Control'
  BY <1>1, <1>4 DEF RxInv, RxTypes, Control, ByteArrives
<1>6. ReadsInOrder'
  BY <1>2 DEF RxInv, RxOrder, ReadsInOrder
<1>7. Kept \cup RingBytes \cup Range(udr) \subseteq 1 .. received
  BY DEF RxInv, RxOrder
<1>8. Below(Kept, {byte}) /\ Below(RingBytes, {byte})
  BY <1>1, <1>7 DEF Below
<1>9. RxOrder'
  BY <1>1, <1>2, <1>4, <1>6, <1>7, <1>8 DEF RxInv, RxOrder, Below
<1> QED
  BY <1>5, <1>9 DEF RxInv

\* The steps that read nothing and only drop bytes
LEMMA DropKeeps ==
    ASSUME RxInv, RxTypes', Control', RingBytes' \subseteq RingBytes,
           RingSorted',
           udr' = udr \/ (udr # <<>> /\ udr' = Tail(udr)),
           read' = read, received' = received
    PROVE  RxInv'
<1>1. Rising(udr') /\ Range(udr') \subseteq Range(udr)
  <2>1. CASE udr' = udr
    BY <2>1 DEF RxInv, RxOrder
  <2>2. CASE udr # <<>> /\ udr' = Tail(udr)
    BY <2>2, Bytes, HeadTail DEF RxInv, RxTypes, RxOrder
  <2> QED
    BY <2>1, <2>2
<1>2. Kept' = Kept /\ ReadsInOrder'
  BY DEF Kept, ReadsInOrder, RxInv, RxOrder
<1>3. RxOrder'
  BY <1>1, <1>2 DEF RxInv, RxOrder, Below
<1> QED
  BY <1>3 DEF RxInv

\* A push, wherever serial_rx is
LEMMA PushLive ==
    ASSUME RxInv, RxIsr, ~full
    PROVE  /\ front' = front /\ Live = Span(RX_BUFFER_SIZE, front, last)
           /\ Live' = FullSpan(RX_BUFFER_SIZE, front, NextPlace(RX_BUFFER_SIZE, last))
           /\ base' = [base EXCEPT ![last] = Head(udr)]
           /\ last' = NextPlace(RX_BUFFER_SIZE, last) /\ last' \in Indexes
<1>1. /\ base' = [base EXCEPT ![last] = Head(udr)] /\ last' = shifted_idx(last)
      /\ full' = IsLastPlace /\ first' = first /\ pc' = pc
  BY DEF RxIsr, ringbuffer_push
<1>2. /\ last' = NextPlace(RX_BUFFER_SIZE, last) /\ last' \in Indexes
      /\ full' <=> first = last'
  BY <1>1, Shift DEF RxInv, RxTypes, IsLastPlace
<1>3. front' = front /\ Live = Span(RX_BUFFER_SIZE, front, last)
  BY <1>1 DEF front, Live, Whole
<1>4. Live' = FullSpan(RX_BUFFER_SIZE, front, last')
  <2>1. CASE pc = "advance"
    <3>1. first # last
      BY <2>1 DEF RxInv, Control
    <3>2. front # last'
      BY <1>2, <2>1, <3>1, SerialAssumption DEF front, NextPlace, RxInv, RxTypes, Indexes
    <3> QED
      BY <1>1, <1>3, <2>1, <3>2 DEF Live, Whole, FullSpan
  <2>2. CASE pc # "advance"
    BY <1>1, <1>2, <1>3, <2>2 DEF Live, Whole, FullSpan, front
  <2> QED
    BY <2>1, <2>2
<1> QED
  BY <1>1, <1>2, <1>3, <1>4

\* The interrupt takes the first byte of the receiver: it goes behind those of
\* the ring buffer, or nowhere.
LEMMA RxIsrKeeps == RxInv /\ RxIsr => RxInv'
<1> SUFFICES ASSUME RxInv, RxIsr PROVE RxInv'
  OBVIOUS
<1>1. udr \in Seq(1 .. MaxReceived) /\ udr # <<>> /\ udr' = Tail(udr) /\ Rising(udr)
  BY DEF RxInv, RxTypes, RxOrder, RxIsr
<1>2. udr' \in Seq(1 .. MaxReceived) /\ Len(udr') <= 2
  <2>1. Len(Tail(udr)) = Len(udr) - 1 /\ Len(udr) \in Nat /\ Tail(udr) \in Seq(1 .. MaxReceived)
    BY <1>1
  <2> QED
    BY <1>1, <2>1 DEF RxInv, RxTypes
<1>3. CASE full
  <2>1. base' = base /\ last' = last /\ full' = full /\ first' = first /\ pc' = pc
    BY <1>3 DEF RxIsr
  <2>2. RingBytes' = RingBytes /\ RingSorted'
    BY <2>1, SameLive DEF RxInv, RxOrder
  <2>3. RxTypes' /\ Control'
    BY <1>2, <2>1 DEF RxInv, RxTypes, Control, RxIsr
  <2> QED
    BY <1>1, <2>2, <2>3, DropKeeps DEF RxIsr
<1>4. CASE ~full
  <2> DEFINE byte == Head(udr)
  <2>1. /\ byte \in 1 .. MaxReceived /\ Range(udr) = {byte} \cup Range(udr')
        /\ Rising(udr') /\ Below({byte}, Range(udr'))
    BY <1>1, Bytes, HeadTail
  <2>2. RxTypes'
    <3>1. base' \in [Indexes -> 0 .. MaxReceived] /\ last' \in Indexes
      BY <1>4, <2>1, PushLive DEF RxInv, RxTypes
    <3>2. full' \in BOOLEAN /\ filled' \in BOOLEAN
      BY <1>4 DEF RxIsr, ringbuffer_push, IsLastPlace
    <3> QED
      BY <1>2, <3>1, <3>2 DEF RxInv, RxTypes, RxIsr
  <2>3. Control'
    <3>1. (full' <=> first = last') /\ first' = first /\ pc' = pc /\ seen_full' = seen_full
          /\ filled' = (filled \/ full')
      BY <1>4, PushLive, Shift DEF RxIsr, ringbuffer_push, IsLastPlace, RxInv, RxTypes
    <3> QED
      BY <1>4, <3>1 DEF RxInv, Control
  <2>4. /\ RingBytes' = RingBytes \cup {byte}
        /\ RingSorted'
    <3>1. Ring(RX_BUFFER_SIZE, base, front, last) /\ Stored(base, last, byte, base')
      BY <1>4, PushLive, RingTypes DEF RxInv, Stored
    <3>2. RisingFrom(base, front, Span(RX_BUFFER_SIZE, front, last))
          /\ Below(Elements(base, Span(RX_BUFFER_SIZE, front, last)), {byte})
      BY <1>4, <2>1, PushLive DEF RxInv, RxOrder, Below, RingBytes, RingSorted
    <3>3. byte \in Int
      BY <2>1
    <3> HIDE DEF byte
    <3>4. RisingFrom(base', front, FullSpan(RX_BUFFER_SIZE, front, NextPlace(RX_BUFFER_SIZE, last)))
      BY <3>1, <3>2, <3>3, PushRising
    <3>5. Elements(base', FullSpan(RX_BUFFER_SIZE, front, NextPlace(RX_BUFFER_SIZE, last)))
            = Elements(base, Span(RX_BUFFER_SIZE, front, last)) \cup {byte}
      BY <3>1, <3>3, PushElement
    <3> QED
      BY <1>4, <3>4, <3>5, PushLive DEF RingBytes, RingSorted
  <2>5. Kept' = Kept /\ ReadsInOrder' /\ received' = received
    BY DEF Kept, ReadsInOrder, RxInv, RxOrder, RxIsr
  <2>6. RxOrder'
    BY <2>1, <2>4, <2>5 DEF RxInv, RxOrder, Below
  <2> QED
    BY <2>2, <2>3, <2>6 DEF RxInv
<1> QED
  BY <1>3, <1>4

\* Whatever is appended to what was read comes after it, or is garbage.
LEMMA AppendRead ==
    ASSUME RxTypes, ReadsInOrder, NEW byte \in 0 .. MaxReceived,
           byte = Garbage \/ Below(Kept, {byte}), read' = Append(read, byte)
    PROVE  /\ read' \in Seq(0 .. MaxReceived) /\ ReadsInOrder'
           /\ Kept' = Kept \cup ({byte} \ {Garbage})
<1>1. read \in Seq(0 .. MaxReceived)
  BY DEF RxTypes
<1>2. read' \in Seq(0 .. MaxReceived) /\ Range(read') = Range(read) \cup {byte}
  <2> DEFINE S == 0 .. MaxReceived
  <2>1. S \in SUBSET Int /\ read \in Seq(S) /\ byte \in S
    BY <1>1, Bytes
  <2> HIDE DEF S
  <2>2. Append(read, byte) \in Seq(S) /\ Range(Append(read, byte)) = Range(read) \cup {byte}
    BY <2>1, AppendBytes
  <2> QED
    BY <2>2 DEF S
<1>3. /\ DOMAIN read' = 1 .. Len(read) + 1 /\ DOMAIN read = 1 .. Len(read)
      /\ Len(read) \in Nat /\ read'[Len(read) + 1] = byte
      /\ \A i \in 1 .. Len(read) : read'[i] = read[i]
  <2>1. Len(read') = Len(read) + 1 /\ DOMAIN read' = 1 .. Len(read')
    BY <1>1, <1>2
  <2>2. read'[Len(read) + 1] = byte /\ \A i \in 1 .. Len(read) : read'[i] = read[i]
    BY <1>1
  <2> QED
    BY <1>1, <2>1, <2>2
<1>4. ASSUME NEW i \in DOMAIN read', NEW j \in DOMAIN read', i < j,
             read'[i] # Garbage, read'[j] # Garbage
      PROVE  read'[i] < read'[j]
  <2>1. i \in DOMAIN read /\ read'[i] = read[i]
    BY <1>3, <1>4
  <2>2. CASE j = Len(read) + 1
    BY <1>3, <1>4, <2>1, <2>2 DEF Below, Kept, Range
  <2>3. CASE j # Len(read) + 1
    <3>1. j \in DOMAIN read /\ read'[j] = read[j]
      BY <1>3, <2>3
    <3> QED
      BY <1>4, <2>1, <3>1 DEF ReadsInOrder
  <2> QED
    BY <2>2, <2>3
<1> QED
  BY <1>2, <1>4 DEF ReadsInOrder, Kept

\* serial_rx stores the byte that comes after all it has read, or garbage.
LEMMA RxPopKeeps == RxInv /\ RxPop => RxInv'
<1> SUFFICES ASSUME RxInv, RxPop PROVE RxInv'
  OBVIOUS
<1>1. /\ pc = "pop" /\ base' = base /\ first' = first /\ last' = last /\ full' = full
      /\ received' = received /\ seen_full' = seen_full /\ udr' = udr /\ filled' = filled
      /\ RxTypes /\ ReadsInOrder
  BY DEF RxPop, RxInv, RxOrder
<1>2. CASE ~seen_full /\ first = last
  <2>1. read' = Append(read, Garbage) /\ pc' = "idle"
    BY <1>2 DEF RxPop
  <2>2. read' \in Seq(0 .. MaxReceived) /\ ReadsInOrder' /\ Kept' = Kept
    <3>1. Garbage \in 0 .. MaxReceived
      BY Bytes DEF Garbage
    <3> QED
      BY <1>1, <2>1, <3>1, AppendRead
  <2>3. RingBytes' = RingBytes /\ RingSorted'
    BY <1>1, <2>1, SameLive DEF RxInv, RxOrder
  <2>4. RxTypes' /\ Control'
    BY <1>1, <2>1, <2>2 DEF RxInv, RxTypes, Control
  <2>5. RxOrder'
    BY <1>1, <2>2, <2>3 DEF RxInv, RxOrder
  <2> QED
    BY <2>4, <2>5 DEF RxInv
<1>3. CASE ~(~seen_full /\ first = last)
  <2> DEFINE byte == base[first]
  <2>1. read' = Append(read, byte) /\ pc' = "advance"
    BY <1>3 DEF RxPop
  <2>2. /\ Live = FullSpan(RX_BUFFER_SIZE, first, last)
        /\ front' = NextPlace(RX_BUFFER_SIZE, first)
        /\ Live' = Span(RX_BUFFER_SIZE, NextPlace(RX_BUFFER_SIZE, first), last)
        /\ front = first
    BY <1>1, <1>3, <2>1 DEF RxInv, Control, Live, Whole, FullSpan, front
  <2>3. /\ RingBytes = RingBytes' \cup {byte} /\ RingSorted'
        /\ Below({byte}, RingBytes')
    <3>1. Ring(RX_BUFFER_SIZE, base, first, last) /\ RisingFrom(base, first, FullSpan(RX_BUFFER_SIZE, first, last))
      BY <2>2, RingTypes DEF RxInv, RxOrder, RingSorted
    <3> QED
      BY <1>1, <2>2, <3>1, PopElement, PopRising DEF RingBytes, RingSorted
  <2>4. byte \in 1 .. received /\ byte \in 0 .. MaxReceived /\ Below(Kept, {byte})
        /\ Below({byte}, Range(udr))
    <3>1. byte \in RingBytes
      BY <2>3
    <3>2. byte \in 1 .. received /\ received \in 0 .. MaxReceived
      BY <3>1 DEF RxInv, RxTypes, RxOrder
    <3> QED
      BY <3>1, <3>2, Bytes DEF RxInv, RxOrder, Below
  <2> HIDE DEF byte
  <2>5. read' \in Seq(0 .. MaxReceived) /\ ReadsInOrder' /\ Kept' \subseteq Kept \cup {byte}
    BY <1>1, <2>1, <2>4, AppendRead
  <2>6. RxTypes' /\ Control'
    BY <1>1, <1>3, <2>1, <2>5 DEF RxInv, RxTypes, Control
  <2>7. RxOrder'
    BY <1>1, <2>3, <2>4, <2>5 DEF RxInv, RxOrder, Below
  <2> QED
    BY <2>6, <2>7 DEF RxInv
<1> QED
  BY <1>2, <1>3

\* first moves on, to where the ring starts already.
LEMMA RxAdvanceKeeps == RxInv /\ RxAdvance => RxInv'
<1> SUFFICES ASSUME RxInv, RxAdvance PROVE RxInv'
  OBVIOUS
<1>1. /\ pc = "advance" /\ pc' = "notfull" /\ base' = base /\ last' = last /\ full' = full
      /\ first' = NextPlace(RX_BUFFER_SIZE, first) /\ first' \in Indexes
  BY Shift DEF RxAdvance, RxInv, RxTypes
<1>2. full => first' # last'
  BY <1>1, SerialAssumption DEF RxInv, RxTypes, Control, NextPlace, Indexes
<1>3. front' = front /\ Live' = Live /\ RingBytes' = RingBytes
  BY <1>1, <1>2 DEF front, Live, Whole, RingBytes, RingSorted
<1>4. RxTypes' /\ Control'
  BY <1>1 DEF RxInv, RxTypes, Control, RxAdvance
<1>5. RingSorted'
  BY <1>1, <1>3 DEF RxInv, RxOrder, RingSorted
<1> QED
  BY <1>3, <1>4, <1>5, DropKeeps DEF RxAdvance

\* Clearing full, and the whole buffer with it if the interrupt has filled it
LEMMA RxNotFullKeeps == RxInv /\ RxNotFull => RxInv'
<1> SUFFICES ASSUME RxInv, RxNotFull PROVE RxInv'
  OBVIOUS
<1>1. /\ pc = "notfull" /\ pc' = "idle" /\ base' = base /\ last' = last /\ first' = first
      /\ full' = FALSE
  BY DEF RxNotFull
<1>2. front' = front /\ Live' \subseteq Live
  <2>1. first = last => Span(RX_BUFFER_SIZE, first, last) = {}
    BY SerialAssumption DEF RxInv, RxTypes, Indexes, Span
  <2> QED
    BY <1>1, <2>1 DEF front, Live, Whole
<1>3. RingBytes' \subseteq RingBytes /\ RingSorted'
  BY <1>1, <1>2 DEF RxInv, RxOrder, RingBytes, Elements, RisingFrom, RingSorted
<1>4. RxTypes' /\ Control'
  BY <1>1 DEF RxInv, RxTypes, Control, RxNotFull
<1> QED
  BY <1>3, <1>4, DropKeeps DEF RxNotFull

\* serial_rx_reset empties the ring buffer.
LEMMA ResetKeeps == RxInv /\ serial_rx_reset => RxInv'
<1> SUFFICES ASSUME RxInv, serial_rx_reset PROVE RxInv'
  OBVIOUS
<1>1. pc' = "idle" /\ base' = base /\ first' = 0 /\ last' = 0 /\ full' = FALSE
  BY DEF serial_rx_reset
<1>2. Live' = {}
  BY <1>1, SerialAssumption DEF Live, Whole, front, Span
<1>3. RingBytes' = {} /\ RingSorted'
  BY <1>2 DEF RingBytes, Elements, RisingFrom, RingSorted
<1>4. RxTypes' /\ Control'
  <2>1. 0 \in Indexes
    BY SerialAssumption DEF Indexes
  <2> QED
    BY <1>1, <2>1 DEF RxInv, RxTypes, Control, serial_rx_reset
<1> QED
  BY <1>3, <1>4, DropKeeps DEF serial_rx_reset

\* The steps that move no byte
LEMMA SameKeeps == RxInv /\ (RxStart \/ RxIsEmpty \/ UNCHANGED rxVars) => RxInv'
<1> SUFFICES ASSUME RxInv, RxStart \/ RxIsEmpty \/ UNCHANGED rxVars PROVE RxInv'
  OBVIOUS
<1>1. /\ base' = base /\ last' = last /\ first' = first /\ full' = full
      /\ (pc' = "advance" <=> pc = "advance") /\ udr' = udr /\ read' = read
      /\ received' = received /\ filled' = filled
  BY DEF RxStart, RxIsEmpty, rxVars
<1>2. RingBytes' = RingBytes /\ RingSorted'
  BY <1>1, SameLive DEF RxInv, RxOrder
<1>3. RxTypes'
  BY <1>1 DEF RxInv, RxTypes, RxStart, RxIsEmpty, rxVars
<1>4. Control'
  BY <1>1 DEF RxInv, RxTypes, Control, RxStart, RxIsEmpty, rxVars
<1> QED
  BY <1>1, <1>2, <1>3, <1>4, DropKeeps

\* Every step of the main loop and of the interrupts keeps the invariant.
LEMMA NextRxInv == RxInv /\ [Next]_vars => RxInv'
<1> SUFFICES ASSUME RxInv, [Next]_vars PROVE RxInv'
  OBVIOUS
<1>1. CASE TxIsr \/ (\E size \in 1 .. TX_BUFFER_SIZE : serial_tx(size)) \/ UNCHANGED vars
  <2>1. UNCHANGED rxVars
    BY <1>1 DEF TxIsr, serial_tx, vars
  <2> QED
    BY <2>1, SameKeeps
<1> QED
  BY <1>1, ByteArrivesKeeps, RxIsrKeeps, RxPopKeeps, RxAdvanceKeeps, RxNotFullKeeps,
     ResetKeeps, SameKeeps DEF Next, serial_rx

\* Even a ring buffer that fills up while serial_rx is between two of its fields
\* makes no byte be read twice, nor before an earlier one.
THEOREM ReceptionInOrder == Spec => []ReadsInOrder
<1>1. RxInv => ReadsInOrder
  BY DEF RxInv, RxOrder
<1> QED
  BY <1>1, InitRxInv, NextRxInv, PTL DEF Spec

-----------------------------------------------------------------------------
(***************************************************************************)
(* As long as the ring buffer was never full, the reception implements     *)
(* ByteQueue: the bytes from front to last are its queue, the step that    *)
(* stores a byte for the caller is its Read, and the steps of serial_rx    *)
(* before and after it are invisible.                                      *)
(***************************************************************************)

\* What a ring buffer that is not full holds and serial_rx has not stored yet
LEMMA ContentsIsList ==
    RxInv /\ ~full => /\ Contents = Listed(RX_BUFFER_SIZE, base, front, last)
                      /\ pc # "advance" => ringbuffer_used = Len(Contents)
<1> SUFFICES ASSUME RxInv, ~full
             PROVE  /\ Contents = Listed(RX_BUFFER_SIZE, base, front, last)
                    /\ pc # "advance" => ringbuffer_used = Len(Contents)
  OBVIOUS
<1> DEFINE N == RX_BUFFER_SIZE
<1>1. /\ N \in Nat /\ N > 1 /\ first \in 0 .. N - 1 /\ last \in 0 .. N - 1
      /\ Ring(N, base, front, last)
  BY RingTypes, SerialAssumption DEF RxInv, RxTypes, Indexes
<1>2. ringbuffer_used = Count(N, first, last)
  BY <1>1, Remainders DEF ringbuffer_used, virt_idx
<1>3. Unread = Count(N, front, last)
  <2>1. Unread = Count(N, first, last) - Taken
    BY <1>1, <1>2, Remainders DEF Unread, virt_idx
  <2>2. CASE pc = "advance"
    <3>1. first # last
      BY <2>2 DEF RxInv, Control
    <3> QED
      BY <1>1, <2>1, <2>2, <3>1 DEF Taken, front, Count, NextPlace
  <2>3. CASE pc # "advance"
    BY <1>1, <2>1, <2>3 DEF Taken, front, Count
  <2> QED
    BY <2>2, <2>3
<1>4. Count(N, front, last) \in 0 .. N - 1
  BY <1>1, ListedType
<1>5. ASSUME NEW i \in 1 .. Count(N, front, last)
      PROVE  (first + Taken + i - 1) % N = PlaceOf(N, front, i)
  <2>1. i \in 1 .. N - 1 /\ i \in 1 .. N
    BY <1>1, <1>4
  <2>2. CASE pc = "advance"
    <3>1. (first + 1 + i - 1) % N = PlaceOf(N, NextPlace(N, first), i)
      BY <1>1, <2>1, Remainders
    <3> QED
      BY <2>2, <3>1 DEF Taken, front
  <2>3. CASE pc # "advance"
    <3>1. (first + i - 1) % N = PlaceOf(N, first, i) /\ first + 0 = first
      BY <1>1, <2>1, Remainders
    <3> QED
      BY <2>3, <3>1 DEF Taken, front
  <2> QED
    BY <2>2, <2>3
<1>6. Contents = Listed(N, base, front, last)
  BY <1>3, <1>5 DEF Contents, Listed
<1>7. Len(Contents) = Count(N, front, last)
  BY <1>1, <1>6, ListedType
<1> QED
  BY <1>2, <1>6, <1>7 DEF front

\* As long as the ring buffer is not full its contents are the list of its places.
LEMMA ListBefore ==
    ASSUME RxInv, ~full
    PROVE  /\ Contents = Listed(RX_BUFFER_SIZE, base, front, last)
           /\ pc # "advance" => ringbuffer_used = Len(Contents)
BY ContentsIsList

\* The same after a step.
LEMMA ListAfter ==
    ASSUME RxInv', ~full'
    PROVE  Contents' = Listed(RX_BUFFER_SIZE, base', front', last')
<1>1. (RxInv /\ ~full => /\ Contents = Listed(RX_BUFFER_SIZE, base, front, last)
                         /\ pc # "advance" => ringbuffer_used = Len(Contents))'
  BY ContentsIsList, PTL
<1> QED
  BY <1>1

\* The reception begins with an empty queue.
LEMMA InitMaps == Init => Queue!Init
<1> SUFFICES ASSUME Init PROVE Queue!Init
  OBVIOUS
<1>1. Unread = 0
  BY SerialAssumption, Remainders DEF Init, Unread, ringbuffer_used, virt_idx, Taken, Count
<1>2. Contents = <<>>
  BY <1>1 DEF Contents
<1> QED
  BY <1>2 DEF Init, Queue!Init

\* Each step, until the ring buffer fills up
LEMMA ArrivesMaps ==
    ASSUME RxInv, RxInv', ByteArrives, ~filled'
    PROVE  Queue!Arrive
<1>1. ~full /\ ~full' /\ Len(udr) < 2
  BY DEF RxInv, Control, ByteArrives, IsFull
<1>2. Contents' = Contents
  <2>1. front' = front /\ base' = base /\ last' = last
    BY DEF ByteArrives, front
  <2> QED
    BY <1>1, <2>1, ListBefore, ListAfter
<1> QED
  BY <1>1, <1>2 DEF ByteArrives, Queue!Arrive

\* The receive interrupt moves a byte from the receiver to the end of the queue.
LEMMA RxIsrMaps ==
    ASSUME RxInv, RxInv', RxIsr, ~filled'
    PROVE  Queue!Accept
<1> DEFINE N == RX_BUFFER_SIZE
           byte == Head(udr)
<1>1. ~full /\ ~full'
  BY DEF RxInv, Control, RxIsr
<1>2. udr # <<>> /\ udr' = Tail(udr) /\ read' = read /\ received' = received
      /\ discarded' = discarded /\ byte \in Int
  <2>1. udr \in Seq(1 .. MaxReceived) /\ udr # <<>>
    BY DEF RxIsr, RxInv, RxTypes
  <2>2. byte \in 1 .. MaxReceived
    BY <2>1, Bytes, HeadTail
  <2> QED
    BY <2>2 DEF RxIsr
<1>3. Ring(N, base, front, last) /\ Stored(base, last, byte, base')
      /\ front' = front /\ last' = NextPlace(N, last)
  BY <1>1, PushLive, RingTypes DEF RxInv, Stored
<1>4. front # NextPlace(N, last)
  <2>1. first # NextPlace(N, last)
    BY <1>1, Shift DEF RxIsr, ringbuffer_push, IsLastPlace, RxInv, RxTypes
  <2>2. CASE pc = "advance"
    <3>1. first # last /\ first \in Indexes /\ last \in Indexes /\ front = NextPlace(N, first)
      BY <1>1, <2>2 DEF front, RxInv, RxTypes, Control
    <3> QED
      BY <3>1, SerialAssumption DEF NextPlace, Indexes
  <2> QED
    BY <2>1, <2>2 DEF front
<1>5. Contents' = Append(Contents, byte)
  <2> HIDE DEF byte
  <2>1. Listed(N, base', front, NextPlace(N, last)) = Append(Listed(N, base, front, last), byte)
    BY <1>2, <1>3, <1>4, ListedPush
  <2> QED
    BY <1>1, <1>3, <2>1, ListBefore, ListAfter
<1> QED
  BY <1>2, <1>5 DEF Queue!Accept

\* serial_rx reads the head of the queue at the place where it takes the byte.
LEMMA RxPopMaps ==
    ASSUME RxInv, RxInv', RxPop, ~filled'
    PROVE  Queue!Read
<1> DEFINE N == RX_BUFFER_SIZE
<1>1. ~full /\ ~full' /\ first # last
  BY DEF RxInv, Control, RxPop
<1>2. /\ read' = Append(read, base[first]) /\ pc = "pop" /\ pc' = "advance"
      /\ base' = base /\ first' = first /\ last' = last
      /\ udr' = udr /\ received' = received /\ discarded' = discarded
  BY <1>1 DEF RxPop
<1>3. front = first /\ front' = NextPlace(N, first) /\ Ring(N, base, first, last)
  BY <1>2, RingTypes DEF front, RxInv
<1>4. /\ Contents = Listed(N, base, first, last)
      /\ Contents' = Listed(N, base, NextPlace(N, first), last)
  BY <1>1, <1>2, <1>3, ListBefore, ListAfter
<1>5. Contents # <<>> /\ Head(Contents) = base[first] /\ Tail(Contents) = Contents'
  BY <1>1, <1>3, <1>4, ListedPop
<1> QED
  BY <1>2, <1>5 DEF Queue!Read

\* A reset discards what is in the queue.
LEMMA ResetMaps ==
    ASSUME RxInv, RxInv', serial_rx_reset, ~filled'
    PROVE  Queue!Discard
<1>1. ~full /\ ~full' /\ pc = "idle" /\ first' = 0 /\ last' = 0 /\ pc' = "idle"
  BY DEF RxInv, Control, serial_rx_reset
<1>2. ringbuffer_used = Len(Contents)
  BY <1>1, ListBefore
<1>3. Contents' = <<>>
  <2>1. Contents' = Listed(RX_BUFFER_SIZE, base', 0, 0)
    BY <1>1, ListAfter DEF front
  <2>2. Count(RX_BUFFER_SIZE, 0, 0) = 0
    BY DEF Count
  <2> QED
    BY <2>1, <2>2 DEF Listed
<1> QED
  BY <1>2, <1>3 DEF serial_rx_reset, Queue!Discard

\* The other steps of serial_rx do not move the queue.
LEMMA OtherStutters ==
    ASSUME RxInv, RxInv', ~filled',
           RxStart \/ RxIsEmpty \/ RxAdvance \/ RxNotFull \/ UNCHANGED rxVars
    PROVE  UNCHANGED Queue!vars
<1>1. ~full /\ ~full' /\ base' = base /\ last' = last
      /\ received' = received /\ udr' = udr /\ read' = read /\ discarded' = discarded
  BY DEF RxInv, Control, RxStart, RxIsEmpty, RxAdvance, RxNotFull, rxVars
<1>2. front' = front
  BY Shift DEF front, RxStart, RxIsEmpty, RxAdvance, RxNotFull, rxVars, RxInv, RxTypes
<1>3. Contents' = Contents
  BY <1>1, <1>2, ListBefore, ListAfter
<1> QED
  BY <1>1, <1>3 DEF Queue!vars

\* The reception of the AVR promises what ByteQueue says, whatever the size of
\* the ring buffer and wherever the interrupt cuts serial_rx, until a byte fills
\* the buffer up.
THEOREM ReceptionIsQueue == Spec => ImplementsByteQueue
<1>1. RxInv /\ RxInv' /\ [Next]_vars => [filled' \/ Queue!Next]_(Queue!vars)
  <2> SUFFICES ASSUME RxInv, RxInv', [Next]_vars, ~filled'
               PROVE  Queue!Next \/ UNCHANGED Queue!vars
    OBVIOUS
  <2>1. CASE TxIsr \/ (\E size \in 1 .. TX_BUFFER_SIZE : serial_tx(size)) \/ UNCHANGED vars
    <3>1. UNCHANGED rxVars
      BY <2>1 DEF TxIsr, serial_tx, vars
    <3> QED
      BY <3>1, OtherStutters
  <2> QED
    BY <2>1, ArrivesMaps, RxIsrMaps, RxPopMaps, ResetMaps, OtherStutters
       DEF Next, serial_rx, Queue!Next
<1> QED
  BY <1>1, InitMaps, InitRxInv, NextRxInv, PTL DEF Spec, ImplementsByteQueue

-----------------------------------------------------------------------------
(***************************************************************************)
(* Type correctness.  That discarded stays within the bytes received needs *)
(* to know that no byte is counted twice: those discarded, those in the    *)
(* ring buffer and those in the receiver are not more than came.           *)
(***************************************************************************)

\* The bytes of the ring buffer, the one that is being taken included
InRing == IF full /\ first = last THEN RX_BUFFER_SIZE
                                  ELSE Count(RX_BUFFER_SIZE, first, last)

\* No more bytes were discarded, or wait, than were received
Spare == discarded \in Nat /\ discarded + InRing + Len(udr) <= received

\* The indexes of the transmission stay in its buffer
TxBounds ==
    /\ tx_to_transmit \in 0 .. TX_BUFFER_SIZE /\ tx_transmitted \in 0 .. TX_BUFFER_SIZE
    /\ written <= MaxSent

\* No byte has come at power on.
LEMMA InitSpare == Init => Spare
BY SerialAssumption, Bytes DEF Init, Spare, InRing, Count

\* The ring buffer holds a natural number of bytes.
LEMMA InRingType ==
    ASSUME RxTypes
    PROVE  InRing \in Nat /\ Len(udr) \in Nat /\ received \in Nat
<1>1. /\ RX_BUFFER_SIZE \in Nat /\ first \in Int /\ last \in Int
      /\ 0 <= first /\ first < RX_BUFFER_SIZE /\ 0 <= last /\ last < RX_BUFFER_SIZE
  BY SerialAssumption DEF RxTypes, Indexes
<1>2. InRing \in Nat
  BY <1>1 DEF InRing, Count
<1> QED
  BY <1>2, SerialAssumption DEF RxTypes

\* No step makes the bytes discarded and held more than those received.
LEMMA SpareKept == RxInv /\ Spare /\ [Next]_vars => Spare'
<1> SUFFICES ASSUME RxInv, Spare, [Next]_vars PROVE Spare'
  OBVIOUS
<1> DEFINE N == RX_BUFFER_SIZE
<1>1. /\ N \in Nat /\ N > 1 /\ first \in 0 .. N - 1 /\ last \in 0 .. N - 1
      /\ InRing \in Nat /\ Len(udr) \in Nat /\ received \in Nat /\ discarded \in Nat
      /\ discarded + InRing + Len(udr) <= received /\ udr \in Seq(1 .. MaxReceived)
      /\ full \in BOOLEAN
  BY SerialAssumption, InRingType DEF RxInv, RxTypes, Spare, Indexes
<1>2. CASE ByteArrives
  <2>1. /\ received' = received + 1 /\ discarded' = discarded /\ InRing' = InRing
    BY <1>2 DEF ByteArrives, InRing
  <2>2. Len(udr') <= Len(udr) + 1 /\ Len(udr') \in Nat
    <3>1. Len(Append(udr, received + 1)) = Len(udr) + 1
      BY <1>1
    <3> QED
      BY <1>1, <1>2, <3>1 DEF ByteArrives
  <2> QED
    BY <1>1, <2>1, <2>2 DEF Spare
<1>3. CASE RxIsr
  <2>1. Len(udr') = Len(udr) - 1
    BY <1>1, <1>3 DEF RxIsr
  <2>2. InRing' \in Nat /\ InRing' <= InRing + 1
    <3>1. CASE full
      BY <1>1, <1>3, <3>1 DEF RxIsr, InRing
    <3>2. CASE ~full
      <4>1. /\ last' = NextPlace(N, last) /\ first' = first /\ (full' <=> first = last')
        BY <1>1, <1>3, <3>2, Shift DEF RxIsr, ringbuffer_push, IsLastPlace, Indexes
      <4>2. InRing = Count(N, first, last)
        BY <3>2 DEF InRing
      <4>3. InRing' = IF first = last' THEN N ELSE Count(N, first, last')
        BY <4>1 DEF InRing
      <4> QED
        BY <1>1, <4>1, <4>2, <4>3 DEF Count, NextPlace
    <3> QED
      BY <3>1, <3>2
  <2>3. received' = received /\ discarded' = discarded
    BY <1>3 DEF RxIsr
  <2> QED
    BY <1>1, <2>1, <2>2, <2>3 DEF Spare
<1>4. CASE RxAdvance
  <2>1. /\ first' = NextPlace(N, first) /\ last' = last /\ full' = full
        /\ received' = received /\ discarded' = discarded /\ udr' = udr
    BY <1>1, <1>4, Shift DEF RxAdvance, Indexes
  <2>2. full => first = last
    BY <1>4 DEF RxInv, Control, RxAdvance
  <2>3. full \/ first # last
    BY <1>4 DEF RxInv, Control, RxAdvance
  <2>4. InRing' \in Nat /\ InRing' <= InRing
    <3>1. CASE full
      BY <1>1, <2>1, <2>2, <3>1 DEF InRing, Count, NextPlace
    <3>2. CASE ~full
      BY <1>1, <2>1, <2>3, <3>2 DEF InRing, Count, NextPlace
    <3> QED
      BY <3>1, <3>2
  <2> QED
    BY <1>1, <2>1, <2>4 DEF Spare
<1>5. CASE RxNotFull
  <2>1. /\ first' = first /\ last' = last /\ ~full'
        /\ received' = received /\ discarded' = discarded /\ udr' = udr
    BY <1>5 DEF RxNotFull
  <2>2. InRing' \in Nat /\ InRing' <= InRing
    BY <1>1, <2>1 DEF InRing, Count
  <2> QED
    BY <1>1, <2>1, <2>2 DEF Spare
<1>6. CASE serial_rx_reset
  <2>1. /\ first' = 0 /\ last' = 0 /\ ~full' /\ pc = "idle"
        /\ received' = received /\ discarded' = discarded + ringbuffer_used /\ udr' = udr
    BY <1>6 DEF serial_rx_reset
  <2>2. ringbuffer_used = InRing
    <3>1. full => first = last
      BY <2>1 DEF RxInv, Control
    <3> QED
      BY <1>1, <3>1, Remainders DEF ringbuffer_used, virt_idx, InRing
  <2>3. InRing' = 0
    BY <2>1 DEF InRing, Count
  <2> QED
    BY <1>1, <2>1, <2>2, <2>3 DEF Spare
<1>7. ASSUME UNCHANGED <<first, last, full, received, udr, discarded>> PROVE Spare'
  BY <1>1, <1>7 DEF Spare, InRing
<1>8. CASE RxStart \/ RxIsEmpty \/ RxPop
  BY <1>7, <1>8 DEF RxStart, RxIsEmpty, RxPop
<1>9. CASE TxIsr \/ (\E size \in 1 .. TX_BUFFER_SIZE : serial_tx(size)) \/ UNCHANGED vars
  <2>1. UNCHANGED rxVars
    BY <1>9 DEF TxIsr, serial_tx, vars
  <2> QED
    BY <1>7, <2>1 DEF rxVars
<1> QED
  BY <1>2, <1>3, <1>4, <1>5, <1>6, <1>8, <1>9 DEF Next, serial_rx

\* A transmission stays within its buffer.
LEMMA TxBoundsKept == TxInv /\ TxBounds /\ [Next]_vars => TxBounds'
<1> SUFFICES ASSUME TxInv, TxBounds, [Next]_vars PROVE TxBounds'
  OBVIOUS
<1>1. ASSUME NEW size \in 1 .. TX_BUFFER_SIZE, serial_tx(size) PROVE TxBounds'
  <2>1. /\ tx_to_transmit' = size /\ tx_transmitted' = 0 /\ written' = written + size
        /\ written + size <= MaxSent
    BY <1>1 DEF serial_tx
  <2>2. TX_BUFFER_SIZE \in Nat
    BY SerialAssumption
  <2> QED
    BY <2>1, <2>2 DEF TxBounds
<1>2. CASE TxIsr
  <2>1. written' = written
    BY <1>2 DEF TxIsr
  <2>2. CASE TxMore
    BY <1>2, <2>1, <2>2, SerialAssumption DEF TxBounds, TxIsr, TxMore
  <2>3. CASE ~TxMore
    BY <1>2, <2>1, <2>3, SerialAssumption DEF TxBounds, TxIsr
  <2> QED
    BY <2>2, <2>3
<1>3. CASE UNCHANGED txVars
  BY <1>3 DEF TxBounds, txVars
<1>4. CASE ByteArrives \/ RxIsr \/ serial_rx \/ serial_rx_reset
  BY <1>3, <1>4 DEF ByteArrives, RxIsr, serial_rx, serial_rx_reset, RxStart, RxIsEmpty,
                    RxPop, RxAdvance, RxNotFull
<1> QED
  BY <1>1, <1>2, <1>3, <1>4 DEF Next, vars

\* The invariants of the two sides make every variable keep its type.
LEMMA Typed == RxInv /\ TxInv /\ Spare /\ TxBounds => TypeOK
<1> SUFFICES ASSUME RxInv, TxInv, Spare, TxBounds PROVE TypeOK
  OBVIOUS
<1>1. discarded \in 0 .. MaxReceived
  <2>1. RxTypes /\ received \in 0 .. MaxReceived
    BY DEF RxInv, RxTypes
  <2> QED
    BY <2>1, InRingType, SerialAssumption DEF Spare
<1>2. Len(wire) <= written /\ written \in 0 .. MaxSent
  <2>1. /\ written \in Nat /\ written <= MaxSent /\ Len(wire) \in Nat
        /\ (tx_ongoing => Transmitting) /\ (~tx_ongoing => Len(wire) = written)
    BY DEF TxInv, TxBounds
  <2> QED
    BY <2>1, SerialAssumption DEF Transmitting, Earlier
<1>3. wire \in Seq(1 .. MaxSent)
  <2>1. /\ wire \in [1 .. Len(wire) -> Int] /\ Len(wire) \in Nat
        /\ \A i \in 1 .. Len(wire) : wire[i] = i
    BY DEF TxInv, TxExact
  <2>2. \A i \in 1 .. Len(wire) : wire[i] \in 1 .. MaxSent
    BY <1>2, <2>1, SerialAssumption
  <2>3. wire \in [1 .. Len(wire) -> 1 .. MaxSent]
    BY <2>1, <2>2
  <2> QED
    BY <2>1, <2>3, SeqDef
<1> QED
  BY <1>1, <1>2, <1>3 DEF RxInv, RxTypes, TxInv, TxBounds, TypeOK

\* The indexes stay in their buffers and no counter passes what it counts: in
\* particular serial_rx_reset never discards a byte that was read or never came.
THEOREM SerialTypes == Spec => []TypeOK
<1>1. Init => TxBounds
  BY SerialAssumption DEF Init, TxBounds
<1> QED
  BY <1>1, InitRxInv, NextRxInv, InitTxInv, NextTxInv, InitSpare, SpareKept, TxBoundsKept,
     Typed, PTL DEF Spec
=============================================================================
