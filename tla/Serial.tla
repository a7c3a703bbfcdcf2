------------------------------- MODULE Serial -------------------------------
(***************************************************************************)
(* The serial layer of the AVR (sources/avr/serial.c) with the ring buffer *)
(* of sources/avr/ringbuffer.c: the main loop reads and writes bytes while *)
(* the interrupt service routines of the USART move them from and to the   *)
(* line.                                                                   *)
(*                                                                         *)
(* ringbuffer.c has no volatile field and masks no interrupt: serial_rx is *)
(* cut at each field of the ring buffer that it shares with the interrupt. *)
(* Bytes are numbered in the order they arrive, or are written.            *)
(***************************************************************************)
EXTENDS Integers, Sequences

CONSTANTS
    RX_BUFFER_SIZE,     \* 32 in serial.h
    TX_BUFFER_SIZE,     \* 32 in serial.h
    MaxUnread,          \* bytes the host sends ahead of what the AVR has read
    MaxReceived,        \* bound on the bytes received
    MaxSent             \* bound on the bytes sent

ASSUME SerialAssumption ==
    /\ RX_BUFFER_SIZE \in Nat /\ RX_BUFFER_SIZE > 1     \* ringbuffer_new
    /\ TX_BUFFER_SIZE \in Nat \ {0}
    /\ MaxUnread \in Nat /\ MaxReceived \in Nat /\ MaxSent \in Nat

VARIABLES
    base, first, last, full,    \* rx_buffer
    received,                   \* bytes received from the line so far
    read,                       \* what serial_rx has stored for its callers
    pc,                         \* where the main loop is in serial_rx
    seen_full,                  \* the value of full it read
    udr,                        \* the bytes in the receiver of the USART
    discarded,                  \* number of bytes serial_rx_reset took away
    filled,                     \* whether the ring buffer was full at some time
    tx_buffer, tx_to_transmit, tx_transmitted, tx_ongoing,
    written,                    \* number of bytes given to serial_tx so far
    wire                        \* the bytes written to UDR0

rxVars == <<base, first, last, full, received, read, pc, seen_full, udr, discarded,
            filled>>
txVars == <<tx_buffer, tx_to_transmit, tx_transmitted, tx_ongoing, written, wire>>
vars == <<rxVars, txVars>>

Garbage == 0        \* what the memory of a caller holds beforehand

Init ==
    /\ base = [i \in 0 .. RX_BUFFER_SIZE - 1 |-> Garbage]
    /\ first = 0 /\ last = 0 /\ full = FALSE
    /\ received = 0 /\ read = <<>>
    /\ pc = "idle" /\ seen_full = FALSE /\ udr = <<>> /\ discarded = 0
    /\ filled = FALSE
    /\ tx_buffer = <<>> /\ tx_to_transmit = 0 /\ tx_transmitted = 0
    /\ tx_ongoing = FALSE
    /\ written = 0 /\ wire = <<>>

\* Mutant: the index does not wrap
shifted_idxNoWrap(idx) == idx + 1

shifted_idx(idx) == (idx + 1) % RX_BUFFER_SIZE

virt_idx(real) == (real + RX_BUFFER_SIZE - first) % RX_BUFFER_SIZE

ringbuffer_used == IF full THEN RX_BUFFER_SIZE ELSE virt_idx(last)

-----------------------------------------------------------------------------

\* Mutant: a full buffer is not told from an empty one
IsLastPlaceNever == FALSE

\* The byte pushed takes the last place
IsLastPlace == first = shifted_idx(last)

ringbuffer_push(val) ==
    /\ base' = [base EXCEPT ![last] = val]
    /\ last' = shifted_idx(last)
    /\ full' = IsLastPlace

\* The bytes of the buffer that serial_rx has not stored yet: all but the first
\* once it is stored; full means nothing once first has moved.
Taken == IF pc = "advance" THEN 1 ELSE 0

Unread == (IF pc = "notfull" THEN virt_idx(last) ELSE ringbuffer_used) - Taken

\* The buffer takes no byte: ringbuffer_isfull
IsFull == full /\ first = last

(***************************************************************************)
(* The receiver holds two bytes; one more is lost.  Interrupts are never   *)
(* off for the 174 us of two bytes, so that this needs a full buffer.      *)
(***************************************************************************)
ByteArrives ==
    /\ received < MaxReceived /\ Unread + Len(udr) < MaxUnread
    /\ Len(udr) < 2 \/ IsFull
    /\ received' = received + 1
    /\ udr' = IF Len(udr) < 2 THEN Append(udr, received + 1) ELSE udr
    /\ UNCHANGED <<base, first, last, full, read, pc, seen_full, discarded, filled, txVars>>

(***************************************************************************)
(* ISR(USART0_RX_vect).  Reading UDR0 takes the byte out of the receiver,  *)
(* whether ringbuffer_push then accepts it or, full being set although     *)
(* first has moved, refuses it.  With the buffer full the byte stays.      *)
(***************************************************************************)
RxIsr ==
    /\ udr # <<>> /\ ~IsFull
    /\ udr' = Tail(udr)
    /\ IF full THEN UNCHANGED <<base, last, full>> ELSE ringbuffer_push(Head(udr))
    /\ filled' = (filled \/ full')
    /\ UNCHANGED <<first, received, read, pc, seen_full, discarded, txVars>>

\* serial_rx of one byte; first ringbuffer_isempty reads full ...
RxStart ==
    /\ pc = "idle"
    /\ seen_full' = full /\ pc' = "isempty"
    /\ UNCHANGED <<base, first, last, full, received, read, udr, discarded, filled, txVars>>

\* ... then the indexes: there is nothing, or ringbuffer_pop looks again
RxIsEmpty ==
    /\ pc = "isempty"
    /\ IF ~seen_full /\ first = last
         THEN pc' = "idle" /\ UNCHANGED seen_full
         ELSE pc' = "pop" /\ seen_full' = full
    /\ UNCHANGED <<base, first, last, full, received, read, udr, discarded, filled, txVars>>

\* ringbuffer_pop finds the buffer empty or stores the byte; serial_rx counts
\* a byte in both cases
RxPop ==
    /\ pc = "pop"
    /\ IF ~seen_full /\ first = last
         THEN read' = Append(read, Garbage) /\ pc' = "idle"
         ELSE read' = Append(read, base[first]) /\ pc' = "advance"
    /\ UNCHANGED <<base, first, last, full, received, seen_full, udr, discarded, filled, txVars>>

RxAdvance ==
    /\ pc = "advance"
    /\ first' = shifted_idx(first)
    /\ pc' = "notfull"
    /\ UNCHANGED <<base, last, full, received, read, seen_full, udr, discarded, filled, txVars>>

RxNotFull ==
    /\ pc = "notfull"
    /\ full' = FALSE
    /\ pc' = "idle"
    /\ UNCHANGED <<base, first, last, received, read, seen_full, udr, discarded, filled, txVars>>

\* Mutant: the last index is not reset
serial_rx_resetFirst ==
    /\ pc = "idle"
    /\ first' = 0 /\ full' = FALSE
    /\ discarded' = discarded + ringbuffer_used
    /\ UNCHANGED <<base, last, received, read, pc, seen_full, udr, filled, txVars>>

\* serial_rx_reset, with the interrupt masked
serial_rx_reset ==
    /\ pc = "idle"
    /\ first' = 0 /\ last' = 0 /\ full' = FALSE
    /\ discarded' = discarded + ringbuffer_used
    /\ UNCHANGED <<base, received, read, pc, seen_full, udr, filled, txVars>>

-----------------------------------------------------------------------------

\* Mutant: the previous transmission may still be going on
TxFreeAlways == TRUE

TxFree == ~tx_ongoing

\* serial_tx of the next size bytes: wait, copy, send the first byte
serial_tx(size) ==
    /\ pc = "idle" /\ written + size <= MaxSent
    /\ size <= TX_BUFFER_SIZE
    /\ TxFree
    /\ tx_ongoing' = TRUE
    /\ tx_to_transmit' = size /\ tx_transmitted' = 0
    /\ tx_buffer' = [i \in 0 .. size - 1 |-> written + i + 1]
    /\ written' = written + size
    /\ wire' = Append(wire, written + 1)
    /\ UNCHANGED rxVars

TxMore == tx_transmitted + 1 < tx_to_transmit

\* ISR(USART0_TX_vect): a byte is out
TxIsr ==
    /\ tx_ongoing
    /\ IF TxMore
         THEN /\ tx_transmitted' = tx_transmitted + 1
              /\ wire' = Append(wire, tx_buffer[tx_transmitted + 1])
              /\ UNCHANGED <<tx_to_transmit, tx_ongoing>>
         ELSE /\ tx_to_transmit' = 0 /\ tx_transmitted' = 0 /\ tx_ongoing' = FALSE
              /\ UNCHANGED wire
    /\ UNCHANGED <<rxVars, tx_buffer, written>>

-----------------------------------------------------------------------------

serial_rx == RxStart \/ RxIsEmpty \/ RxPop \/ RxAdvance \/ RxNotFull

Next ==
    \/ ByteArrives \/ RxIsr \/ serial_rx \/ serial_rx_reset
    \/ TxIsr \/ \E size \in 1 .. TX_BUFFER_SIZE : serial_tx(size)

Spec == Init /\ [][Next]_vars

-----------------------------------------------------------------------------

Indexes == 0 .. RX_BUFFER_SIZE - 1

TypeOK ==
    /\ base \in [Indexes -> 0 .. MaxReceived]
    /\ first \in Indexes /\ last \in Indexes /\ full \in BOOLEAN
    /\ received \in 0 .. MaxReceived
    /\ read \in Seq(0 .. MaxReceived)
    /\ pc \in {"idle", "isempty", "pop", "advance", "notfull"}
    /\ seen_full \in BOOLEAN /\ udr \in Seq(1 .. MaxReceived) /\ Len(udr) <= 2
    /\ discarded \in 0 .. MaxReceived /\ filled \in BOOLEAN
    /\ tx_to_transmit \in 0 .. TX_BUFFER_SIZE
    /\ tx_transmitted \in 0 .. TX_BUFFER_SIZE
    /\ tx_ongoing \in BOOLEAN
    /\ written \in 0 .. MaxSent /\ wire \in Seq(1 .. MaxSent)

\* What the ring buffer holds and serial_rx has not stored yet
Contents ==
    [i \in 1 .. Unread |-> base[(first + Taken + i - 1) % RX_BUFFER_SIZE]]

\* As long as the ring buffer was never full, it is a queue of bytes wherever
\* the interrupt cuts serial_rx.
Queue == INSTANCE ByteQueue WITH incoming <- udr, queue <- Contents
ImplementsByteQueue == Queue!Init /\ [][filled' \/ Queue!Next]_(Queue!vars)

\* What goes out is what was written, in order, whatever serial_tx calls follow
\* one another.
TxExact == \A i \in DOMAIN wire : wire[i] = i

\* Once the ring buffer fills up, bytes are lost, in the receiver or with the
\* whole contents of the buffer, and serial_rx may report a byte that it did not
\* read; but a byte that it did read comes after the ones it read before, and is
\* never read again.
ReadsInOrder ==
    \A i, j \in DOMAIN read :
        i < j /\ read[i] # Garbage /\ read[j] # Garbage => read[i] < read[j]
=============================================================================
