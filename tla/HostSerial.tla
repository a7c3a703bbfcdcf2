----------------------------- MODULE HostSerial -----------------------------
(***************************************************************************)
(* The serial layer of the host (sources/host/serial.c) over the locked    *)
(* ring buffer of sources/host/ringbuffer.c: the RX thread moves bytes from*)
(* the kernel to the ring buffer while the shell reads, flushes, connects  *)
(* and disconnects.  An operation of the ring buffer is one step, as it    *)
(* holds the mutex throughout.  Bytes are numbered as they arrive.         *)
(***************************************************************************)
EXTENDS Integers, Sequences

CONSTANTS
    RX_BUF_SIZE,        \* 64 in host/serial.h
    RX_INTER_BUF_SIZE,  \* 32 in the code
    MaxUnread,          \* bytes the tmon sends ahead of what the shell has read
    MaxReceived         \* bound on the bytes received

ASSUME HostSerialAssumption ==
    /\ RX_BUF_SIZE \in Nat /\ RX_BUF_SIZE > 1       \* ringbuffer_new
    /\ RX_INTER_BUF_SIZE \in Nat \ {0}
    /\ MaxUnread \in Nat /\ MaxReceived \in Nat

VARIABLES
    open,       \* the shell is connected: there is a serial context
    kernel,     \* the bytes in the kernel buffer of the device
    inter,      \* the bytes of rx_inter_buf that are not pushed yet
    rx,         \* where the RX thread is: "none", "read" or "push"
    base, first, last, full,    \* ctx->rx.buffer
    main,       \* where the shell is: "idle", "flush" or "join"
    arrived,    \* number of bytes received so far
    mark,       \* value of arrived when the last flush or connect ended
    read,       \* the bytes the shell has read
    refused     \* the bytes that came with the ring buffer full

ring == <<base, first, last, full>>
vars == <<open, kernel, inter, rx, ring, main, arrived, mark, read, refused>>

Init ==
    /\ open = FALSE /\ kernel = <<>> /\ inter = <<>> /\ rx = "none"
    /\ base = [i \in 0 .. RX_BUF_SIZE - 1 |-> 0]
    /\ first = 0 /\ last = 0 /\ full = FALSE
    /\ main = "idle" /\ arrived = 0 /\ mark = 0 /\ read = <<>> /\ refused = {}

\* Mutant: the index does not wrap
shifted_idxNoWrap(idx) == idx + 1

shifted_idx(idx) == (idx + 1) % RX_BUF_SIZE

virt_idx(real) == (real + RX_BUF_SIZE - first) % RX_BUF_SIZE

ringbuffer_used == IF full THEN RX_BUF_SIZE ELSE virt_idx(last)

IsEmpty == first = last /\ ~full

Unread == Len(kernel) + Len(inter) + ringbuffer_used

-----------------------------------------------------------------------------

ByteArrives ==
    /\ open /\ arrived < MaxReceived /\ Unread < MaxUnread
    /\ arrived' = arrived + 1
    /\ kernel' = Append(kernel, arrived + 1)
    /\ UNCHANGED <<open, inter, rx, ring, main, mark, read, refused>>

Smaller(a, b) == IF a < b THEN a ELSE b

\* The RX thread reads what the kernel has, as much as rx_inter_buf takes
RxRead ==
    /\ rx = "read" /\ main # "join" /\ kernel # <<>>
    /\ LET received == Smaller(Len(kernel), RX_INTER_BUF_SIZE)
       IN  /\ inter' = SubSeq(kernel, 1, received)
           /\ kernel' = SubSeq(kernel, received + 1, Len(kernel))
    /\ rx' = "push"
    /\ UNCHANGED <<open, ring, main, arrived, mark, read, refused>>

\* Mutant: a full buffer is not told from an empty one
IsLastPlaceNever == FALSE

IsLastPlace == first = shifted_idx(last)

\* ringbuffer_push of the next byte; with the buffer full the byte is lost
RxPush ==
    /\ rx = "push"
    /\ inter' = Tail(inter)
    /\ IF full
         THEN UNCHANGED ring /\ refused' = refused \cup {Head(inter)}
         ELSE /\ base' = [base EXCEPT ![last] = Head(inter)]
              /\ last' = shifted_idx(last)
              /\ full' = IsLastPlace
              /\ UNCHANGED <<first, refused>>
    /\ rx' = IF Len(inter) = 1 THEN "read" ELSE "push"
    /\ UNCHANGED <<open, kernel, main, arrived, mark, read>>

\* Mutant: the thread cannot be cancelled
RxCancelNever == FALSE /\ UNCHANGED vars

\* pthread_cancel has an effect in read() only
RxCancel ==
    /\ rx = "read" /\ main = "join"
    /\ rx' = "none"
    /\ UNCHANGED <<open, kernel, inter, ring, main, arrived, mark, read, refused>>

-----------------------------------------------------------------------------

\* ringbuffer_pop once the byte is copied
Pop == first' = shifted_idx(first) /\ full' = FALSE

\* serial_rx of one byte
serial_rx ==
    /\ open /\ main = "idle" /\ ~IsEmpty
    /\ read' = Append(read, base[first])
    /\ Pop
    /\ UNCHANGED <<open, kernel, inter, rx, base, last, main, arrived, mark, refused>>

\* Mutant: only one index is reset
FlushFirstOnly == first' = 0 /\ full' = FALSE

\* ringbuffer_flush
Flush == first' = last /\ full' = FALSE

\* serial_rx_flush: the ring buffer, a sleep ...
FlushRing ==
    /\ open /\ main = "idle"
    /\ Flush
    /\ main' = "flush"
    /\ UNCHANGED <<open, kernel, inter, rx, base, last, arrived, mark, read, refused>>

\* ... then the kernel buffer.  What the RX thread took in between survives.
FlushKernel ==
    /\ main = "flush"
    /\ kernel' = <<>>
    /\ mark' = arrived
    /\ main' = "idle"
    /\ UNCHANGED <<open, inter, rx, ring, arrived, read, refused>>

\* serial_open: a new ring buffer, an empty kernel buffer, a new RX thread
serial_open ==
    /\ ~open
    /\ open' = TRUE /\ kernel' = <<>> /\ inter' = <<>> /\ rx' = "read"
    /\ base' = [i \in 0 .. RX_BUF_SIZE - 1 |-> 0]
    /\ first' = 0 /\ last' = 0 /\ full' = FALSE
    /\ mark' = arrived
    /\ UNCHANGED <<main, arrived, read, refused>>

\* serial_close: cancel the RX thread, then wait for it
CancelThread ==
    /\ open /\ main = "idle"
    /\ main' = "join"
    /\ UNCHANGED <<open, kernel, inter, rx, ring, arrived, mark, read, refused>>

JoinThread ==
    /\ main = "join" /\ rx = "none"
    /\ open' = FALSE /\ main' = "idle" /\ kernel' = <<>>
    /\ UNCHANGED <<inter, rx, ring, arrived, mark, read, refused>>

RxThread == RxRead \/ RxPush \/ RxCancel

Shell == serial_rx \/ FlushRing \/ FlushKernel \/ serial_open \/ CancelThread \/ JoinThread

Next == ByteArrives \/ RxThread \/ Shell

\* The RX thread runs, and the shell ends the call it is in
Fairness == WF_vars(RxThread) /\ WF_vars(FlushKernel \/ JoinThread)

Spec == Init /\ [][Next]_vars
FairSpec == Spec /\ Fairness

-----------------------------------------------------------------------------

Indexes == 0 .. RX_BUF_SIZE - 1

TypeOK ==
    /\ open \in BOOLEAN
    /\ kernel \in Seq(1 .. MaxReceived) /\ inter \in Seq(1 .. MaxReceived)
    /\ rx \in {"none", "read", "push"}
    /\ base \in [Indexes -> 0 .. MaxReceived]
    /\ first \in Indexes /\ last \in Indexes /\ full \in BOOLEAN
    /\ main \in {"idle", "flush", "join"}
    /\ arrived \in 0 .. MaxReceived /\ mark \in 0 .. MaxReceived
    /\ read \in Seq(1 .. MaxReceived) /\ refused \subseteq 1 .. MaxReceived

\* No byte is read twice or before an earlier one, whatever flushes and
\* reconnections come between the two threads.
InOrder == \A i \in 2 .. Len(read) : read[i - 1] < read[i]

\* A flush that races with the RX thread may leave bytes behind, but takes
\* nothing away from what arrives after it: of that the shell reads every byte
\* but the ones that found the ring buffer full.
FreshIsWhole ==
    \A i \in DOMAIN read :
        LET previous == IF i = 1 THEN 0 ELSE read[i - 1]
        IN  \A byte \in previous + 1 .. read[i] - 1 : byte <= mark \/ byte \in refused

\* Disconnecting, or connecting again, never waits for ever for the RX thread,
\* whatever it was doing with the ring buffer.
CloseReturns == main = "join" ~> main = "idle"
=============================================================================
