----------------------------- MODULE ByteQueue -----------------------------
(***************************************************************************)
(* What the reception side of sources/avr/serial.c promises: the bytes are *)
(* read in the order they came, each once, unless the ones accepted and    *)
(* not read yet are discarded on purpose.                                  *)
(***************************************************************************)
EXTENDS Integers, Sequences

VARIABLES
    received,   \* number of bytes that came: byte k is the k-th one
    incoming,   \* the bytes not accepted yet
    queue,      \* the bytes accepted and not read yet
    read,       \* the bytes read
    discarded   \* number of bytes discarded

vars == <<received, incoming, queue, read, discarded>>

Init ==
    /\ received = 0 /\ discarded = 0
    /\ incoming = <<>> /\ queue = <<>> /\ read = <<>>

Arrive ==
    /\ received' = received + 1
    /\ incoming' = Append(incoming, received + 1)
    /\ UNCHANGED <<queue, read, discarded>>

Accept ==
    /\ incoming # <<>>
    /\ incoming' = Tail(incoming)
    /\ queue' = Append(queue, Head(incoming))
    /\ UNCHANGED <<received, read, discarded>>

Read ==
    /\ queue # <<>>
    /\ read' = Append(read, Head(queue))
    /\ queue' = Tail(queue)
    /\ UNCHANGED <<received, incoming, discarded>>

Discard ==
    /\ queue' = <<>>
    /\ discarded' = discarded + Len(queue)
    /\ UNCHANGED <<received, incoming, read>>

Next == Arrive \/ Accept \/ Read \/ Discard

Spec == Init /\ [][Next]_vars
=============================================================================
