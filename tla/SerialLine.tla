----------------------------- MODULE SerialLine -----------------------------
(***************************************************************************)
(* The serial line between the host and the AVR, at the grain of packets:  *)
(* two FIFO queues, each holding what the receiver has not read yet.       *)
(*                                                                         *)
(* A byte lost or flipped on the wire shows as a lost packet or as a       *)
(* "BAD" entry, i.e. bytes that do not pass the header and CRC checks.     *)
(* The same entry stands for the bytes a receiver leaves behind when it    *)
(* gives up in the middle of a packet.  At most MaxFaults faults happen.   *)
(***************************************************************************)
EXTENDS Integers, Sequences

CONSTANTS
    PACKET_ID_MAX_VAL,  \* number of packet ids, 16 in packet.h
    MaxFaults           \* bound on the faults of the line, and of stale signals (HostComm)

ASSUME LineAssumption ==
    /\ PACKET_ID_MAX_VAL \in Nat /\ PACKET_ID_MAX_VAL > 1
    /\ MaxFaults \in Nat

VARIABLES
    toAvr, toHost,      \* the two directions of the line
    faults              \* faults so far

lineVars == <<toAvr, toHost, faults>>

Ids == 0 .. PACKET_ID_MAX_VAL - 1

packet_next_id(id) == (id + 1) % PACKET_ID_MAX_VAL

\* The data of a packet is a sequence of pairs: a temperature is named by its
\* database and index, database information is its id and size, the argument
\* of a command by the shell job that issued it.
Packet(type, id, body) == [type |-> type, id |-> id, cmd |-> "none", body |-> body]

ArgTag == -1
Argument(job) == <<<<ArgTag, job>>>>

CmdPacket(id, cmd, job) ==
    [type |-> "CMD", id |-> id, cmd |-> cmd, body |-> Argument(job)]

packet_ack(p) == Packet("ACK", p.id, <<>>)
packet_err(p) == Packet("ERR", p.id, <<>>)

Bad(id) == Packet("BAD", id, <<>>)

Good(p) == p.type # "BAD"

(***************************************************************************)
(* What is left of a queue by a receiver that stops in the middle of the   *)
(* packet at its head.  Bytes of a bad entry may be used up altogether; if *)
(* not, they are read by themselves: that they are read as one with the    *)
(* start of the next packet, and spoil it, is left out (a fault of its own *)
(* does spoil it).                                                         *)
(***************************************************************************)
Leftovers(queue) ==
    {<<Bad(Head(queue).id)>> \o Tail(queue)}
        \cup (IF Good(Head(queue)) THEN {} ELSE {Tail(queue)})

\* What the queue may be once the RTO elapses while its head is being read
CutShort(queue) == {queue} \cup (IF queue = <<>> THEN {} ELSE Leftovers(queue))

\* What a flush leaves of a queue: the packet that arrives while it goes on may
\* survive, whole or in part (serial_rx_flush, see module HostSerial)
Flushed(queue) ==
    {<<>>} \cup (IF queue = <<>> THEN {}
                  ELSE {<<queue[Len(queue)]>>, <<Bad(queue[Len(queue)].id)>>})

-----------------------------------------------------------------------------

LineInit == toAvr = <<>> /\ toHost = <<>> /\ faults = 0

RemoveFrom(queue, i) == SubSeq(queue, 1, i - 1) \o SubSeq(queue, i + 1, Len(queue))

(***************************************************************************)
(* A flipped byte spoils a packet; it may or may not be the byte that      *)
(* holds the id.                                                           *)
(***************************************************************************)
Spoiled(queue, i) ==
    {[queue EXCEPT ![i] = Bad(id)] : id \in {queue[i].id, packet_next_id(queue[i].id)}}

Damaged(queue) ==
    UNION {{RemoveFrom(queue, i)} \cup Spoiled(queue, i) : i \in DOMAIN queue}

LineFault ==
    /\ faults < MaxFaults
    /\ faults' = faults + 1
    /\ \/ toAvr' \in Damaged(toAvr) /\ UNCHANGED toHost
       \/ toHost' \in Damaged(toHost) /\ UNCHANGED toAvr
=============================================================================
