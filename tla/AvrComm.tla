------------------------------ MODULE AvrComm ------------------------------
(***************************************************************************)
(* The AVR end of the protocol (sources/avr/communication.c) with the      *)
(* commands it runs (sources/avr/command.c, sources/avr/commands/).        *)
(*                                                                         *)
(* communication_handler is called over and over by the main loop.  It     *)
(* iterates the current command if the last packet sent was acknowledged,  *)
(* then receives a packet if one is there.  communication_send and         *)
(* communication_recv block the loop; "back" says where control returns.   *)
(***************************************************************************)
EXTENDS SerialLine

CONSTANTS
    AVR_SEND_ATTEMPTS,  \* MAXIMUM_SEND_ATTEMPTS of avr/communication.h
    AVR_RECV_ATTEMPTS,  \* MAXIMUM_RECV_ATTEMPTS of avr/communication.h
    DbSizes,            \* number of temperatures of databases 0, 1, ...
    TEMP_BURST          \* temperatures per DAT packet, 14 in the code

ASSUME AvrAssumption ==
    /\ AVR_SEND_ATTEMPTS \in Nat \ {0}
    /\ AVR_RECV_ATTEMPTS \in Nat \ {0}
    /\ DbSizes \in Seq(Nat)
    /\ TEMP_BURST \in Nat \ {0}

VARIABLES
    apc,                \* where the AVR is
    back,               \* where communication_send returns to
    agid,               \* packet_global_id
    aattempt,           \* attempt, the loop variable of both functions
    apkt,               \* the packet being sent
    command_current,    \* the command in use, or "none"
    command_notified,   \* the last packet sent was acknowledged
    temp_db_id, temp_idx, temp_count,   \* state of temperatures_download
    ran                 \* the jobs whose command was executed, in order

avrVars == <<apc, back, agid, aattempt, apkt, command_current,
             command_notified, temp_db_id, temp_idx, temp_count, ran>>

download == <<temp_db_id, temp_idx, temp_count>>

AvrInit ==
    /\ apc = "top" /\ back = "top" /\ agid = 0 /\ aattempt = 0
    /\ apkt = Packet("ACK", 0, <<>>)
    /\ command_current = "none" /\ command_notified = FALSE
    /\ temp_db_id = 0 /\ temp_idx = 0 /\ temp_count = 0
    /\ ran = <<>>

\* communication_craft_and_send, called with id as packet_global_id
Send(id, type, body, return) ==
    /\ apkt' = Packet(type, id, body)
    /\ apc' = "send" /\ aattempt' = 0 /\ back' = return

-----------------------------------------------------------------------------

\* The databases from the given one on that are not empty
NonEmptyFrom(db) == {d \in db .. Len(DbSizes) - 1 : DbSizes[d + 1] > 0}

NextDb(db) == CHOOSE d \in NonEmptyFrom(db) : \A e \in NonEmptyFrom(db) : d <= e

\* _change_current_db: announce the next database, or the end with an empty CTR.  At
\* the end the code also overwrites temp_db_id and temp_count, which nothing reads
\* before the next download starts: they are left as they are.
ChangeDb(id, db, return) ==
    IF NonEmptyFrom(db) = {}
      THEN /\ Send(id, "CTR", <<>>, return)
           /\ UNCHANGED download
      ELSE /\ temp_db_id' = NextDb(db) /\ temp_idx' = 0
           /\ temp_count' = DbSizes[NextDb(db) + 1]
           /\ Send(id, "CTR", <<<<NextDb(db), DbSizes[NextDb(db) + 1]>>>>, return)

\* Mutant: the MIN is missing
BurstLengthNoMin == TEMP_BURST

BurstLength ==
    IF temp_count - temp_idx > TEMP_BURST THEN TEMP_BURST ELSE temp_count - temp_idx

Burst == [i \in 1 .. BurstLength |-> <<temp_db_id, temp_idx + i - 1>>]

\* _iterate of temperatures_download.  temp_idx moves on whatever the outcome
\* of the send is; nothing reads it before the send returns.
DownloadIterate ==
    IF temp_idx = temp_count
      THEN /\ ChangeDb(agid, temp_db_id + 1, "rx")
           /\ command_current' =
                IF NonEmptyFrom(temp_db_id + 1) = {} THEN "none" ELSE "download"
      ELSE /\ Send(agid, "DAT", Burst, "rx")
           /\ temp_idx' = temp_idx + BurstLength
           /\ UNCHANGED <<temp_db_id, temp_count, command_current>>

\* communication_handler, first part: iterate the current command.  For no
\* command, command_iterate fails and command_end has nothing to end.
AvrIterate ==
    /\ apc = "top" /\ command_notified
    /\ command_notified' = FALSE
    /\ IF command_current = "download"
         THEN DownloadIterate
         ELSE /\ apc' = "rx"
              /\ UNCHANGED <<back, aattempt, apkt, command_current, download>>
    /\ UNCHANGED <<lineVars, agid, ran>>

\* Second part: receive only if data is available
AvrPoll ==
    /\ apc = "rx" \/ (apc = "top" /\ ~command_notified)
    /\ IF toAvr # <<>>
         THEN apc' = "recv" /\ aattempt' = 0
         ELSE apc = "rx" /\ apc' = "top" /\ UNCHANGED aattempt
    /\ UNCHANGED <<lineVars, back, agid, apkt, command_current, command_notified,
                   download, ran>>

-----------------------------------------------------------------------------

\* _op_cmd: run the start routine of the command.  command_current changes
\* only for a command that is ongoing; nothing reads it before start returns.
OpCmd(id, p) ==
    /\ ran' = Append(ran, p.body[1][2])
    /\ CASE p.cmd = "set" ->
              apc' = "top" /\ aattempt' = 0
              /\ UNCHANGED <<back, apkt, command_current, download>>
         [] p.cmd = "echo" ->
              Send(id, "DAT", p.body, "top")
              /\ UNCHANGED <<command_current, download>>
         [] p.cmd = "download" ->
              ChangeDb(id, 0, "top")
              /\ command_current' =
                   IF NonEmptyFrom(0) = {} THEN command_current ELSE "download"

\* Mutant: a handshake does not restart the ids
IdAfterNoRestart(p) == packet_next_id(agid)

\* packet_global_id once a packet is received
IdAfter(p) == IF p.type = "HND" THEN 1 ELSE packet_next_id(agid)

\* communication_recv succeeds.  Any id is taken: the id test of _recv_attempt
\* only concerns HND packets, whose id is always 0.  The packet is acknowledged
\* with its own id and dispatched to the operation of its type, if any.
AvrReceive ==
    /\ apc = "recv" /\ toAvr # <<>> /\ Good(Head(toAvr))
    /\ LET p  == Head(toAvr)
           id == IdAfter(p)
       IN  /\ toAvr' = Tail(toAvr)
           /\ toHost' = Append(toHost, packet_ack(p))
           /\ agid' = id
           /\ IF p.type = "CMD"
                THEN OpCmd(id, p)
                ELSE /\ apc' = "top" /\ aattempt' = 0
                     /\ UNCHANGED <<back, apkt, command_current, download, ran>>
    /\ UNCHANGED <<faults, command_notified>>

\* Corruption: send ERR, then discard what arrives until the RTO elapses
AvrReject ==
    /\ apc = "recv" /\ toAvr # <<>> /\ ~Good(Head(toAvr))
    /\ toAvr' = <<>>
    /\ toHost' = Append(toHost, packet_err(Head(toAvr)))
    /\ apc' = "recvwait"
    /\ UNCHANGED <<faults, back, agid, aattempt, apkt, command_current,
                   command_notified, download, ran>>

\* Mutant: the attempts are not counted
AvrNextAttemptForever(bound, pc, return) ==
    apc' = pc /\ UNCHANGED <<aattempt, agid>>

AvrNextAttempt(bound, pc, return) ==
    IF aattempt + 1 < bound
      THEN aattempt' = aattempt + 1 /\ apc' = pc /\ UNCHANGED agid
      ELSE aattempt' = 0 /\ apc' = return /\ agid' = 0

AvrUndelivered == <<back, apkt, command_current, command_notified, download, ran>>

AvrRecvTimeout ==
    /\ \/ apc = "recv" /\ toAvr' \in CutShort(toAvr)
       \/ apc = "recvwait" /\ toAvr' = <<>>
    /\ AvrNextAttempt(AVR_RECV_ATTEMPTS, "recv", "top")
    /\ UNCHANGED <<toHost, faults, AvrUndelivered>>

\* Timer 3 runs all the time and rto_timer_start does not clear OCF3A: a match
\* since the last interrupt ends the first attempt before it reads anything
AvrStaleMatch ==
    /\ apc = "recv" /\ aattempt = 0
    /\ AvrNextAttempt(AVR_RECV_ATTEMPTS, "recv", "top")
    /\ UNCHANGED <<lineVars, AvrUndelivered>>

-----------------------------------------------------------------------------

AvrTransmit ==
    /\ apc = "send"
    /\ toHost' = Append(toHost, apkt)
    /\ apc' = "await"
    /\ UNCHANGED <<toAvr, faults, agid, aattempt, AvrUndelivered>>

\* An ACK of any id will do, no other packet
AvrAcked ==
    /\ apc = "await" /\ toAvr # <<>> /\ Head(toAvr).type = "ACK"
    /\ toAvr' = Tail(toAvr)
    /\ agid' = packet_next_id(agid)
    /\ command_notified' = TRUE
    /\ apc' = back /\ aattempt' = 0
    /\ UNCHANGED <<toHost, faults, back, apkt, command_current, download, ran>>

AvrNotAcked ==
    /\ apc = "await" /\ toAvr # <<>> /\ Head(toAvr).type # "ACK"
    /\ IF Good(Head(toAvr)) THEN toAvr' = Tail(toAvr)
                            ELSE toAvr' \in Leftovers(toAvr)
    /\ apc' = "sendwait"
    /\ UNCHANGED <<toHost, faults, agid, aattempt, AvrUndelivered>>

AvrSendTimeout ==
    /\ \/ apc = "await" /\ toAvr' \in CutShort(toAvr)
       \/ apc = "sendwait" /\ UNCHANGED toAvr
    /\ AvrNextAttempt(AVR_SEND_ATTEMPTS, "send", back)
    /\ UNCHANGED <<toHost, faults, AvrUndelivered>>

-----------------------------------------------------------------------------

\* The steps that do not wait for the RTO timer
AvrProgress ==
    \/ AvrIterate \/ AvrPoll \/ AvrReceive \/ AvrReject \/ AvrStaleMatch
    \/ AvrTransmit \/ AvrAcked \/ AvrNotAcked

AvrTimeout == AvrRecvTimeout \/ AvrSendTimeout

\* Some step of AvrProgress other than a stale match is enabled
AvrBusy ==
    \/ apc \in {"send", "rx"}
    \/ (apc = "top" /\ (command_notified \/ toAvr # <<>>))
    \/ (apc \in {"recv", "await"} /\ toAvr # <<>>)
=============================================================================
