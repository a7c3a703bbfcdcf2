------------------------------ MODULE HostComm ------------------------------
(***************************************************************************)
(* The host end of the protocol (sources/host/communication.c) driven by   *)
(* the shell commands (sources/host/shell_commands.c).                     *)
(*                                                                         *)
(* The shell runs one job at a time.  A job sends one packet and, when     *)
(* the command has a response, receives one packet ("echo", which also     *)
(* stands for tmon-config get) or packets up to an empty CTR ("download"). *)
(* "set" stands for every command without a response.                      *)
(***************************************************************************)
EXTENDS SerialLine

CONSTANTS
    MAXIMUM_SEND_ATTEMPTS,  \* 3 in communication.h
    MAXIMUM_RECV_ATTEMPTS,  \* 3 in communication.h
    StaleSignals,           \* may the timer of an earlier exchange elapse as one starts?
    MaxJobs                 \* bound on the shell commands issued

ASSUME HostAssumption ==
    /\ MAXIMUM_SEND_ATTEMPTS \in Nat \ {0}
    /\ MAXIMUM_RECV_ATTEMPTS \in Nat \ {0}
    /\ StaleSignals \in BOOLEAN
    /\ MaxJobs \in Nat

VARIABLES
    hpc,        \* where the host is in communication_send / communication_recv
    hgid,       \* packet_global_id
    hattempt,   \* attempt, the loop variable of both functions
    hpkt,       \* the packet being sent
    jobs,       \* the shell commands issued so far, with their results
    dbList,     \* db_list, the databases of the download in progress
    storage     \* st->dbs: the databases each completed download added

hostVars == <<hpc, hgid, hattempt, hpkt, jobs, dbList, storage>>

Commands == {"set", "echo", "download"}

\* The jobs that end with the acknowledgement of their packet
NoResponse == {"connect", "set"}

HostInit ==
    /\ hpc = "shell" /\ hgid = 0 /\ hattempt = 0
    /\ hpkt = Packet("HND", 0, <<>>)
    /\ jobs = <<>> /\ dbList = <<>> /\ storage = <<>>

job == Len(jobs)                                 \* the job in progress

SetResult(result) == jobs' = [jobs EXCEPT ![job].result = result]

\* The shell command returns; a failed download deletes its list
ShellReturn(result) ==
    hpc' = "shell" /\ hattempt' = 0 /\ SetResult(result) /\ dbList' = <<>>

\* Issue a shell command: craft its packet, flush the RX buffers
Issue(cmd) ==
    /\ hpc = "shell" /\ job < MaxJobs
    /\ cmd # "connect" => jobs # <<>>            \* "tmon is not connected"
    /\ jobs' = Append(jobs, [cmd |-> cmd, result |-> "running"])
    /\ IF cmd = "connect"
         THEN hgid' = 0 /\ hpkt' = Packet("HND", 0, <<>>)
         ELSE /\ hpkt' = CmdPacket(hgid, cmd, job + 1)
              /\ UNCHANGED hgid
    /\ toHost' \in Flushed(toHost)
    /\ hpc' = "send"
    /\ UNCHANGED <<toAvr, faults, hattempt, dbList, storage>>

\* Mutant: the packet overtakes those already on the line
HostTransmitFirst ==
    /\ hpc = "send"
    /\ toAvr' = <<hpkt>> \o toAvr
    /\ hpc' = "await"
    /\ UNCHANGED <<toHost, faults, hgid, hattempt, hpkt, jobs, dbList, storage>>

\* One attempt of communication_send begins: arm the timer, transmit
HostTransmit ==
    /\ hpc = "send"
    /\ toAvr' = Append(toAvr, hpkt)
    /\ hpc' = "await"
    /\ UNCHANGED <<toHost, faults, hgid, hattempt, hpkt, jobs, dbList, storage>>

\* Mutant: no test of the id
AcceptedAnyId(p) == Good(p)

\* _recv_attempt succeeds: the expected id first, then the two checks
Accepted(p) == Good(p) /\ p.id = hgid

HostAcked ==
    /\ hpc = "await" /\ toHost # <<>>
    /\ Accepted(Head(toHost)) /\ Head(toHost).type = "ACK"
    /\ toHost' = Tail(toHost)
    /\ hgid' = packet_next_id(hgid)
    /\ IF jobs[job].cmd \in NoResponse
         THEN ShellReturn("ok")
         ELSE hpc' = "recv" /\ hattempt' = 0 /\ UNCHANGED <<jobs, dbList>>
    /\ UNCHANGED <<toAvr, faults, hpkt, storage>>

\* Anything but an ACK is a failure: pause() until the RTO elapses
HostNotAcked ==
    /\ hpc = "await" /\ toHost # <<>>
    /\ IF Accepted(Head(toHost))
         THEN Head(toHost).type # "ACK" /\ toHost' = Tail(toHost)
         ELSE toHost' \in Leftovers(toHost)
    /\ hpc' = "sendwait"
    /\ UNCHANGED <<toAvr, faults, hgid, hattempt, hpkt, jobs, dbList, storage>>

\* Mutant: one attempt too many
NextAttemptExtra(bound, pc) ==
    IF hattempt < bound
      THEN /\ hattempt' = hattempt + 1 /\ hpc' = pc
           /\ UNCHANGED <<hgid, jobs, dbList>>
      ELSE hgid' = 0 /\ ShellReturn("failed")

\* The attempt is over; after the last one the id restarts and the job fails
NextAttempt(bound, pc) ==
    IF hattempt + 1 < bound
      THEN /\ hattempt' = hattempt + 1 /\ hpc' = pc
           /\ UNCHANGED <<hgid, jobs, dbList>>
      ELSE hgid' = 0 /\ ShellReturn("failed")

\* Mutant: the timer does not end the wait after a failed acknowledgement
HostSendTimeoutMissed ==
    /\ hpc = "await" /\ toHost' \in CutShort(toHost)
    /\ NextAttempt(MAXIMUM_SEND_ATTEMPTS, "send")
    /\ UNCHANGED <<toAvr, faults, hpkt, storage>>

HostSendTimeout ==
    /\ \/ hpc = "await" /\ toHost' \in CutShort(toHost)
       \/ hpc = "sendwait" /\ UNCHANGED toHost
    /\ NextAttempt(MAXIMUM_SEND_ATTEMPTS, "send")
    /\ UNCHANGED <<toAvr, faults, hpkt, storage>>

-----------------------------------------------------------------------------

\* temperature_db_new and list_add, the latter to the tail
NewDb(info) == [id |-> info[1], size |-> info[2], items |-> <<>>]
ListAdd(db) == Append(dbList, db)

\* temperature_register_bulk, on the database that the download is at
RegisterBulk(burst) == [dbList EXCEPT ![Len(dbList)].items = @ \o burst]

\* list_concat: an empty list of databases leaves the storage as it is
ListConcat == IF dbList = <<>> THEN storage ELSE Append(storage, dbList)

Fits(db, burst) == db.size >= Len(db.items) + Len(burst)

\* tmon_echo checks only the size of what came back: some other data may pass
EchoReply(p) ==
    /\ \/ p.body = Argument(job) /\ ShellReturn("ok")
       \/ p.body # Argument(job) /\ p.body # <<>> /\ ShellReturn("wrong")
       \/ p.body # Argument(job) /\ ShellReturn("failed")
    /\ UNCHANGED storage

\* download: one packet of the sequence CTR info, DAT..., CTR info, ..., CTR
DownloadReply(p) ==
    \/ /\ p.type = "CTR" /\ p.body = <<>>        \* end of the communication
       /\ storage' = ListConcat
       /\ ShellReturn("ok")
    \/ /\ p.type = "CTR" /\ p.body # <<>>        \* new database
       /\ dbList' = ListAdd(NewDb(p.body[1]))
       /\ hpc' = "recv" /\ hattempt' = 0
       /\ UNCHANGED <<jobs, storage>>
    \/ /\ p.type = "DAT" /\ dbList # <<>> /\ p.body # <<>>
       /\ Fits(dbList[Len(dbList)], p.body)      \* new temperatures
       /\ dbList' = RegisterBulk(p.body)
       /\ hpc' = "recv" /\ hattempt' = 0
       /\ UNCHANGED <<jobs, storage>>
    \/ /\ \/ p.type \notin {"CTR", "DAT"}
          \/ p.type = "DAT" /\ (dbList = <<>> \/ p.body = <<>>)
          \/ p.type = "DAT" /\ dbList # <<>> /\ ~Fits(dbList[Len(dbList)], p.body)
       /\ ShellReturn("failed") /\ UNCHANGED storage

HostReceive ==
    /\ hpc = "recv" /\ toHost # <<>> /\ Accepted(Head(toHost))
    /\ toHost' = Tail(toHost)
    /\ toAvr' = Append(toAvr, packet_ack(Head(toHost)))
    /\ hgid' = packet_next_id(hgid)
    /\ IF jobs[job].cmd = "echo" THEN EchoReply(Head(toHost))
                                 ELSE DownloadReply(Head(toHost))
    /\ UNCHANGED <<faults, hpkt>>

\* Mismatching id or corruption: send ERR, then pause() until the RTO elapses
HostReject ==
    /\ hpc = "recv" /\ toHost # <<>> /\ ~Accepted(Head(toHost))
    /\ toHost' \in Leftovers(toHost)
    /\ toAvr' = Append(toAvr, packet_err(Head(toHost)))
    /\ hpc' = "recvwait"
    /\ UNCHANGED <<faults, hgid, hattempt, hpkt, jobs, dbList, storage>>

HostRecvTimeout ==
    /\ \/ hpc = "recv" /\ toHost' \in CutShort(toHost)
       \/ hpc = "recvwait" /\ UNCHANGED toHost
    /\ NextAttempt(MAXIMUM_RECV_ATTEMPTS, "recv")
    /\ UNCHANGED <<toAvr, faults, hpkt, storage>>

-----------------------------------------------------------------------------

\* The timer of an earlier exchange is never disarmed: when it elapses while
\* rto_timer_start is between the reset of elapsed and timer_settime, the first attempt
\* to send or to receive is over at once.  It counts as a fault.
HostStaleSignal ==
    /\ StaleSignals /\ hattempt = 0
    /\ faults < MaxFaults /\ faults' = faults + 1
    /\ \/ /\ hpc = "send" /\ job > 1
          /\ toAvr' = Append(toAvr, hpkt)
          /\ NextAttempt(MAXIMUM_SEND_ATTEMPTS, "send")
       \/ /\ hpc = "recv"
          /\ NextAttempt(MAXIMUM_RECV_ATTEMPTS, "recv") /\ UNCHANGED toAvr
    /\ UNCHANGED <<toHost, hpkt, storage>>

\* The steps that do not wait for the RTO timer
HostProgress ==
    HostTransmit \/ HostAcked \/ HostNotAcked \/ HostReceive \/ HostReject

HostTimeout == HostSendTimeout \/ HostRecvTimeout

\* Some step of HostProgress is enabled
HostBusy == hpc = "send" \/ (hpc \in {"await", "recv"} /\ toHost # <<>>)
=============================================================================
