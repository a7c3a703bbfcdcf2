-------------------------------- MODULE Link --------------------------------
(***************************************************************************)
(* The host and the AVR joined by the serial line.                         *)
(*                                                                         *)
(* Timing.  A packet takes at most 8 ms on the line and a handler a few    *)
(* milliseconds, the RTO timer of either side 150 ms.  So a timer fires    *)
(* only when neither side has anything else to do, and never twice while   *)
(* the other side's timer runs on without firing: "due" is the side whose  *)
(* timer was running when the other one fired.  The exception is a signal  *)
(* of an earlier exchange that comes while the host starts its timer again *)
(* (HostSignalled): it has nothing to do with the time on the line.        *)
(***************************************************************************)
EXTENDS HostComm, AvrComm

VARIABLE due

vars == <<lineVars, hostVars, avrVars, due>>

Init == LineInit /\ HostInit /\ AvrInit /\ due = "none"

Quiet == ~HostBusy /\ ~AvrBusy

HostTimerRuns == hpc \in {"await", "sendwait", "recv", "recvwait"}
AvrTimerRuns  == apc \in {"await", "sendwait", "recv", "recvwait"}

\* A timer that was stopped or started again is not due any more
HostRestarts == ~HostTimerRuns' \/ hattempt' # hattempt \/ hgid' # hgid
AvrRestarts  == ~AvrTimerRuns' \/ aattempt' # aattempt

HostStep ==
    /\ (\E cmd \in Commands \cup {"connect"} : Issue(cmd)) \/ HostProgress
    /\ due' = IF due = "host" /\ HostRestarts THEN "none" ELSE due
    /\ UNCHANGED avrVars

\* The timer of an earlier exchange elapses while the host starts it again
HostSignalled ==
    /\ HostStaleSignal
    /\ due' = IF due = "host" /\ HostRestarts THEN "none" ELSE due
    /\ UNCHANGED avrVars

HostTimerFires ==
    /\ Quiet /\ due # "avr" /\ HostTimeout
    /\ due' = IF AvrTimerRuns THEN "avr" ELSE "none"
    /\ UNCHANGED avrVars

AvrStep ==
    /\ AvrProgress
    /\ due' = IF due = "avr" /\ AvrRestarts THEN "none" ELSE due
    /\ UNCHANGED hostVars

AvrTimerFires ==
    /\ Quiet /\ due # "host" /\ AvrTimeout
    /\ due' = IF HostTimerRuns THEN "host" ELSE "none"
    /\ UNCHANGED hostVars

Next ==
    \/ HostStep \/ HostTimerFires \/ HostSignalled
    \/ AvrStep \/ AvrTimerFires
    \/ LineFault /\ UNCHANGED <<hostVars, avrVars, due>>

(***************************************************************************)
(* The main loop and a shell command in progress never stop by themselves, *)
(* and a running timer fires; nothing makes the user issue a command or    *)
(* the line fail.                                                          *)
(***************************************************************************)
Fairness ==
    /\ WF_vars(HostStep /\ hpc # "shell")
    /\ WF_vars(HostTimerFires)
    /\ WF_vars(AvrStep)
    /\ WF_vars(AvrTimerFires)

Spec == Init /\ [][Next]_vars
FairSpec == Spec /\ Fairness

-----------------------------------------------------------------------------

Data == Seq((Nat \cup {ArgTag}) \X Nat)

Packets ==
    [type : {"HND", "ACK", "ERR", "CMD", "CTR", "DAT", "BAD"}, id : Ids,
     cmd : Commands \cup {"none"}, body : Data]

DbLists == Seq([id : Nat \cup {ArgTag}, size : Nat, items : Data])

LineTypes ==
    toAvr \in Seq(Packets) /\ toHost \in Seq(Packets) /\ faults \in 0 .. MaxFaults

HostTypes ==
    /\ hpc \in {"shell", "send", "await", "sendwait", "recv", "recvwait"}
    /\ hgid \in Ids /\ hpkt \in Packets
    /\ hattempt \in 0 .. (IF hpc \in {"recv", "recvwait"}
                            THEN MAXIMUM_RECV_ATTEMPTS ELSE MAXIMUM_SEND_ATTEMPTS) - 1
    /\ jobs \in Seq([cmd : Commands \cup {"connect"},
                     result : {"running", "ok", "wrong", "failed"}])
    /\ dbList \in DbLists /\ storage \in Seq(DbLists)

AvrTypes ==
    /\ apc \in {"top", "rx", "send", "await", "sendwait", "recv", "recvwait"}
    /\ back \in {"top", "rx"}
    /\ agid \in Ids /\ apkt \in Packets
    /\ aattempt \in 0 .. (IF apc \in {"recv", "recvwait"}
                            THEN AVR_RECV_ATTEMPTS ELSE AVR_SEND_ATTEMPTS) - 1
    /\ command_current \in {"none", "download"} /\ command_notified \in BOOLEAN
    /\ temp_db_id \in Nat /\ temp_idx \in Nat /\ temp_count \in Nat
    /\ ran \in Seq(Nat)

\* The values the variables of both ends and of the line take: in particular
\* the ids stay 4 bits wide and no loop goes past its number of attempts
TypeOK == LineTypes /\ HostTypes /\ AvrTypes /\ due \in {"none", "host", "avr"}

\* A database as a download brings it, once its first n temperatures came
Brought(db, n) ==
    [id |-> db, size |-> DbSizes[db + 1], items |-> [i \in 1 .. n |-> <<db, i - 1>>]]

\* A list of exactly these databases, in order, each with all its temperatures
Lists(list, dbs) ==
    /\ \A i \in DOMAIN list :
          list[i].id \in dbs /\ list[i] = Brought(list[i].id, DbSizes[list[i].id + 1])
    /\ \A i, k \in DOMAIN list : i < k => list[i].id < list[k].id
    /\ \A db \in dbs : \E i \in DOMAIN list : list[i].id = db

\* Whatever the line loses or spoils, whatever was left half done by earlier
\* commands, a download that the shell adds to its storage is complete,
\* without gaps and without repetitions: it lists the databases of the tmon that
\* are not empty.
DownloadExact == \A k \in DOMAIN storage : Lists(storage[k], NonEmptyFrom(0))

\* Commands are executed in the order they were issued: a retransmission that
\* is executed late never comes after a later command.
RanInOrder == \A i, k \in DOMAIN ran : i < k => ran[i] <= ran[k]

\* Both ends always get out of their retransmissions: a shell command returns
\* and the AVR main loop runs again, even when both ends are sending and each
\* takes the other's packet for a failed acknowledgement.
ShellReturns == hpc # "shell" ~> hpc = "shell"
MainLoopRuns == []<>(apc \in {"top", "rx"})

\* On a line without faults the two ends implement Exchange.
Reliable == INSTANCE Exchange
ImplementsExchange == Reliable!Spec

\* On a line without faults the two ends agree on the next id whenever both
\* are at rest.
IdsAgree ==
    (hpc = "shell" /\ apc \in {"top", "rx"} /\ toAvr = <<>> /\ jobs # <<>>)
        => hgid = agid

-----------------------------------------------------------------------------

\* README.md:122: packet ids are there to "avoid collisions of (i.e.
\* distinguish) successive packets": a packet sent again is not a new command.
AtMostOnce == \A i, k \in DOMAIN ran : ran[i] = ran[k] => i = k
=============================================================================
