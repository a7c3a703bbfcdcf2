------------------------------- MODULE Shell -------------------------------
(***************************************************************************)
(* The shell of the host: its loop (sources/host/shell.c), its start and   *)
(* end (sources/host/main.c) and its commands (shell_commands.c), over the *)
(* storage of HostStore and the exchanges of RtoTimer.  The answer of the  *)
(* tmon is a choice; Link models the protocol itself.                      *)
(***************************************************************************)
EXTENDS RtoTimer, HostStore

VARIABLES
    place,      \* "auto", "fgets", "command", "cleanup", "exited"
    command,    \* the command that runs
    pending,    \* exchanges of the command that have not been called yet
    flags,      \* the flags of the shell
    serial_ctx  \* there is a serial context

shellVars == <<place, command, pending, flags, serial_ctx>>
vars == <<timerVars, storeVars, shellVars>>

\* Commands that exchange packets with the tmon: send and query stand for those
\* that send a CMD packet, and for those that also wait for a packet
Exchanging == {"connect", "download", "send", "query"}

None == "none"

\* Options: -c connects before the first line; -s makes the shell a script
Init ==
    /\ TimerInit /\ StoreInit
    /\ place \in {"auto", "fgets"} /\ command = None /\ pending = 0
    /\ flags \in {{}, {"SCRIPT_MODE", "EXIT_ON_ERR"}}
    /\ serial_ctx = FALSE

\* What main and the loop do with the value a command returns: 0 is success
Return(ret) ==
    /\ command' = None /\ pending' = 0
    /\ place' = IF place = "auto" \/ (command = "auto connect" /\ ret # 0) THEN "exited"
                ELSE IF (ret # 0 /\ "EXIT_ON_ERR" \in flags) \/ "SIG_EXIT" \in flags'
                     THEN "cleanup" ELSE "fgets"

AtPrompt == place = "fgets"

-----------------------------------------------------------------------------

\* Commands without an exchange.  An empty line returns 0, an unknown name 127,
\* a wrong number of arguments 1; help, echo, list and export change nothing.
RunLocal ==
    /\ AtPrompt
    /\ \E ret \in {0, 1, 2, 3, 127} : UNCHANGED flags /\ Return(ret)
    /\ UNCHANGED <<timerVars, storeVars, serial_ctx>>

Exit ==
    /\ AtPrompt
    /\ flags' = flags \cup {"SIG_EXIT"}
    /\ Return(0)
    /\ UNCHANGED <<timerVars, storeVars, serial_ctx>>

\* disconnect closes the device; serial_close sends nothing
Disconnect ==
    /\ AtPrompt
    /\ serial_ctx' = FALSE
    /\ UNCHANGED flags
    /\ Return(IF serial_ctx THEN 0 ELSE 2)
    /\ UNCHANGED <<timerVars, storeVars>>

\* connect, by a line or by -c: opens the device unless it is open, whatever
\* the path, then sends the handshake.  A handshake that fails leaves it open.
ConnectFails ==
    /\ place \in {"auto", "fgets"} /\ ~serial_ctx
    /\ UNCHANGED flags
    /\ Return(2)
    /\ UNCHANGED <<timerVars, storeVars, serial_ctx>>

Connect ==
    /\ place \in {"auto", "fgets"}
    /\ serial_ctx' = TRUE
    /\ place' = "command"
    /\ command' = IF place = "auto" THEN "auto connect" ELSE "connect"
    /\ pending' = 0
    /\ CallExchange
    /\ UNCHANGED <<storeVars, flags>>

\* The commands that need a serial context
Begin(cmd, answers) ==
    /\ AtPrompt /\ serial_ctx
    /\ place' = "command" /\ command' = cmd /\ pending' = answers
    /\ CallExchange
    /\ UNCHANGED <<flags, serial_ctx>>

Send == Begin("send", 0) /\ UNCHANGED storeVars
Query == Begin("query", 1) /\ UNCHANGED storeVars
Download == Begin("download", 1) /\ DownloadBegin

-----------------------------------------------------------------------------

Ends(ret) == UNCHANGED <<flags, serial_ctx>> /\ Return(ret)

\* The exchange failed, and the command with it
ExchangeFailed ==
    /\ place = "command" /\ TakeOutcome("failed")
    /\ IF Downloading THEN DownloadFails ELSE UNCHANGED storeVars
    /\ Ends(3)

\* The command was sent, and its answer is waited for
Answer ==
    /\ place = "command" /\ outcome = "ok" /\ pending > 0
    /\ CallExchange
    /\ pending' = pending - 1
    /\ UNCHANGED <<storeVars, place, command, flags, serial_ctx>>

\* Nothing more to do; a query may find that the answer is not what it expects
Finished ==
    /\ place = "command" /\ command # "download" /\ pending = 0
    /\ TakeOutcome("ok")
    /\ \E ret \in IF command = "query" THEN {0, 2, 3} ELSE {0} : Ends(ret)
    /\ UNCHANGED storeVars

\* A packet of the download arrived
Received ==
    place = "command" /\ command = "download" /\ pending = 0 /\ outcome = "ok"

DownloadPacket ==
    /\ Received
    /\ \/ \E size \in Sizes : NewDb(size)
       \/ \E burst \in Bursts : NewTemperatures(burst)
    /\ CallExchange
    /\ UNCHANGED shellVars

DownloadEnd ==
    /\ Received /\ TakeOutcome("ok")
    /\ DownloadEnds
    /\ Ends(0)

\* Too many temperatures, none, none expected, or an unexpected packet
DownloadRefuses ==
    /\ Received /\ TakeOutcome("ok")
    /\ DownloadFails
    /\ Ends(3)

-----------------------------------------------------------------------------

\* The end of the input; main then cleans up
EndOfInput ==
    /\ AtPrompt
    /\ place' = "cleanup"
    /\ UNCHANGED <<timerVars, storeVars, command, pending, flags, serial_ctx>>

\* communication_cleanup, then shell_cleanup
CommunicationCleanup ==
    /\ place = "cleanup" /\ handled
    /\ ResetHandler
    /\ UNCHANGED <<storeVars, shellVars>>

ShellCleanup ==
    /\ place = "cleanup" /\ DeleteTimer
    /\ place' = "exited" /\ serial_ctx' = FALSE
    /\ mem' = list_delete(mem, dbs) /\ dbs' = list_new
    /\ UNCHANGED <<db_incr_counter, db_list, db_current, db_id, command, pending, flags>>

\* A signal at the prompt interrupts fgets, which the loop calls again
Signal == place # "exited" /\ TimerElapses /\ UNCHANGED <<storeVars, shellVars>>

InExchange == ExchangeStep /\ UNCHANGED <<storeVars, shellVars>>

InCommand ==
    \/ InExchange \/ ExchangeFailed \/ Answer \/ Finished
    \/ DownloadPacket \/ DownloadEnd \/ DownloadRefuses

Line == RunLocal \/ Exit \/ Disconnect \/ ConnectFails \/ Connect \/ Send \/ Query \/ Download

Next ==
    \/ at # "killed" /\ (Line \/ InCommand \/ EndOfInput \/ CommunicationCleanup \/ ShellCleanup)
    \/ Signal

\* An armed timer elapses and the shell goes on with its command.  The tmon may
\* fall silent: bytes are not for ever.
Fairness == WF_vars(Signal) /\ WF_vars(InCommand) /\ WF_vars(CommunicationCleanup \/ ShellCleanup)

Spec == Init /\ [][Next]_vars
FairSpec == Spec /\ Fairness

-----------------------------------------------------------------------------

TypeOK ==
    /\ elapsed \in BOOLEAN /\ ongoing \in BOOLEAN /\ armed \in BOOLEAN /\ handled \in BOOLEAN
    /\ at \in Places /\ attempt \in 0 .. MAXIMUM_ATTEMPTS - 1
    /\ outcome \in {"none", "ok", "failed"}
    /\ DOMAIN mem \subseteq Nodes
    /\ \A n \in DOMAIN mem :
          /\ mem[n].next \in Nodes \cup {NULL}
          /\ mem[n].value \in [id : 0 .. DB_IDS - 1, size : Sizes, used : Nat]
          /\ mem[n].value.used <= mem[n].value.size    \* no item past the end
    /\ \A l \in Lists : l \in [head : Nodes \cup {NULL}, tail : Nodes \cup {NULL}, size : 0 .. MaxDbs]
    /\ db_incr_counter \in 0 .. DB_IDS /\ db_id \in 0 .. DB_IDS - 1
    /\ db_current \in Nodes \cup {NULL}
    /\ place \in {"auto", "fgets", "command", "cleanup", "exited"}
    /\ command \in Exchanging \cup {"auto connect", None} /\ pending \in 0 .. 1
    /\ flags \subseteq {"SIG_EXIT", "SCRIPT_MODE", "EXIT_ON_ERR"}
    /\ serial_ctx \in BOOLEAN

\* The list of the host's databases, with its ids, is a store to which each
\* download adds all the databases it received or none (list_concat, the ids
\* of download, the error handler).
Store == INSTANCE DbStore WITH
    stored <- Values(mem, dbs), counter <- db_incr_counter, closed <- place = "exited"

ImplementsStore == Store!StoreSpec

\* A command returns to the loop, with or without the answer of the tmon, unless
\* the signal of an attempt that waits in pause() came just before pause().
ReturnsOrMissesSignal == place = "command" ~> place # "command" \/ SignalMissed

\* communication.h:33 and :37: sending and receiving a packet "returns 0 on
\* success, 1 on failure"; so a command always returns to the loop.
CommandReturns == place = "command" ~> place # "command"
=============================================================================
