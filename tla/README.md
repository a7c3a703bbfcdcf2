# A TLA+ verification project for avrtmon

avrtmon is a temperature monitor: an ATmega2560 board (the *tmon*) registers
temperatures into its EEPROM, and a shell on a host computer drives it and
downloads what it registered over a serial line. This directory holds TLA+ models
of the parts of it that are concurrent, distributed or persistent, the TLC
configurations that check them and proofs checked by TLAPS. Paths below are
relative to `src/sources`.

Run a model with `tlc -config LinkLossy.cfg MCLink.tla`, a proof with
`tlapm Buttons_proofs.tla`, and the same for the other modules named `*_proofs`.

## 1. Inventory

| Component | State it keeps | Operations | Talks to |
|---|---|---|---|
| Host packet exchange, `host/communication.c` | `packet_global_id`, the RTO timer (`elapsed`, `ongoing`), a serial context | `communication_connect`, `_disconnect`, `_send`, `_recv`, `_flush` | shell commands call it; it calls the serial layer; `SIGUSR1` interrupts it |
| AVR packet exchange and dispatch, `avr/communication.c`, `avr/command.c` | `packet_global_id`, `command_current`, `command_notified`, `opmode`, `rto_elapsed`, `rto_ongoing`, timer 3 | `communication_handler`, `_recv`, `_send`, `communication_craft_and_send`, `_op_hnd`, `_op_cmd`, `command_start/iterate` | called by the main loop; calls the command routines, which call it back to send |
| AVR commands, `avr/commands/` | the progress of `temperatures_download` (`temp_db_id`, `temp_idx`, `temp_count`, `db_info`, `temp_buf`) | start and iterate of each command | databases, daemon, configuration, packet exchange |
| Shell commands of the host, `host/shell_commands.c` | downloaded databases (`st->dbs`), `db_incr_counter`, the serial context (`st->serial_ctx`, NULL when not connected) | connect, disconnect, download, list, export, echo, tmon-config, start, stop, set-interval, set-resolution, reset | packet exchange, lists |
| AVR serial layer, `avr/serial.c`, `avr/ringbuffer.c` | RX ring buffer (`first`, `last`, `full`), TX buffer and its two counters, `tx_ongoing` | `serial_rx`, `serial_tx`, resets; RX and TX interrupts | main loop against interrupts |
| Host serial layer, `host/serial.c`, `host/ringbuffer.c` | ring buffer with a mutex, `rx_inter_buf`, the RX thread | `serial_open/close`, `serial_rx`, `serial_rx_flush`, `serial_tx` | shell thread against RX thread |
| Buttons and power off, `avr/buttons.c`, `avr/main.c` | per button `enabled`, `status`, `history`, `action`; `debouncing`; the masks of PCINT0, INT0, TIMER4 | three interrupts, `button_handler`, `button_enable/disable`, `poweroff`, `wakeup` | main loop against interrupts; the daemon's start and stop |
| AVR databases, `avr/temperature_specific.c` | the EEPROM, `local_db`, `local_db_aux` | `temperature_init`, `_db_new`, `_register`, `_db_reset`, the search for a database | daemon, download command |
| Registration daemon, `avr/temperature_daemon.c` | `timer_counter`, `timer_ongoing`, `timer_elapsed`, resolution, interval | `start`, `stop`, `set_*`, `handler`; the timer interrupt | databases, sensor; buttons and commands call it |
| Sensor, `avr/lmsensor.c` | `adc_result`, `adc_ongoing` | `lm_convert` | ADC interrupt, sleep |
| Packet format, `packet.c`, `crc.c`; conversions, `temperature.c` | none | craft, checks, ACK/ERR, CRC; database information to bytes and back | both ends |
| Configuration, `config.c`, `avr/nvm.c` | configuration in memory and in EEPROM | get, set, save | commands, everything at set up |
| Lists and storage of the host, `host/list.c`, `host/temperature_specific.c` | linked lists of databases | list operations, `temperature_register_bulk` | shell commands |
| Shell, `host/shell.c`, `host/main.c` | `flags` (script mode, exit on error, exit), the storage, the serial context | options, `shell_loop`, help, exit, clean up | shell commands; the timer's signal interrupts it |
| Generator, `config-gen` and `templates/`; tests | | code generation | |

What is hard:

* **Two retransmitting ends on one line.** Both ends use the same packet ids, each
  in its own way: the host rejects a packet of another id, the AVR takes any id. Each
  stops after a number of attempts and restarts its id at 0 without telling the
  other. Packets are lost, spoiled, late, repeated, or left half read.
* **Interrupts that share unprotected memory with the main loop** (`avr/serial.c`,
  `avr/ringbuffer.c`, `avr/buttons.c`, `avr/temperature_daemon.c`): flags that stay
  pending while masked, masks changed on both sides.
* **A thread and a signal handler on the host**: cancellation and join, a flush in
  two halves, `pause()`, a timer that goes on after the exchange it belongs to.
* **Power loss**: what the EEPROM holds must be found again, also when the cut comes between
  two writes.
* **Small integers**: 4-bit packet ids, 8-bit database ids, a 16-bit product.
* **Errors half way**: a download that fails must leave the storage as it was.

What makes each component correct:

* packet exchange — commands are executed in order and, without faults, exactly
  once; a download that is kept is complete; both ends always come back to rest;
* serial layers — a first-in first-out queue of bytes, whatever the interleaving; what
  is written goes out as it is; disconnecting ends;
* buttons — every enabled button can always be noticed, a press is counted once and
  served, the board can be woken up;
* databases and daemon — the EEPROM is a log of sessions that nothing but a reset
  changes; every database in it can be found; a stopped daemon registers nothing
  (but for what was already due); a session ends at the latest with the EEPROM full;
* host timer — no attempt waits without its timeout; storage — a download is stored whole or
  not at all, lists stay sound, ids tell databases apart;
* packet format — whatever is crafted passes the checks and a damaged packet does not;
  configuration — the EEPROM follows the memory, a field is what it was last set to.

`PROJECT.json` lists each component with what is modelled of it and, under
"hazards", each place where the code is exposed, with the properties that cover it.

## 2. Modules

```
SerialLine <- HostComm, AvrComm <- Link  --implements-->  Exchange     MCLink
Buttons                                                                MCButtons
Serial                                   --implements-->  ByteQueue
HostSerial
TempDb     <- Monitor                    --implements-->  MeasureLog   MCMonitor
LinkedList <- HostStore, RtoTimer <- Shell  --implements-->  DbStore   MCShell
Packet     <- Config <- Remote                                         MCRemote

proofs: Link_proofs, Buttons_proofs, Serial_proofs, HostSerial_proofs, Monitor_proofs,
        Shell_proofs, Remote_proofs, each over the module of that name;
        RingOrder, lemmas for Serial_proofs and HostSerial_proofs
```

### Link: host, line and AVR

`SerialLine` is the line as two queues of packets. A byte lost or flipped shows as a
packet that disappears or as a `BAD` entry: bytes that do not pass the checks. `BAD`
also stands for what is left in a queue when a receiver gives up in the middle of a
packet (`Leftovers`), which the source allows because nothing but a flush resynchronises
the two ends. `Flushed` leaves the line empty or with its last packet, whole or in
part, as `HostSerial` shows a flush of the host may do.

`HostComm` is `host/communication.c` under the shell commands. `hpc` is the place in
`communication_send` and `communication_recv`: transmit (`send`), wait for the
acknowledgement (`await`), wait for the RTO after something else arrived
(`sendwait`), receive (`recv`), wait after an ERR was sent (`recvwait`). `Issue` stands
for the commands of `shell_commands.c` and includes their flush; `HostAcked`,
`HostReceive` and `NextAttempt` include the way the command goes on or returns.
`echo` stands for every command with one response, `set` for every command without.

`AvrComm` is `avr/communication.c` under the main loop, with
`commands/temperatures_download.c` in full: `AvrIterate` is the first half of
`communication_handler` (iterate the ongoing command if the last packet was
acknowledged), `AvrPoll` and `AvrReceive` the second half, `OpCmd` the dispatch. The
state that follows a failed send is the code's: the id restarts at 0, the command
stays current and `command_notified` stays false. `AvrStaleMatch` is the timer 3 match
that is already pending when its interrupt is enabled.

`Link` composes them. A packet takes at most 8 ms on the line and the RTO timers last
150 ms, so a timer fires only when neither end has anything to do; `due` forbids the
timer of one end to fire twice while that of the other runs. This is the only
assumption on time: the order in which the two timers expire is free.
The timer of an exchange that succeeded goes on, and its signal may come between the two
statements of `rto_timer_start` (`elapsed` cleared, the timer not yet set again): the first attempt to
send or to receive is then over as soon as it begins, whatever is on the line. `HostSignalled` is that
event. It needs the host to be stopped for that moment, so it counts as a fault of `MaxFaults`, and
`StaleSignals` says whether a run has it; `RtoTimer` has the timer itself.

`Exchange` is what the protocol promises on a line that loses nothing: execute once,
then succeed.

### Buttons

`Buttons` has the three interrupt service routines of `avr/buttons.c` as actions that
are enabled by a mask and a pending flag, with their priorities, and the main loop cut
wherever an interrupt matters: `button_disable` is two steps, the set up is one (with
interrupts off). `poweroff` and the set up after the wake up are included. Flags follow
the hardware: an edge sets them even when masked, serving clears them, and enabling an
interrupt through the code's macros clears them (but for timer 4, whose macro does
not). `Debounce` lets pins move between the moment they are read and the moment the
flag is cleared.

### Serial and HostSerial

`Serial` cuts `serial_rx` at every field of the ring buffer that the receive interrupt
also writes (`RxStart`, `RxIsEmpty`, `RxPop`, `RxAdvance`, `RxNotFull`); the interrupt
`RxIsr` comes anywhere between. `udr` is the two-byte receiver of the USART, out of
which a third byte is lost; `IsFull` is the state in which the interrupt leaves it there.
`ByteQueue` is the queue it implements until the ring buffer fills up for the first time
(`filled`). Transmission is `serial_tx` and `TxIsr`. Bytes are numbered, so that a value is
also a position.

`HostSerial` has the RX thread (`RxRead`, `RxPush`, `RxCancel`), the shell's reads, the
two halves of `serial_rx_flush`, `serial_open` and `serial_close`. Ring buffer operations
are single steps: the code holds the mutex throughout. `refused` remembers the bytes that
`RxPush` found no room for, which the code drops.

### Monitor

`TempDb` is `avr/temperature_specific.c` over an EEPROM that is an array of cells, one for
each header field and each temperature; a database is found, as in the code, from the
length of the ones before it. `Monitor` adds the daemon, its timer interrupt between any
two handlers, the commands and buttons that drive it, resets and power cycles. `MeasureLog`
is the log of sessions that the EEPROM represents: `Sessions` reads all databases back
out of the cells, and its `count` is `local_db.used`, so that a temperature the daemon
counts has to be found there. `PowerOff` is the button, which keeps the memory; `PowerCut`
loses it and may come between the two writes of `temperature_register` (`CutInRegister`). Both end in
`temperature_init`, which may not return (`hung`): then nothing but another power cut happens. `MaxDbsPowered` is the
only restriction on the power cycles.

### Shell

`LinkedList` is `host/list.c` over a memory of nodes with their `next` pointers: an operator
for each function, giving the memory and the list it leaves, with nodes freed where the code
frees them. `HostStore` is what the shell keeps in such lists: the databases downloaded, those
of the download in progress, the counter that numbers them. `RtoTimer` is one exchange of
`host/communication.c` seen from its timer: `at` is the place in an attempt, from
`rto_timer_start` through the reads of bytes to the test of the flag and `pause()`, each a step
of its own, because `TimerElapses` (the signal and its handler) comes between any two. `ongoing` is
kept as the code keeps it, never set. `Shell` puts the loop of `host/shell.c`, the start and the clean up
of `host/main.c` and the commands on top of both. A command is its exchanges (`Answer`,
`DownloadPacket`) and what it does with their results; what the tmon answers is a choice,
which `Link` restricts. `send` and `query` stand for the commands that send a packet, and for those that also read
one. `DbStore` is the storage as its user sees it: `DownloadEnd` is its only step that adds.

### Remote

`Packet` is `packet.c` and `crc.c` byte by byte; a byte is the set of its bits, so that a
xor is a symmetric difference. `Config` is `config.c` over two arrays of bytes, memory and EEPROM.
`config_set` stands for the pair `config_set`, `config_save_field` of the command; the bytes that
differ are then written one by one, in any order (`SaveByte`), and a `Cut` may leave
the one being written erased: the order and the erased byte are what avr-libc and the
EEPROM of the ATmega2560 allow, not the repository's code, and `map` marks them external. `Remote`
carries requests of the shell through real packets to the commands of `avr/commands/`, and their
answers back. The exchange itself is reduced to its outcomes (executed or not,
`GiveUp` or `Done`): `Link` models it. History variables record what the user set (`set`), which fields a cut
caught half saved (`spoiled`) and what the tmon held when it answered (`held`).

## 3. What is checked

| Run | Bounds | What it shows |
|---|---|---|
| `LinkLossy` | 1 fault or stale signal, 4 shell commands, 2 attempts each side, ids modulo 16, databases of 1, 0 and 3 temperatures in bursts of 2 | `DownloadExact`, `RanInOrder`, `ShellReturns`, `MainLoopRuns`, types |
| `LinkReliable` | no fault, 5 shell commands, ids modulo 4 | `IdsAgree`, `ImplementsExchange` |
| `LinkRetransmission` | 1 fault, 2 commands, 3 attempts | violation of `AtMostOnce` |
| `ButtonsPower` | three buttons on their default pins; finite without any bound | `Attended`, `PressIsPolled`, `FallThenRise`, `PressIsServed`, types |
| `ButtonsResume` | the same | violation of `CanResume` |
| `SerialQueue` | buffers of 3, 5 unread bytes, 7 received, 4 sent | `ImplementsByteQueue`, `ReadsInOrder`, `TxExact`, types |
| `HostSerial` | ring buffer of 3, reads of up to 2, 5 unread bytes, 6 received | `InOrder`, `FreshIsWhole`, `CloseReturns`, types |
| `MonitorLog` | EEPROM of 21 cells, 3 ids, 1 reset, intervals 2 and 3, power cycles with up to two databases | `ImplementsLog`, `EveryDbFound`, `AtMostOneLate`, `SessionEnds`, `HangsOnlyFull`, `IntervalAtOnce`, types |
| `MonitorPower` | the same, power cycles with up to three databases | violation of `LastDbLoaded` |
| `HostShell` | 3 attempts, 4 databases of one temperature, ids modulo 3, bursts of 0 and 1 | `ImplementsStore`, `ListsSound`, `ListOpsExact`, `EveryDbExported`, `WaitIsTimed`, `ReturnsOrMissesSignal`, types |
| `HostWait` | 3 attempts, 1 database | violation of `CommandReturns` |
| `RemoteConfig` | 4 fields, 2 commands, 1 power cut, one database, values 232 and 258, strings of 1, 25 and 28 | `DamageDetected`, `CrcIsRemainder`, `KeptIsCurrent`, `FieldsAsSet`, `ShownIsHeld`, types |

Why the bounds are enough:

* **Link.** Four commands are a connect, a command whose acknowledgement is lost or
  that fails, a second connect and a command that meets what was left over; the
  databases make a download with an empty database to skip, a full burst and a short one. With
  one fault a job can already fail completely, because the stale timer match,
  leftovers and rejected ids take the other attempts. Two attempts are the least
  with which there is a retransmission. Ids modulo 4 wrap within one download.
* **Buttons.** One button on INT0 and two that share PCINT0: every way of sharing
  in the code. There is no bound on the edges or the time.
* **Serial, HostSerial.** The indexes wrap more than once, and with 5 unread bytes for 3
  places the buffers fill up and lose bytes: in `Serial` two wait in the receiver and a third
  is lost, in `HostSerial` the RX thread drops what finds no room. The real buffers hold one
  whole packet (32 bytes) and two (64).
* **Monitor.** Three ids tell the databases apart; their wrap is met by the proofs only. The EEPROM holds three sessions of one temperature or one of seventeen, and every
  mix between; the single one of seventeen, locked by a start, is where the board does not come back.
  `UINT16 = 4` makes the counter wrap and the product
  overflow: with resolution 2 and interval 2 it is 0. Of the two intervals one is below the other by one, so that
  set-interval finds the counter at it, below it and past it. `MaxDbsPowered` keeps out power
  cycles with three databases, after which the code goes on in the wrong one, as `MonitorPower` shows.
* **Shell.** Lists of 0 to 4 nodes are all the cases of `list_add_at` and `list_remove`;
  three ids wrap. Commands, signals and attempts are not bounded: only `MaxDbs` is.
* **Remote.** The fields are the first four of `config_t`: two of two bytes, two of one. The values are
  1000 with its high byte cleared, so that only one byte differs, and one that a single byte has no room
  for. Strings of 25 and 28 are the longest that is sent and one that is refused. `DamageDetected` inverts one bit of the header or one of four
  masks in any other byte; every packet that the commands craft is damaged in every such way. Two commands and a
  cut let a second command meet a field that the cut spoiled.

Deadlock is checked in the Buttons, HostSerial and Monitor runs. In the others the system really stops:
in Link, Serial and Remote once the bound on commands or bytes is used up, in Shell
when it exited, was killed or waits in `pause()` for a signal that it missed.
`ShellReturns`, `MainLoopRuns` and `ReturnsOrMissesSignal` do the work there.

### Fairness

* `Link`: a shell command in progress, the main loop of the AVR and the timers go on (weak
  fairness). Nothing obliges the user to issue a command or the line to fail. Faults are
  finite, but liveness does not rest on it: the attempts are.
* `Buttons`: the timer matches, pending interrupts are served, the main loop goes round (weak);
  its loop over the buttons comes to each of them, which an action chosen among many
  needs strong fairness for (`RunAction(b)`).
* `HostSerial`: the RX thread and the shell's second halves go on; reads by the shell are not assumed.
* `Monitor`: the timer and the handler go on. `SessionEnds` is stated for an interval that
  stays the same, because a user who goes on changing it can postpone the next match for ever.
* `Shell`: an armed timer of the kernel elapses, and a command and the clean up go on. The tmon may
  fall silent, and the user need not type anything. A tmon that goes on sending new databases for ever
  is excluded by `MaxDbs`; full databases refuse more temperatures by themselves.

### Disagreements between the code and its documentation

`PROJECT.json` quotes the lines. The first four are runs that find a counterexample:

1. `AtMostOnce` — the AVR does not compare ids of CMD packets: with a lost ACK the
   command runs twice (`avr/communication.c:100`).
2. `CanResume` — a bounce of the power button after INT0 was enabled again masks it, and
   timer 4 does not run in power down (`avr/buttons.c:84`).
3. `LastDbLoaded` — with three databases or more `temperature_init` stops at the second one
   (`avr/temperature_specific.c:45`).
4. `CommandReturns` — the signal that comes between the test of `rto_timer.elapsed` and
   `pause()` is lost, and the shell waits for ever (`host/communication.c:185`, and :141).
   `ReturnsOrMissesSignal` shows that this is the only way in which a command does not return.

Two are stated by properties that hold, which say what the code does where the text says something else:

5. `HangsOnlyFull` — when the only database has filled the EEPROM and one more start has locked it, the loop of
   `temperature_init` never ends (`avr/temperature_specific.c:45`): a power cycle leaves the board `hung`. `MonitorLog` reaches
   that state and shows that it is the only one, within its bounds on the power cycles; `HangsFull` proves it without them.
6. `IntervalAtOnce` — the comments at `avr/temperature_daemon.c:84` and `include/avr/temperature_daemon.h:23`, the repository's README (l.162),
   the man page and `host/shell_commands.c:386` say that set-interval has no effect on the session in progress. The interrupt compares with
   `timer_interval`, which the command changes at once (`avr/temperature_daemon.c:33`). The property says that from
   the moment the interval is set the counter goes by it; the interrupt that the comments describe, its mutant, violates it. When the interval is set at or below
   the counter, the next match comes only after the counter wrapped: `SessionEnds` says that it does come. The comment holds for set-resolution.

Three more are visible in properties that hold because they name them: `ListOpsExact` says that
`list_remove` of the second of two nodes leaves a pointer to freed memory (`host/list.c:128`);
`ReadsInOrder` that `serial_rx` may count a byte it did not store once the
buffer filled up (`avr/serial.c:79`); the place `killed` of `RtoTimer` is reached when the timer, which is
never disarmed, elapses after `communication_cleanup` reset its handler (`host/communication.c:276`).

## 4. What is proved

Each proof module extends the module it is about; `RingOrder` holds the facts about rings and rising sequences
that both serial layers need. Theorems rest on the named assumptions on the constants, which the runs
evaluate, and some on a hypothesis that they state: three of Link on `NoFault`, two of Monitor on `PowerCutsAtFew`. No property but
`WaitIsTimed` is inductive by itself.

**`Link_proofs`**, for any numbers of ids, faults, attempts, jobs, databases, and any burst:

* `LinkTypes` (`TypeOK`) and `CommandsInOrder` (`RanInOrder`). The commands executed are in order because of those on
  their way: the invariant `LinkInv` says (`Commanding`) that the commands on the line carry jobs in the
  order they were issued, none below the last one executed, and that the packet the host sends is of the last job.
  Retransmission appends that last command again; losses, damage, flushes and leftovers thin the line out
  (`Thinned`) and keep the order. `Underway` is what the types need of the place in the code.
* Under `NoFault`: `IdsAgreeWithoutFaults` (`IdsAgree`), `ReliableExchange`, the safety part of `ImplementsExchange` with
  `Exchange` step by step, and `DownloadsAreExact` (`DownloadExact`). Without faults an exchange is a conversation, and the invariant
  `Phases` lists its six states: who is to speak, what is on the line, which id both ends hold
  (`AgreedId`), whether the command ran. A disjunct leads to the next one, which is also why no timer ever
  fires (`NoTimerFires`). `Content` adds what each packet of a download brings (`NextPart`) and
  what the host has of it (`Halfway`). `NoFault` is `MaxFaults = 0` and at least two attempts of the AVR to receive,
  of which the code has three: a stale match of timer 3 takes the first one even on a good line. With a
  fault the three are different: ids may disagree for one command, a command may run twice
  (`LinkRetransmission`), and only `DownloadExact` still holds on the instance `LinkLossy` checks.

**`Buttons_proofs`**, for any set of buttons on PCINT0 and any choice of three
different pins: `TypeCorrect` (`TypeOK`); `AlwaysAttended` (`Attended`), no enabled
button is left with neither its interrupt nor the debouncer; `PressAlwaysPolled`
(`PressIsPolled`), a button that is down is polled with its interrupt off; `AlwaysFallThenRise`
(`FallThenRise`), the level last taken into account is low exactly while the button is down.
They follow from `Invariance`: `Spec => []IInv`. `Attended` needs `PressIsPolled` for the debouncer: it stops its timer when it
finds no button down, and then must have switched back on every interrupt it had off. The
set up leaves PCINT0 alone while `debouncing` is set, so it needs `DebouncingIsTimed`. The main
loop disables a button in two steps with interrupts on, so the step that masks the
interrupt needs `DisabledIsOff` to know that nothing enabled depends on it. `FallThenRise`
after an action needs `ActingIsPressed`: an action that ends takes the status from PRESSED to
OPEN, which is right only if the level was 1. `UpdateKeeps` is the lemma about
`_btn_update` that the three interrupts share.

**`Serial_proofs`**, for any buffer sizes:

* `TransmissionExact` (`TxExact`). The invariant `TxInv` adds what is still to go: during a transmission `tx_buffer`
  holds the last `tx_to_transmit` bytes written and `tx_transmitted` is the place of the one on its way
  (`Transmitting`); between two, all that was written is out. The wait for `tx_ongoing` in `serial_tx` makes it
  inductive.
* `ReceptionInOrder` (`ReadsInOrder`) and `ReceptionIsQueue` (`ImplementsByteQueue`). The invariant `RxInv` orders the
  ring buffer from the byte that is read next (`RingSorted`), puts the bytes read before those in the ring buffer and these
  before those in the receiver (`RxOrder`), and says where in `serial_rx` what may have changed
  (`Control`): the interrupt may come between any two of its steps, and the place that is being read is neither in the
  ring nor free. The queue of `ByteQueue` is the ring buffer listed from there: each step takes its head, appends to
  it, or leaves it alone.
* `SerialTypes` (`TypeOK`), with the count of what a reset discards.

**`HostSerial_proofs`**, for any sizes of the two buffers and any number of bytes: `HostTypes`
(`TypeOK`), `HostReadsInOrder` (`InOrder`) and `HostReadsAllFresh` (`FreshIsWhole`). The invariant
says that the bytes read, those in the ring buffer, those the RX thread holds and those in the kernel are each in order
(`EachSorted`), come after one another (`Between`), and with the refused ones are all that came
since the last flush (`Accounted`). `BufferInv` relates `full` to the indexes and the place
of the RX thread to what it holds.

**`Monitor_proofs`**, for any EEPROM size, ids, settings and resets:

* `StoppedRegistersAtMostOne` (`AtMostOneLate`), for any power cycles. `LateInv` adds that the interrupt
  is off while the daemon is stopped (`OnlyOngoingTicks`) and that nothing is late yet as long as
  a match is pending or can still come (`LateIsLast`).
* `MonitorTypes` (`TypeOK`) and `HangsFull` (`HangsOnlyFull`), for any EEPROM size, any number of ids and any power cycles.
  Nothing is written past the end because the database in use is always one that is found from the first
  (`Placed`): the first one, or the one after it, or, since the last power on, one that a start put behind it; no database
  past it is looked at, and no cell before it changes. That holds also where `temperature_init` loads the wrong one, which is why
  these two need no hypothesis. `TypesInv` adds that a locked database has temperatures and that `hung` is only set at a first one that is
  locked and without a next one (`HangsAtFirst`).
* `IntervalIsAtOnce` (`IntervalAtOnce`), for all constants.
* Under `PowerCutsAtFew`: `EepromIsLog`, the EEPROM implements `MeasureLog`, also through `temperature_init` after a cut;
  and `EverySessionFound` (`EveryDbFound`). A database is found from the length of those
  before it, and nothing in the EEPROM says which addresses are headers. `DbInv` therefore says that there
  is a `Layout`: a list of addresses, each the one that the database before it gives, with ids that
  count up modulo their number and no overlap, the last one being `local_db`. The recursions of `TempDb` are told
  from it (`SessionsLaid`, `FoundFrom`, `CountIsTotal` and the lemmas around them). `PowerCutsAtFew` is `MaxDbsPowered <= 3`: power
  cycles with one or two databases, beyond which `temperature_init` is wrong (`MonitorPower`). Nothing is assumed of the
  size of the EEPROM: that of the ATmega2560 has room for more than 256 databases, and the log, the count and the
  layout do not depend on the ids being different. The search by id does, and there `EveryDbFound` says what it says
  only as long as there are no more databases than ids; past that it finds the first of two, a hazard that is listed.

**`Shell_proofs`**, for any numbers of attempts, nodes, databases and ids:

* `WaitAlwaysTimed` (`WaitIsTimed`): an attempt that waits with its flag clear has its timer armed, whatever became of the
  timers before it.
* `ShellTypes` (`TypeOK`), `ListsStaySound` (`ListsSound`), `DownloadIsAtomic` (`ImplementsStore`), `AllExported`
  (`EveryDbExported`) and `ListOpsAreExact` (`ListOpsExact`), from `ShellInvariant`. `ShellInv` says that there are two sequences of nodes, those of `dbs` and those of
  the download in progress, without a common node, linked by `next` (`Linked`), with ids that follow one another across both
  (`Chained`), and that the counter is the one the databases give (`Counted`). Each operation of `host/list.c` has its lemma
  over any chain: what it returns and which chain it leaves. The freed nodes of a failed download are those of the
  second sequence, so nothing in use is freed; a wrapped id is told apart by its place in the sequence.
  `list_add_at` and `list_remove`, which no command of the shell calls at an index, are compared with `InsertAt` and `RemoveAt` on that chain, element
  by element (`LinkedInserted`, `LinkedWithout`); for the second of two nodes the walk is followed into the freed node (`RemoveSecond`).
  The nodes must be finitely many, for a free one to be found, and at least `MaxDbs`: a `malloc` that fails is not modelled.

**`Remote_proofs`**, for any layout of up to 256 fields of one, two or four bytes, any values, strings, databases, commands and power
cuts:

* `ConfigurationKept` (`KeptIsCurrent`). While a field is saved the property says nothing; the invariant
  `SavedBytes` says that then the two copies differ at most in the bytes still to be written, which each
  `SaveByte` takes one of, and that a cut is followed by a fetch of what is left.
* `FieldsStayAsSet` (`FieldsAsSet`), `ShownWasHeld` (`ShownIsHeld`) and `RemoteTypes` (`TypeOK`), from `RemoteInv`. It says of an open
  request that the packet on the line is the one `communication_cmd` makes of it (`LineCarries`), and of an answer which one
  of the four kinds it is and what the tmon held when it made it (`AnswerCarries`); of a field that no cut spoiled, that its bytes
  are those of the value set last (`FieldsHeld`). What the steps then need is that every conversion is undone on the other
  side: an integer through its bytes (`ValueBytes`), type, id and size through the bit fields of the header
  (`KindReads`, `SizeReads`), a packet through `packet_craft` (`Crafted`), a field through `config_set` and `config_get`
  (`SetGet`, for which no two places overlap, `PlacesApart`), the string of an echo (`EchoReads`) and the description of
  a database (`InfoReads`).
* `DamageAlwaysDetected` (`DamageDetected`) and `CrcAlwaysRemainder` (`CrcIsRemainder`), for every packet that is `Whole`, which every crafted one is.
  A flipped bit of the header changes its parity (`FlipCounts`). A round of the CRC tells both bytes and remainders apart,
  so that two messages that differ in one byte never meet again (`CrcTellsApart`); and the table puts x^2 + x + 1 in the place
  of x^8 (`ReducedTwice`), so that the rounds are those of a division (`CrcRemains`). Both rest on `TableAssumption`: the 256 entries of the table are what the
  polynomial leaves, and differ. It is a closed fact without a variable, which TLC evaluates entry by entry.

A recursive function is not given by its equation until one shows that a function with that equation
exists. For the functions of this project that recurse over addresses, counts or bytes the lemmas do
so without induction (`UpwardRecursion` in `Remote_proofs`): take the least argument for which no such function exists
(`LeastNumber`, from the well-foundedness of the naturals), and build one from its predecessor. What then holds up to a
number is shown in the same way (`CountingUp`).

Only model-checked, on the bounds above:

* everything stated under fairness (`PressIsServed`, `ShellReturns`, `MainLoopRuns`,
  `CloseReturns`, `SessionEnds`, `ReturnsOrMissesSignal`, and the liveness part of `ImplementsExchange`), which is out of reach
  of the prover;
* `DownloadExact` on a line with faults: which packets a failed job leaves on it is the matter of an invariant on all ids
  at once. It also holds with two faults, in a run too long to be kept.

## 5. What is not modelled

* Power cuts inside the write of a database header, or of `used` between its two bytes: `TempDb` writes
  a header in one step. What the next header then holds is whatever was in the EEPROM before, and
  the source says nothing of it. The hazard is listed.
* The sensor, `avr/lmsensor.c`: a conversion through ADC registers with one interrupt; its result is any
  member of `Temperatures`, that of an earlier conversion included, which is what the code returns when another
  interrupt cuts the sleep short (`adc_ongoing` is never set). The hazard is listed.
* Damage to a packet that passes the parity and the CRC: excluded in Link, where a packet is good or `BAD`.
  `DamageDetected` shows it of damage within one byte; two damaged bytes may cancel out.
* Loss of bytes by a full buffer as an own event in Link: it shows as a fault. `Serial` and `HostSerial` have it.
* Configuration: `config_save` of all fields, which only tests call; the tables of names. The settings that
  are used at set up only (pins, debounce time) are read by no module but Config.
* The text that `list`, `export` and `help` print, the splitting of a line into words, the options of the
  command line beyond `-c` and `-s`, scripts by name.
* Errors of `read` and `write` on the host, of `malloc`, `timer_create` and `sigaction`; LEDs, power reduction
  registers, USART registers bit by bit, the two halves of a 16-bit variable that an interrupt reads.
* Generator and templates, tests: code that runs at build time, or tests.

## 6. Plan

Done: Link, Buttons, Serial, HostSerial, Monitor, Shell, Remote; the proofs of section 4.

What is left is to prove more:

* `DownloadExact` of Link with faults, if an invariant on the ids of all packets on the line can be found.
