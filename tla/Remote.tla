------------------------------- MODULE Remote -------------------------------
(***************************************************************************)
(* What the commands of the shell carry to the tmon and back, byte by      *)
(* byte: tmon-config, tmon-set-interval, tmon-set-resolution, tmon-echo    *)
(* and the announcement of a database by download (host/shell_commands.c,  *)
(* avr/commands/, temperature.c), over Packet and Config.  The exchange is *)
(* the one of Link, reduced to its outcomes: the packet is executed or     *)
(* not, and the command succeeds or fails.                                 *)
(***************************************************************************)
EXTENDS Config

CONSTANTS
    Arguments,      \* the integers the user writes
    Lengths,        \* the lengths of the strings to echo
    Masks,          \* the bits of a byte that a noise inverts
    Databases,      \* id and count of the databases of the tmon
    MaxCommands, MaxCuts    \* bounds on the commands and the power cycles

UInt16 == 0 .. 65535

ASSUME RemoteAssumption ==
    /\ Arguments \subseteq Nat /\ Lengths \subseteq Nat
    /\ Masks \subseteq (SUBSET Erased) \ {{}}
    /\ Databases \subseteq [id : 0 .. 255, count : UInt16]
    /\ MaxCommands \in Nat /\ MaxCuts \in Nat

VARIABLES
    request,            \* what the user asked for last
    busy,               \* the shell executes it
    packet_global_id,   \* of both ends
    line,               \* the packet on its way to the tmon
    answer,             \* the packet on its way to the host
    shown,              \* what the shell showed
    timer_resolution, timer_interval,
    db,                 \* the last database of the tmon
    set,                \* what each field was last set to
    spoiled,            \* the fields that a power cut caught while they were saved
    held,               \* what the tmon held of what was asked for
    commands, cuts

linkVars == <<packet_global_id, line, answer>>
daemonVars == <<timer_resolution, timer_interval, db>>
historyVars == <<set, spoiled, held>>
vars == <<configVars, request, busy, linkVars, shown, daemonVars, historyVars, commands, cuts>>

\* command_id_t
CMD_CONFIG_GET_FIELD == 0
CMD_CONFIG_SET_FIELD == 1
CMD_TEMPERATURES_DOWNLOAD == 2
CMD_SET_RESOLUTION == 4
CMD_SET_INTERVAL == 5
CMD_ECHO == 8

\* What is shown and what is held: records whose field names their kind
None == [none |-> TRUE]
NoMore == [end |-> TRUE]
Error == [error |-> TRUE]

\* The first two fields, and temperature_setup
RESOLUTION == 0
INTERVAL == 1

ASSUME SettingsAssumption ==
    \A f \in {RESOLUTION, INTERVAL} : f \in config_field_t /\ FieldSize[f] = 2

temperature_setup(bytes) ==
    /\ timer_resolution' = Value(config_get(bytes, RESOLUTION))
    /\ timer_interval' = Value(config_get(bytes, INTERVAL))

Init ==
    /\ ConfigInit
    /\ request = None /\ busy = FALSE
    /\ packet_global_id = 1 /\ line = <<>> /\ answer = <<>>
    /\ shown = None /\ held = None
    /\ timer_resolution = FieldDefault[RESOLUTION]
    /\ timer_interval = FieldDefault[INTERVAL]
    /\ db = [id |-> 0, count |-> 0, reg_resolution |-> 0, reg_interval |-> 0]
    /\ set = FieldDefault /\ spoiled = {}
    /\ commands = 0 /\ cuts = 0

-----------------------------------------------------------------------------

Requests ==
         [cmd : {CMD_CONFIG_GET_FIELD}, field : config_field_t]
    \cup [cmd : {CMD_CONFIG_SET_FIELD}, field : config_field_t, value : Arguments]
    \cup [cmd : {CMD_SET_RESOLUTION, CMD_SET_INTERVAL}, value : Arguments]
    \cup [cmd : {CMD_ECHO}, length : Lengths]
    \cup [cmd : {CMD_TEMPERATURES_DOWNLOAD}]

Text(length) == [i \in 1 .. length |-> Bits(96 + i)]
NUL == {}

\* A field id, a config_setter_t, a uint16_t, or a string with its end
Argument(r) ==
    CASE r.cmd = CMD_CONFIG_GET_FIELD -> <<Bits(r.field)>>
      [] r.cmd = CMD_CONFIG_SET_FIELD ->
            <<Bits(r.field)>> \o Bytes(r.value, config_get_size(r.field))
      [] r.cmd \in {CMD_SET_RESOLUTION, CMD_SET_INTERVAL} -> Bytes(r.value, 2)
      [] r.cmd = CMD_ECHO -> Append(Text(r.length), NUL)
      [] r.cmd = CMD_TEMPERATURES_DOWNLOAD -> NoData

\* sizeof(command_id_t) with the short enumerations of both builds
SIZEOF_COMMAND_ID == 1

Fits(argument) == Len(argument) <= PACKET_DATA_MAX_SIZE - SIZEOF_COMMAND_ID

\* Mutant: nothing is refused
IsSentAlways(r) == TRUE

\* The command sends a packet: other values and lengths are refused before
IsSent(r) ==
    /\ r.cmd \in {CMD_SET_RESOLUTION, CMD_SET_INTERVAL} => r.value % 65536 # 0
    /\ r.cmd = CMD_ECHO => r.length < PACKET_DATA_MAX_SIZE - 2
    /\ Fits(Argument(r))

communication_cmd(r) ==
    packet_craft(packet_global_id, CMD, <<Bits(r.cmd)>> \o Argument(r))

Ask ==
    /\ ~busy /\ commands < MaxCommands
    /\ \E r \in Requests :
          /\ IsSent(r)
          /\ request' = r
          /\ line' = communication_cmd(r)
    /\ busy' = TRUE /\ commands' = commands + 1
    /\ shown' = None /\ held' = None
    /\ UNCHANGED <<configVars, packet_global_id, answer, daemonVars, set, spoiled, cuts>>

\* The exchange fails; the tmon may have executed the command.  The user then
\* connects again.
GiveUp ==
    /\ busy
    /\ busy' = FALSE /\ line' = <<>> /\ answer' = <<>> /\ packet_global_id' = 1
    /\ UNCHANGED <<configVars, request, shown, daemonVars, historyVars, commands, cuts>>

NextId(n) == (packet_global_id + n) % 16

IsAnswered(r) ==
    r.cmd \in {CMD_CONFIG_GET_FIELD, CMD_ECHO, CMD_TEMPERATURES_DOWNLOAD}

\* The acknowledgement ends a command without an answer
Done ==
    /\ busy /\ line = <<>> /\ ~IsAnswered(request)
    /\ busy' = FALSE /\ packet_global_id' = NextId(1)
    /\ UNCHANGED <<configVars, request, line, answer, shown, daemonVars, historyVars,
                   commands, cuts>>

-----------------------------------------------------------------------------

temperature_db_info_pack(info) ==
    Bytes(info.count, 2) \o Bytes(info.reg_resolution, 2)
        \o Bytes(info.reg_interval, 2) \o Bytes(info.id, 1)

\* The packet that the main loop of the tmon takes: communication_recv,
\* _op_cmd, command_start
Payload == Data(line)
Arg == Tail(Payload)

Executes(cmd) ==
    /\ line # <<>> /\ Accepted(line) /\ packet_get_type(line) = CMD
    /\ saving = {}
    /\ Num(Payload[1]) = cmd
    /\ line' = <<>>
    /\ UNCHANGED <<request, busy, packet_global_id, shown, db, commands, cuts>>

\* communication_craft_and_send
Answers(type, data, value) ==
    /\ answer' = packet_craft(NextId(1), type, data)
    /\ held' = value
    /\ UNCHANGED <<configVars, timer_resolution, timer_interval, set, spoiled>>

cmd_config_get_field ==
    /\ Executes(CMD_CONFIG_GET_FIELD)
    /\ Answers(DAT, config_get(config, Num(Arg[1])),
               [number |-> Value(config_get(config, request.field))])

cmd_config_set_field ==
    /\ Executes(CMD_CONFIG_SET_FIELD)
    /\ config_set(Num(Arg[1]), Tail(Arg))
    /\ set' = [set EXCEPT ![request.field] =
                  request.value % 256^config_get_size(request.field)]
    /\ spoiled' = spoiled \ {request.field}
    /\ UNCHANGED <<answer, held, timer_resolution, timer_interval>>

\* A setting of 0 is ignored
Setting(old) == LET new == Value(SubSeq(Arg, 1, 2)) IN IF new = 0 THEN old ELSE new

cmd_set_resolution ==
    /\ Executes(CMD_SET_RESOLUTION)
    /\ timer_resolution' = Setting(timer_resolution)
    /\ UNCHANGED <<configVars, answer, held, set, spoiled, timer_interval>>

cmd_set_interval ==
    /\ Executes(CMD_SET_INTERVAL)
    /\ timer_interval' = Setting(timer_interval)
    /\ UNCHANGED <<configVars, answer, held, set, spoiled, timer_resolution>>

\* The string goes back without its end; what the host sends always has one within
\* ARG_MAX_LEN, the bound of the loop
cmd_echo ==
    /\ Executes(CMD_ECHO)
    /\ Answers(DAT, SubSeq(Arg, 1, SelectInSeq(Arg, LAMBDA c : c = NUL) - 1),
               [text |-> Text(request.length)])

\* The first packet of temperatures_download; an empty database is skipped
cmd_temperatures_download ==
    /\ Executes(CMD_TEMPERATURES_DOWNLOAD)
    /\ IF db.count = 0 THEN Answers(CTR, NoData, NoMore)
                       ELSE Answers(CTR, temperature_db_info_pack(db), db)

Execute ==
    \/ cmd_config_get_field \/ cmd_config_set_field \/ cmd_set_resolution
    \/ cmd_set_interval \/ cmd_echo \/ cmd_temperatures_download

\* config_save_field goes on, and the next packet waits
Save == SaveByte /\ UNCHANGED <<request, busy, linkVars, shown, daemonVars, historyVars,
                                commands, cuts>>

\* The daemon registers temperatures in a new database, with its settings (one,
\* to bound the model)
NewDatabase ==
    /\ db.count = 0
    /\ \E d \in Databases :
          db' = [id |-> d.id, count |-> d.count, reg_resolution |-> timer_resolution,
                 reg_interval |-> timer_interval]
    /\ UNCHANGED <<configVars, request, busy, linkVars, shown, timer_resolution,
                   timer_interval, historyVars, commands, cuts>>

\* The power is cut, or switched off by its button between two commands.  The packet
\* on the line goes unanswered; that it is sent again and runs after the power on is
\* left out.
PowerCycle ==
    /\ cuts < MaxCuts /\ cuts' = cuts + 1
    /\ Cut /\ config_fetch /\ temperature_setup(config')
    /\ line' = <<>>
    /\ spoiled' = (spoiled \cup {f \in config_field_t : Place(f) \cap saving # {}})
    /\ UNCHANGED <<request, busy, packet_global_id, answer, shown, db, set, held, commands>>

-----------------------------------------------------------------------------

\* Mutant: two fields are exchanged
temperature_db_info_extractSwapped(data) ==
    [count |-> Value(SubSeq(data, 1, 2)), reg_resolution |-> Value(SubSeq(data, 5, 6)),
     reg_interval |-> Value(SubSeq(data, 3, 4)), id |-> Value(SubSeq(data, 7, 7))]

temperature_db_info_extract(data) ==
    [count |-> Value(SubSeq(data, 1, 2)), reg_resolution |-> Value(SubSeq(data, 3, 4)),
     reg_interval |-> Value(SubSeq(data, 5, 6)), id |-> Value(SubSeq(data, 7, 7))]

\* What the shell makes of the answer to its request
Reading(r, p) ==
    CASE r.cmd = CMD_CONFIG_GET_FIELD /\ packet_get_type(p) = DAT ->
            [number |-> Value(Data(p))]
      [] r.cmd = CMD_ECHO /\ packet_data_size(p) = r.length ->
            [text |-> Data(p)]
      [] r.cmd = CMD_TEMPERATURES_DOWNLOAD /\ packet_data_size(p) = 0 -> NoMore
      [] r.cmd = CMD_TEMPERATURES_DOWNLOAD /\ packet_data_size(p) = 7 ->
            temperature_db_info_extract(Data(p))
      [] OTHER -> Error

Show ==
    /\ busy /\ answer # <<>> /\ Accepted(answer)
    /\ packet_get_id(answer) = NextId(1)
    /\ shown' = Reading(request, answer)
    /\ answer' = <<>> /\ busy' = FALSE /\ packet_global_id' = NextId(2)
    /\ UNCHANGED <<configVars, request, line, daemonVars, historyVars, commands, cuts>>

Next ==
    \/ Ask \/ GiveUp \/ Done \/ Show
    \/ Execute \/ Save \/ NewDatabase \/ PowerCycle

Spec == Init /\ [][Next]_vars

-----------------------------------------------------------------------------

TypeOK ==
    /\ config \in [Offsets -> Byte] /\ nvm \in [Offsets -> Byte] /\ saving \subseteq Offsets
    /\ busy \in BOOLEAN /\ packet_global_id \in 0 .. 15
    /\ \A p \in {line, answer} : p \in Seq(Byte) /\ Len(p) <= PACKET_MAX_SIZE
    /\ timer_resolution \in UInt16 /\ timer_interval \in UInt16
    /\ db \in [id : 0 .. 255, count : UInt16, reg_resolution : UInt16, reg_interval : UInt16]
    /\ spoiled \subseteq config_field_t
    /\ commands \in 0 .. MaxCommands /\ cuts \in 0 .. MaxCuts

Packets == {line, answer} \ {<<>>}

\* A packet with some bits of one byte inverted
Damaged(p, i, mask) == [p EXCEPT ![i] = Xor(@, mask)]

\* README: a packet "is checked for integrity and sanity".  The packets of the
\* two ends pass the checks; with a wrong bit in the header, or a wrong byte of
\* the data or the CRC, they do not.
DamageDetected ==
    \A p \in Packets :
        /\ Accepted(p)
        /\ \A i \in 1 .. PACKET_HEADER_SIZE : \A b \in Erased : ~Accepted(Damaged(p, i, {b}))
        /\ \A i \in PACKET_HEADER_SIZE + 1 .. Len(p) : \A mask \in Masks :
              ~Accepted(Damaged(p, i, mask))

\* The remainder of a message by x^8 + x^2 + x + 1.  A polynomial is the set of its
\* exponents; x^8 is the same as x^2 + x + 1, which is put in its place twice for
\* each byte that comes down.
Reduced(p) ==
    LET high == {e - 8 : e \in {h \in p : h >= 8}}
    IN  Xor(p \cap Erased, Xor(high, Xor({e + 1 : e \in high}, {e + 2 : e \in high})))

\* The table holds what is left of each byte, and no two bytes leave the same: a
\* fact about its 256 entries
ASSUME TableAssumption ==
    /\ \A c \in Byte : Rounds[c] = Reduced(Reduced({e + 8 : e \in c}))
    /\ \A c, d \in Byte : Rounds[c] = Rounds[d] => c = d

Remainder(bytes) ==
    LET rest[n \in 0 .. Len(bytes)] ==
            IF n = 0 THEN {}
            ELSE Reduced(Reduced({e + 8 : e \in rest[n - 1]} \cup bytes[n]))
    IN  rest[Len(bytes)]

\* The CRC that the table gives is the remainder of the polynomial division.
CrcIsRemainder ==
    \A p \in Packets : Last(p) = Remainder(Append(Front(p), {}))

\* Every field has the value that the user last set it to, as much of it as its
\* type has room for, in memory and in the EEPROM: setting one changes no other,
\* and a power cut spoils at most the one that is being set.
FieldsAsSet ==
    saving = {} => \A f \in config_field_t \ spoiled :
        Value(config_get(config, f)) = set[f] /\ Value(config_get(nvm, f)) = set[f]

\* What the shell shows is what the tmon held: the value of the field asked for,
\* the string to echo, the size and the settings of the database.
ShownIsHeld == shown # None => shown = held
=============================================================================
