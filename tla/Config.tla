------------------------------- MODULE Config -------------------------------
(***************************************************************************)
(* The configuration of the tmon (sources/config.c): bytes in memory, and  *)
(* a copy in the EEPROM that is written one byte after the other.          *)
(***************************************************************************)
EXTENDS Packet

CONSTANTS
    CONFIG_FIELD_COUNT,
    FieldSize,      \* size of the type of each field
    FieldDefault    \* its value in the EEPROM image

config_field_t == 0 .. CONFIG_FIELD_COUNT - 1

ASSUME ConfigAssumption ==
    /\ CONFIG_FIELD_COUNT \in 1 .. 256             \* a field id is a byte
    /\ FieldSize \in [config_field_t -> {1, 2, 4}]  \* the sizes tmon_config knows
    /\ FieldDefault \in [config_field_t -> Nat]
    /\ \A f \in config_field_t : FieldDefault[f] < 256^FieldSize[f]

VARIABLES
    config,     \* config_raw
    nvm,        \* nvm_image->config
    saving      \* the bytes that config_save_field has still to write

configVars == <<config, nvm, saving>>

config_get_size(field) == FieldSize[field]

\* offsetof: the fields of config_t follow one another
offsets[f \in 0 .. CONFIG_FIELD_COUNT] ==
    IF f = 0 THEN 0 ELSE offsets[f - 1] + FieldSize[f - 1]

config_get_offset(field) == offsets[field]

Place(field) ==
    config_get_offset(field) .. config_get_offset(field) + config_get_size(field) - 1

Offsets == UNION {Place(f) : f \in config_field_t}

\* config_get, from a copy of the configuration
config_get(bytes, field) ==
    [i \in 1 .. config_get_size(field) |-> bytes[config_get_offset(field) + i - 1]]

\* The image in the EEPROM: config-gen, nvm.c
Image ==
    [o \in Offsets |->
        LET f == CHOOSE f \in config_field_t : o \in Place(f)
        IN  Bytes(FieldDefault[f], FieldSize[f])[o - config_get_offset(f) + 1]]

ConfigInit == nvm = Image /\ config = Image /\ saving = {}

\* Mutant: the new value is not saved if the first byte is the same
DiffersFirst(field) ==
    {o \in Place(field) : nvm[config_get_offset(field)] # config'[config_get_offset(field)]}

\* nvm_update writes the bytes that differ
Differs(field) == {o \in Place(field) : nvm[o] # config'[o]}

\* Mutant: the bytes of the value are written in the other order
config_setReversed(field, value) ==
    /\ config' = [o \in Offsets |->
                    IF o \in Place(field) THEN Reverse(value)[o - config_get_offset(field) + 1]
                                          ELSE config[o]]
    /\ saving' = Differs(field)
    /\ UNCHANGED nvm

\* config_set, then config_save_field
config_set(field, value) ==
    /\ config' = [o \in Offsets |->
                    IF o \in Place(field) THEN value[o - config_get_offset(field) + 1]
                                          ELSE config[o]]
    /\ saving' = Differs(field)
    /\ UNCHANGED nvm

\* eeprom_update_block, in whatever order
SaveByte ==
    \E o \in saving :
        /\ nvm' = [nvm EXCEPT ![o] = config[o]]
        /\ saving' = saving \ {o}
        /\ UNCHANGED config

Erased == 0 .. BIT_NUM - 1

\* The power is cut: the byte that is being written may stay erased ...
Cut == nvm' = nvm \/ \E o \in saving : nvm' = [nvm EXCEPT ![o] = Erased]

\* ... and comes back: config_fetch
config_fetch == config' = nvm' /\ saving' = {}

-----------------------------------------------------------------------------

\* Between two commands the configuration in the EEPROM is the one in memory,
\* whatever fields were set before and wherever the power was cut.
KeptIsCurrent == saving = {} => nvm = config
=============================================================================
