------------------------------ MODULE MCRemote ------------------------------
(***************************************************************************)
(* Remote for TLC: the fields of config_t in their order, with the values  *)
(* of the image in the EEPROM, as many as CONFIG_FIELD_COUNT says.         *)
(***************************************************************************)
EXTENDS Remote

MCFieldSize == [f \in config_field_t |-> IF f <= INTERVAL THEN 2 ELSE 1]
MCFieldDefault == [f \in config_field_t |-> <<1000, 2, 0, 20, 4, 3, 1>>[f + 1]]
MCArguments == {232, 258}
MCLengths == {1, 25, 28}
MCMasks == {{0}, {7}, {1, 6}, Erased}
MCDatabases == {[id |-> 255, count |-> 258]}
=============================================================================
