------------------------------- MODULE TempDb -------------------------------
(***************************************************************************)
(* The temperature databases of the AVR in its EEPROM                      *)
(* (sources/avr/temperature_specific.c).                                   *)
(*                                                                         *)
(* The EEPROM is an array of cells, one for each field and each            *)
(* temperature.  A database is a header followed by its temperatures, the  *)
(* next database follows a locked one.  The resolution, which goes with    *)
(* the interval, is left out of the header, and the addresses start at the *)
(* first database, after the configuration.                                *)
(***************************************************************************)
EXTENDS Integers, Sequences

CONSTANTS
    NVM_SIZE,           \* number of cells
    DB_IDS,             \* number of database ids, 256 for the uint8_t of the code
    DEFAULT_INTERVAL    \* temperature_timer_interval of the configuration

\* sizeof(temperature_db_t) and the offsets of its fields
USED == 0
INTERVAL == 1
ID == 2
LOCKED == 3
ITEMS == 4

NVM_LIMIT == NVM_SIZE - 1
TEMP_DB_MIN_SIZE == ITEMS + 1

ASSUME TempDbAssumption ==
    /\ NVM_SIZE \in Nat /\ NVM_SIZE > TEMP_DB_MIN_SIZE
    /\ DB_IDS \in Nat \ {0}
    /\ DEFAULT_INTERVAL \in Nat \ {0}

VARIABLES
    nvm,        \* the cells
    local_db,   \* the database in use: its header and nvm_addr
    hung        \* temperature_init never returns

dbVars == <<nvm, local_db, hung>>

NULL == -1

Addresses == 0 .. NVM_LIMIT

\* _db_fetch: read a header
Fetch(addr) ==
    [used |-> nvm[addr + USED], interval |-> nvm[addr + INTERVAL],
     id |-> nvm[addr + ID], locked |-> nvm[addr + LOCKED] = 1, nvm_addr |-> addr]

\* _db_sync: write a header; memory is what the cells are beforehand
Sync(memory, db) ==
    [memory EXCEPT ![db.nvm_addr + USED] = db.used,
                   ![db.nvm_addr + INTERVAL] = db.interval,
                   ![db.nvm_addr + ID] = db.id,
                   ![db.nvm_addr + LOCKED] = IF db.locked THEN 1 ELSE 0]

item_nvm_addr(db) == db.nvm_addr + ITEMS + db.used

\* _db_nvm_addr_next: the address of the next database, if there is room
NextAddr(db) ==
    IF ~db.locked \/ item_nvm_addr(db) + TEMP_DB_MIN_SIZE > NVM_LIMIT - TEMP_DB_MIN_SIZE
      THEN NULL ELSE item_nvm_addr(db)

\* Mutant: always look from the database in use on
SearchStartLocal(db_id) == local_db.nvm_addr

\* _db_nvm_addr looks from the database in use on, or from the first one
SearchStart(db_id) == IF local_db.id <= db_id THEN local_db.nvm_addr ELSE 0

DbAddr(db_id) ==
    LET found[addr \in Addresses] ==
            IF Fetch(addr).id = db_id THEN addr
            ELSE IF NextAddr(Fetch(addr)) = NULL THEN NULL
            ELSE found[NextAddr(Fetch(addr))]
    IN  found[SearchStart(db_id)]

-----------------------------------------------------------------------------

EmptyDb(interval) ==
    [used |-> 0, interval |-> interval, id |-> 0, locked |-> FALSE, nvm_addr |-> 0]

TempDbInit ==
    /\ nvm = Sync([a \in Addresses |-> 0], EmptyDb(0))
    /\ local_db = EmptyDb(0)
    /\ hung = FALSE

\* temperature_init, from what the EEPROM then holds: while the database is locked
\* and _db_load_next fails, load the next one
LoadedDb ==
    LET db == Fetch(0)
    IN  IF db.locked /\ NextAddr(db) # NULL THEN Fetch(NextAddr(db)) ELSE db

\* Mutant: it loads until it finds a database that is not locked
LoadsUnlocked == LoadedDb.locked

LoadsForEver == Fetch(0).locked /\ NextAddr(Fetch(0)) = NULL

temperature_init == local_db' = LoadedDb' /\ hung' = LoadsForEver'

Unlocked(interval) == [local_db EXCEPT !.locked = FALSE, !.interval = interval]
Locked == [local_db EXCEPT !.locked = TRUE]

LockSync == Sync(nvm, Locked)

NewDb(interval) ==
    [used |-> 0, interval |-> interval, id |-> (local_db.id + 1) % DB_IDS,
     locked |-> FALSE, nvm_addr |-> NextAddr(Locked)]

NoMoreSpace == local_db.used # 0 /\ NextAddr(Locked) = NULL

\* temperature_db_new; it fails if NoMoreSpace
temperature_db_new(interval) ==
    \/ /\ local_db.used = 0
       /\ local_db' = Unlocked(interval)
       /\ nvm' = Sync(nvm, Unlocked(interval))
    \/ /\ NoMoreSpace
       /\ local_db' = Locked
       /\ nvm' = LockSync
    \/ /\ local_db.used # 0 /\ ~NoMoreSpace
       /\ local_db' = NewDb(interval)
       /\ nvm' = Sync(LockSync, NewDb(interval))

\* Mutant: an item may go past the end
NoRoomNever == local_db.locked

\* temperature_register fails
NoRoom == local_db.locked \/ item_nvm_addr(local_db) > NVM_LIMIT

temperature_register(raw_val) ==
    /\ ~NoRoom
    /\ local_db' = [local_db EXCEPT !.used = @ + 1]
    /\ nvm' = [nvm EXCEPT ![item_nvm_addr(local_db)] = raw_val,
                          ![local_db.nvm_addr + USED] = local_db.used + 1]

\* Mutant: the count is written first
CutInRegisterCounted(raw_val) ==
    /\ ~NoRoom
    /\ nvm' = [nvm EXCEPT ![local_db.nvm_addr + USED] = local_db.used + 1]

\* What a power cut between the two writes of temperature_register leaves
CutInRegister(raw_val) ==
    /\ ~NoRoom
    /\ nvm' = [nvm EXCEPT ![item_nvm_addr(local_db)] = raw_val]

temperature_db_reset ==
    /\ local_db' = EmptyDb(local_db.interval)
    /\ nvm' = Sync(nvm, EmptyDb(local_db.interval))

-----------------------------------------------------------------------------

Smaller(a, b) == IF a < b THEN a ELSE b

\* temperature_get_bulk: the temperatures from start_id on, ntemps at most
temperature_get_bulk(db_id, start_id, ntemps) ==
    LET addr == DbAddr(db_id)
    IN  IF addr = NULL THEN <<>>
        ELSE [i \in 1 .. Smaller(Fetch(addr).used - start_id, ntemps) |->
                nvm[addr + ITEMS + start_id + i - 1]]

temperature_count(db_id) ==
    IF db_id = local_db.id THEN local_db.used
    ELSE IF DbAddr(db_id) = NULL THEN 0
    ELSE Fetch(DbAddr(db_id)).used

temperature_count_all ==
    LET from[addr \in Addresses] ==
            IF NextAddr(Fetch(addr)) = NULL THEN Fetch(addr).used
            ELSE Fetch(addr).used + from[NextAddr(Fetch(addr))]
    IN  from[0]
=============================================================================
