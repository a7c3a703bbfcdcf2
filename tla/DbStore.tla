------------------------------ MODULE DbStore ------------------------------
(***************************************************************************)
(* What the storage of the shell is to its user: the databases downloaded  *)
(* so far, in order.  A download adds all the databases it received or     *)
(* none, numbered from where the previous one stopped.                     *)
(***************************************************************************)
EXTENDS Integers, Sequences

CONSTANTS
    DB_IDS,     \* number of ids, 256 for the uint8_t that numbers them
    Sizes       \* numbers of temperatures of a database

VARIABLES
    stored,     \* the databases: id, size and used
    counter,    \* db_incr_counter
    closed      \* the shell has exited

storeVars == <<stored, counter, closed>>

StoreInit == stored = <<>> /\ counter = 0 /\ closed = FALSE

Dbs == [id : 0 .. DB_IDS - 1, size : Sizes, used : Nat]

\* What a download may add: consecutive ids, no more temperatures than announced
IsBatch(batch) ==
    /\ batch # <<>>
    /\ \A i \in DOMAIN batch :
          /\ batch[i] \in Dbs
          /\ batch[i].id = (counter + i - 1) % DB_IDS
          /\ batch[i].used <= batch[i].size

\* The databases a step adds
Added == SubSeq(stored', Len(stored) + 1, Len(stored'))

Download ==
    /\ ~closed /\ UNCHANGED closed
    /\ stored' = stored \o Added
    /\ IsBatch(Added)
    /\ counter' = Added[Len(Added)].id + 1

Close ==
    /\ closed' = TRUE /\ stored' = <<>>
    /\ UNCHANGED counter

StoreNext == Download \/ Close

StoreSpec == StoreInit /\ [][StoreNext]_storeVars
=============================================================================
