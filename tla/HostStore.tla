----------------------------- MODULE HostStore -----------------------------
(***************************************************************************)
(* The storage of the shell (sources/host/shell_commands.c): the list of   *)
(* the databases downloaded, the list a download is filling, and the ids   *)
(* given to the databases.  A database object is identified with the node  *)
(* of the list that points to it.                                          *)
(***************************************************************************)
EXTENDS LinkedList

CONSTANTS
    DB_IDS,     \* number of ids, 256 for the uint8_t of the code
    Sizes,      \* sizes of the databases of the tmon
    Bursts,     \* numbers of temperatures in a packet
    MaxDbs      \* bound on the databases of the host

ASSUME HostStoreAssumption ==
    /\ DB_IDS \in Nat \ {0}
    /\ MaxDbs \in Nat /\ MaxDbs <= Cardinality(Nodes)   \* malloc finds a node
    /\ Sizes \subseteq Nat \ {0}    \* the tmon skips empty databases
    /\ Bursts \subseteq Nat

VARIABLES
    mem,                \* the nodes
    dbs,                \* st->dbs
    db_incr_counter,    \* st->db_incr_counter
    db_list,            \* the list of the download, with NULL for no download
    db_current, db_id   \* locals of the download

storeVars == <<mem, dbs, db_incr_counter, db_list, db_current, db_id>>

NoList == [head |-> NULL, tail |-> NULL, size |-> -1]

StoreInit ==
    /\ mem = <<>>
    /\ dbs = list_new /\ db_list = NoList
    /\ db_incr_counter = 0 /\ db_current = NULL /\ db_id = 0

Downloading == db_list # NoList

\* download allocates its list ...
DownloadBegin ==
    /\ db_list' = list_new /\ db_current' = NULL
    /\ UNCHANGED <<mem, dbs, db_incr_counter, db_id>>

\* The locals of download are gone
DownloadReturns == db_list' = NoList /\ db_current' = NULL /\ db_id' = 0

\* Mutant: the databases received so far are kept
DownloadFailsKeeps ==
    /\ LET joined == list_concat(mem, dbs, db_list)
       IN  mem' = joined.mem /\ dbs' = joined.l
    /\ DownloadReturns
    /\ UNCHANGED db_incr_counter

\* ... and deletes it with its databases when something fails
DownloadFails ==
    /\ mem' = list_delete(mem, db_list)
    /\ DownloadReturns
    /\ UNCHANGED <<dbs, db_incr_counter>>

\* temperature_db_new
Db(id, size) == [id |-> id, size |-> size, used |-> 0]

\* A CTR packet announces a database; the tmon numbers its own from 0
NewDb(size) ==
    /\ dbs.size + db_list.size < MaxDbs
    /\ db_id' = (db_list.size + db_incr_counter) % DB_IDS
    /\ LET added == list_add_tail(mem, db_list, Db(db_id', size))
       IN  /\ mem' = added.mem /\ db_list' = added.l
           /\ db_current' = added.l.tail
    /\ UNCHANGED <<dbs, db_incr_counter>>

\* Mutant: the size of the database is not looked at
IsRefusedEarly(burst) == db_current = NULL \/ burst = 0

\* A DAT packet that ends the download
IsRefused(burst) ==
    \/ db_current = NULL
    \/ mem[db_current].value.size < mem[db_current].value.used + burst
    \/ burst = 0

\* temperature_register_bulk of the temperatures of a DAT packet
NewTemperatures(burst) ==
    /\ ~IsRefused(burst)
    /\ mem' = [mem EXCEPT ![db_current].value.used = @ + burst]
    /\ UNCHANGED <<dbs, db_incr_counter, db_list, db_current, db_id>>

\* Mutant: the ids of the next download start where this one started
NextCounterSame == db_incr_counter

NextCounter == db_id + 1

\* An empty CTR packet: what was received joins the databases of the host
DownloadEnds ==
    /\ LET joined == list_concat(mem, dbs, db_list)
       IN  mem' = joined.mem /\ dbs' = joined.l
    /\ db_incr_counter' = IF db_list.size = 0 THEN db_incr_counter ELSE NextCounter
    /\ DownloadReturns

\* The database export finds
DbOfId(id) == list_find(mem, dbs, {n \in DOMAIN mem : mem[n].value.id = id})

-----------------------------------------------------------------------------

Lists == {dbs} \cup IF Downloading THEN {db_list} ELSE {}

\* The two lists of the shell can be walked through and added to, share no node,
\* and no node is lost: whatever the way a download ends, nothing is freed that
\* is still in use and nothing is left allocated.
ListsSound ==
    /\ \A l \in Lists : Sound(mem, l)
    /\ Downloading => ToSet(NodesOf(mem, dbs)) \cap ToSet(NodesOf(mem, db_list)) = {}
    /\ DOMAIN mem = UNION {ToSet(NodesOf(mem, l)) : l \in Lists}

\* Every operation of the list does to the databases of the host what the same
\* operation does to a sequence, and leaves a sound list; except that list_remove
\* of the second of two nodes (list.c:128) leaves a next pointer to a freed node.
IsOn(result, values) ==
    Values(result.mem, result.l) = values /\ Sound(result.mem, result.l)

ListOpsExact ==
    LET values == Values(mem, dbs)
        db     == Db(0, 0)
    IN  /\ Nodes # DOMAIN mem =>
              \A i \in 0 .. dbs.size :
                  IsOn(list_add_at(mem, dbs, i, db), InsertAt(values, i + 1, db))
        /\ \A i \in 0 .. dbs.size - 1 :
              LET removed == list_remove(mem, dbs, i)
              IN  /\ Values(removed.mem, removed.l) = RemoveAt(values, i + 1)
                  /\ Sound(removed.mem, removed.l) <=> ~(dbs.size = 2 /\ i = 1)
        /\ \A i \in 1 .. dbs.size :
              DbOfId(values[i].id) =
                  NodesOf(mem, dbs)[SelectInSeq(values, LAMBDA v : v.id = values[i].id)]

\* As long as the host has no more databases than ids, export finds each of the
\* databases that list shows, whatever the downloads that failed in between.
EveryDbExported ==
    dbs.size <= DB_IDS => \A n \in ToSet(NodesOf(mem, dbs)) : DbOfId(mem[n].value.id) = n
=============================================================================
