--------------------------- MODULE StorageBackend ---------------------------
(***************************************************************************)
(* The embedded storage backends LevelDBStorage2 and RocksDBStorage        *)
(* (src/libstorage) under the table layer that drives them.                *)
(*                                                                         *)
(* The store maps a physical key, tableName + "_" + key, to a bucket: the  *)
(* list of rows stored for that key.  select reads one bucket and keeps    *)
(* its NORMAL rows.  commit builds, table by table, a map key2value from   *)
(* the table's dirty rows (processDirtyEntries, which never reads the      *)
(* store) and then its new rows (processNewEntries, which reads the stored *)
(* bucket of a key not yet in the map and appends); it puts every bucket   *)
(* into one write batch and writes the batch.                              *)
(*                                                                         *)
(* The table layer (MemoryTable, not in this source tree) is modelled from *)
(* the spec: per block it caches the NORMAL rows of the keys it reads,     *)
(* updates and removes rows in that cache, queues inserted rows, and hands *)
(* the backend, because onlyDirty() is false, every cached row of a key it *)
(* changed.  The block number and the serialisation of a bucket are left   *)
(* out: no property reads them.                                            *)
(***************************************************************************)
EXTENDS Integers, SequencesExt

CONSTANTS
    Tables,       \* table names (strings)
    Keys,         \* key field values (strings)
    Vals,         \* values of the one value field
    MaxId,        \* bound on row ids handed out
    MaxBlocks,    \* bound on committed blocks
    Variants,     \* the backends a behaviour may run on: "LevelDB2", "RocksDB"
    TableOrder,   \* the order of the TableData vector handed to commit
    GetStatuses,  \* backend -> statuses a Get may return: "OK", "Busy", "IOError"
    WriteStatuses,\* backend -> statuses a Write may return
    NotLoaded     \* a key the table layer has not read yet

\* LevelDBStorage2::select / commit: entryKey = tableInfo->name + "_" + key.
PhysKey(t, k) == t \o "_" \o k

PhysKeys == {PhysKey(t, k) : t \in Tables, k \in Keys}

Ids  == 1..MaxId
Rows == [id : Ids, val : Vals, status : {"NORMAL", "DELETED"}]

\* Busy and the other contention statuses are transient, IOError is fatal
\* (BasicRocksDB::checkStatus).
Transient == {"Busy"}

Results == {"none", "ok", "StorageException", "Exception", "DatabaseNeedRetry", "DatabaseError"}

VARIABLES
    db,          \* physical key -> bucket (<<>> when not found)
    cache,       \* table -> key -> rows the table holds, or NotLoaded
    dirtyKeys,   \* table -> keys whose cached rows changed
    newEntries,  \* table -> inserted rows, as [key, row], in insertion order
    nextId,      \* next row id
    blocks,      \* blocks committed
    result,      \* what the last commit returned or threw
    fault,       \* the status of the store call that made the last commit fail
    variant      \* the backend the node was configured with

vars == <<db, cache, dirtyKeys, newEntries, nextId, blocks, result, fault, variant>>

-----------------------------------------------------------------------------
(* The backend: select and commit.                                          *)

\* select: the NORMAL rows of the bucket (the condition of the table layer
\* matches every row).
\* RocksDBStorage::select restores each row's status from its _status_ field
\* and keeps the NORMAL ones.
LiveRow(r) == r.status = "NORMAL"

Select(t, k) == SelectSeq(db[PhysKey(t, k)], LiveRow)

\* processDirtyEntries: every dirty row goes to its key's list; the stored
\* bucket is not read.
\* Mutant: the stored bucket is read and the dirty rows appended to it.
ProcessDirtyEntriesReadStored(t) ==
    [k \in dirtyKeys[t] |-> db[PhysKey(t, k)] \o cache[t][k]]

ProcessDirtyEntries(t) == [k \in dirtyKeys[t] |-> cache[t][k]]

\* processNewEntries: a key not yet in key2value starts from the stored
\* bucket (empty when not found); the row is appended.
\* Mutant: a key not yet in key2value starts from an empty list.
AddNewEntryNoRead(t, m, e) ==
    IF e.key \in DOMAIN m
    THEN [m EXCEPT ![e.key] = Append(@, e.row)]
    ELSE (e.key :> <<e.row>>) @@ m

\* Mutant: the whole entry, key included, is appended instead of its fields.
AddNewEntryWholeEntry(t, m, e) ==
    IF e.key \in DOMAIN m
    THEN [m EXCEPT ![e.key] = Append(@, e)]
    ELSE (e.key :> Append(db[PhysKey(t, e.key)], e)) @@ m

AddNewEntry(t, m, e) ==
    IF e.key \in DOMAIN m
    THEN [m EXCEPT ![e.key] = Append(@, e.row)]
    ELSE (e.key :> Append(db[PhysKey(t, e.key)], e.row)) @@ m

ProcessNewEntries(t, m) ==
    FoldLeft(LAMBDA acc, e : AddNewEntry(t, acc, e), m, newEntries[t])

\* The keys whose bucket processNewEntries reads from the store.
ReadKeys(t) == {newEntries[t][i].key : i \in 1..Len(newEntries[t])} \ dirtyKeys[t]

\* Mutant: new entries are processed first, dirty entries after them.
Key2ValueNewFirst(t) ==
    LET m == ProcessNewEntries(t, <<>>)
    IN  [k \in DOMAIN m \cup dirtyKeys[t] |->
           (IF k \in DOMAIN m THEN m[k] ELSE <<>>)
             \o (IF k \in dirtyKeys[t] THEN cache[t][k] ELSE <<>>)]

\* key2value of one table: dirty entries first, then new entries.
Key2Value(t) == ProcessNewEntries(t, ProcessDirtyEntries(t))

\* The buckets table t puts into the batch, by physical key.
Puts(t) == {<<PhysKey(t, k), Key2Value(t)[k]>> : k \in DOMAIN Key2Value(t)}

Writers(p) == {t \in Tables : \E k \in DOMAIN Key2Value(t) : PhysKey(t, k) = p}

\* The bucket table t puts for physical key p (a table's keys map to
\* distinct physical keys).
PutFor(t, p) == Key2Value(t)[CHOOSE k \in DOMAIN Key2Value(t) : PhysKey(t, k) = p]

\* LevelDBStorage2::commit fills the batch table after table in the order of
\* datas: the last Put of a physical key wins.
LastWriter(p) == TableOrder[Max({i \in 1..Len(TableOrder) : TableOrder[i] \in Writers(p)})]

\* RocksDBStorage::commit fills the batch from a parallel_for over the
\* tables: the Put of a physical key that lands last may be any writer's.
BucketChoices(p) ==
    IF Writers(p) = {} THEN {db[p]}
    ELSE IF variant = "LevelDB2" THEN {PutFor(LastWriter(p), p)}
    ELSE {PutFor(t, p) : t \in Writers(p)}

BatchOutcomes ==
    {d \in [PhysKeys -> UNION {BucketChoices(p) : p \in PhysKeys}] :
        \A p \in PhysKeys : d[p] \in BucketChoices(p)}

\* After a commit returns, the block is over: the table layer starts afresh.
ResetTables ==
    /\ cache' = [t \in Tables |-> [k \in Keys |-> NotLoaded]]
    /\ dirtyKeys' = [t \in Tables |-> {}]
    /\ newEntries' = [t \in Tables |-> <<>>]

\* What a failed commit throws: LevelDBStorage2 catches every exception and
\* throws StorageException(-1); RocksDBStorage rethrows the caught
\* std::exception& by value, which keeps only its std::exception part.
Thrown == IF variant = "LevelDB2" THEN "StorageException" ELSE "Exception"

\* A commit that throws changes nothing and reports what it threw.
Fails(status) ==
    /\ result' = Thrown /\ fault' = status
    /\ UNCHANGED <<db, cache, dirtyKeys, newEntries, nextId, blocks, variant>>

\* A commit that returns datas.size(): the block is over.
Returns(newDb) ==
    /\ db' = newDb
    /\ result' = "ok" /\ fault' = "OK"
    /\ blocks' = blocks + 1
    /\ ResetTables
    /\ UNCHANGED <<nextId, variant>>

\* Whether processNewEntries reads a stored bucket for some table.
Reads == UNION {ReadKeys(t) : t \in Tables} # {}

\* LevelDBStorage2::commit.  getStatus: the status of the Gets
\* processNewEntries makes, which it checks and throws on; writeStatus: that
\* of m_db->Write, whose result is dropped, so a failed write returns like a
\* successful one.
CommitLevelDB(getStatus, writeStatus) ==
    /\ variant = "LevelDB2" /\ blocks < MaxBlocks
    /\ CASE Reads /\ getStatus # "OK" -> Fails(getStatus)
         [] writeStatus # "OK"         -> Returns(db)
         [] OTHER                      -> \E d \in BatchOutcomes : Returns(d)

\* RocksDBStorage::commit: rocksdb::DB::Write's status is dropped in the
\* same way.
CommitRocksDB(getStatus, writeStatus) ==
    /\ variant = "RocksDB" /\ blocks < MaxBlocks
    /\ CASE Reads /\ getStatus # "OK" -> Fails(getStatus)
         [] writeStatus # "OK"         -> Returns(db)
         [] OTHER                      -> \E d \in BatchOutcomes : Returns(d)

-----------------------------------------------------------------------------
(* The table layer (spec section 4.1), which drives the backend.            *)

Loaded(t, k) == IF cache[t][k] = NotLoaded THEN Select(t, k) ELSE cache[t][k]

NewRows(t, k) ==
    LET es == SelectSeq(newEntries[t], LAMBDA e : e.key = k)
    IN  [i \in 1..Len(es) |-> es[i].row]

\* The rows of (t, k) a block sees: the cached ones or the stored NORMAL
\* ones, then the ones it inserted.
StagedRows(t, k) == Loaded(t, k) \o NewRows(t, k)

SetRow(r, upd) == IF r.status = "NORMAL" THEN upd[r] ELSE r

\* update / remove apply to every NORMAL row of the key, cached or new.
Modify(t, k, upd) ==
    LET rows == Loaded(t, k)
        news == newEntries[t]
        hit  == \E i \in 1..Len(rows) : rows[i].status = "NORMAL"
    IN  /\ cache' = [cache EXCEPT ![t][k] = [i \in 1..Len(rows) |-> SetRow(rows[i], upd)]]
        /\ newEntries' = [newEntries EXCEPT ![t] =
              [i \in 1..Len(news) |-> IF news[i].key = k
                                      THEN [news[i] EXCEPT !.row = SetRow(@, upd)]
                                      ELSE news[i]]]
        /\ dirtyKeys' = [dirtyKeys EXCEPT ![t] = IF hit THEN @ \cup {k} ELSE @]

Insert(t, k, v) ==
    /\ nextId <= MaxId
    /\ newEntries' = [newEntries EXCEPT ![t] =
          Append(@, [key |-> k, row |-> [id |-> nextId, val |-> v, status |-> "NORMAL"]])]
    /\ nextId' = nextId + 1
    /\ UNCHANGED <<db, cache, dirtyKeys, blocks, result, fault, variant>>

\* select of a key the table has not read yet throws StorageException(-1)
\* when the store's Get returns neither OK nor NotFound; the operation that
\* needed the rows fails before it changes anything.
SelectThrows(t, k, getStatus) == cache[t][k] = NotLoaded /\ getStatus # "OK"

\* update / remove: the select the table layer makes for an unread key,
\* then the change.
Update(t, k, v, g) ==
    /\ IF SelectThrows(t, k, g)
       THEN UNCHANGED <<cache, dirtyKeys, newEntries>>
       ELSE Modify(t, k, [r \in Rows |-> [r EXCEPT !.val = v]])
    /\ UNCHANGED <<db, nextId, blocks, result, fault, variant>>

RemoveRows(t, k, g) ==
    /\ IF SelectThrows(t, k, g)
       THEN UNCHANGED <<cache, dirtyKeys, newEntries>>
       ELSE Modify(t, k, [r \in Rows |-> [r EXCEPT !.status = "DELETED"]])
    /\ UNCHANGED <<db, nextId, blocks, result, fault, variant>>

\* The block is abandoned before it commits (its executive is discarded).
Abandon ==
    /\ ResetTables
    /\ UNCHANGED <<db, nextId, blocks, result, fault, variant>>

Init ==
    /\ db = [p \in PhysKeys |-> <<>>]
    /\ cache = [t \in Tables |-> [k \in Keys |-> NotLoaded]]
    /\ dirtyKeys = [t \in Tables |-> {}]
    /\ newEntries = [t \in Tables |-> <<>>]
    /\ nextId = 1
    /\ blocks = 0
    /\ result = "none"
    /\ fault = "OK"
    /\ variant \in Variants

Next ==
    \/ \E t \in Tables, k \in Keys, v \in Vals : Insert(t, k, v)
    \/ \E t \in Tables, k \in Keys, v \in Vals, g \in GetStatuses[variant] : Update(t, k, v, g)
    \/ \E t \in Tables, k \in Keys, g \in GetStatuses[variant] : RemoveRows(t, k, g)
    \/ Abandon
    \/ \E g \in GetStatuses[variant], w \in WriteStatuses[variant] : CommitLevelDB(g, w) \/ CommitRocksDB(g, w)

Spec == Init /\ [][Next]_vars

=============================================================================
