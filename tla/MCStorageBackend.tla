-------------------------- MODULE MCStorageBackend --------------------------
(***************************************************************************)
(* Model-checking instance of StorageBackend: the configurations choose    *)
(* the backends, the table and key names, and the statuses each store may  *)
(* return.                                                                 *)
(***************************************************************************)
EXTENDS StorageBackend

\* The TableData vector comes from the factory's map of open tables; any
\* fixed order of the names stands for it.
MCTableOrder == SetToSeq(Tables)

\* The statuses each store returns.  leveldb has no contention status: its
\* Get fails with IOError.  RocksDB's Get may also be Busy.  Both commits
\* drop the Write's status, so the Write is OK where a run checks what a
\* successful Write promises.
MCGetStatuses ==
    [v \in {"LevelDB2", "RocksDB"} |-> IF v = "LevelDB2" THEN {"OK", "IOError"} ELSE {"OK", "Busy"}]
MCWriteStatuses == [v \in {"LevelDB2", "RocksDB"} |-> {"OK"}]
\* Stores whose Gets succeed and whose Write may fail: IOError for leveldb,
\* Busy for RocksDB.
MCGetOk      == [v \in {"LevelDB2", "RocksDB"} |-> {"OK"}]
MCWriteFails ==
    [v \in {"LevelDB2", "RocksDB"} |-> IF v = "LevelDB2" THEN {"OK", "IOError"} ELSE {"OK", "Busy"}]

-----------------------------------------------------------------------------
\* Type invariant.
TypeOK ==
    /\ db \in [PhysKeys -> Seq(Rows)]
    /\ cache \in [Tables -> [Keys -> Seq(Rows) \cup {NotLoaded}]]
    /\ dirtyKeys \in [Tables -> SUBSET Keys]
    /\ newEntries \in [Tables -> Seq([key : Keys, row : Rows])]
    /\ nextId \in 1..MaxId + 1
    /\ blocks \in 0..MaxBlocks
    /\ result \in Results
    /\ variant \in Variants
    /\ fault \in GetStatuses[variant] \cup WriteStatuses[variant]

\* Spec section 9: a bucket never holds two NORMAL rows with the same id.
\* processDirtyEntries rebuilds a changed key's bucket from the table's rows
\* alone and processNewEntries appends to it without reading the store
\* again; reading the stored bucket there as well would keep the old version
\* of every updated row live next to the new one.
UniqueLiveIds ==
    \A p \in PhysKeys : \A i, j \in 1..Len(db[p]) :
        (i # j /\ db[p][i].status = "NORMAL" /\ db[p][j].status = "NORMAL")
            => db[p][i].id # db[p][j].id

-----------------------------------------------------------------------------
(* Refinement of TableStorageAbstract.                                      *)

Live(rows) == {[id |-> rows[i].id, val |-> rows[i].val] :
                  i \in {j \in 1..Len(rows) : rows[j].status = "NORMAL"}}

CommittedRows == [t \in Tables |-> [k \in Keys |-> Live(db[PhysKey(t, k)])]]
PendingRows   == [t \in Tables |-> [k \in Keys |-> Live(StagedRows(t, k))]]

Abstract == INSTANCE TableStorageAbstract
    WITH committed <- CommittedRows, pending <- PendingRows, commits <- blocks,
         LiveRows <- [id : Ids, val : Vals]

\* Spec sections 4.3 and 5: a commit that returns success has made every
\* table's staged rows the stored rows of their (table, key), atomically, and
\* nothing else changes what is stored.  It is about commit's key2value
\* construction (dirty rows, then new rows over the stored bucket), the
\* physical key layout, the batch Puts of several tables and the status of
\* the final Write.
RefinesTables == Abstract!Spec

\* Spec sections 4.3 and 7: a busy or timed-out store surfaces from commit
\* as DatabaseNeedRetry, so that the caller retries the whole commit.  It is
\* about how the Get status in processNewEntries and the commit's exception
\* handlers turn a store error into what commit throws.
TransientIsRetryable ==
    fault \in Transient => result = "DatabaseNeedRetry"

=============================================================================
