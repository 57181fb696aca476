# TLA+ models of FASIMITO-BCOS state and storage

This directory holds TLA+ specifications of the stateful parts of the node
under `src/`, the TLC configurations that check them, and `PROJECT.json`.
That file records the components, the runs, the mutants, the map from every
definition to the source lines it models, the findings and the hazards.

## The system and its parts

| Part | Source | State | Operations | Model |
|---|---|---|---|---|
| Account state | `src/libmptstate/State.cpp` | the account trie, `m_cache`, `m_unchangedCacheEntries`, `m_nonExistingAccountsCache`, `m_changeLog`, `m_touched` | `account` (lazy load, random eviction), the queries, `addBalance`, `subBalance`, `setBalance`, `incNonce`, `setNonce`, `createContract`, `kill`, `storage`/`setStorage`, `clearStorage`, `code`/`setCode`, `setRoot`, `savepoint`, `rollback`, `commit`, `populateFrom`, `storage(address)`, `addresses` | `MptState`, `AccountStateAbstract`, `MCMptState`, `MCMptStateRefines`, `AddressEnumeration`, `MCAddressEnumeration` |
| Account value object | `Account.h`, not in this tree | nonce, balance, code, storage root and overlay, alive and dirty flags | setters, `kill`, `untouch`, `isEmpty` | operators of `MptState`, from the spec |
| Table factory precompiled | `src/libstorage/TableFactoryPrecompiled.cpp`, `Common.h` | user tables, registered table precompileds | `openTable`, `createTable`, `getErrorCodeOut` | `TableFactoryPrecompiled`, `MCTableFactoryPrecompiled` |
| Storage backends | `LevelDBStorage2.cpp`, `RocksDBStorage.cpp` | physical key → bucket of rows | `select`, `commit` (`processDirtyEntries`, `processNewEntries`, batch fill, write, exception translation) | `StorageBackend`, `TableStorageAbstract`, `MCStorageBackend` |
| RocksDB wrapper | `BasicRocksDB.cpp` | the store, a write batch | `Open`, `Get`, `PutWithLock`, `Write`, `checkStatus`, encryption hooks | `BasicRocksDB`, `MCBasicRocksDB` |
| `evm_main` | `src/fisco-bcos/evm/evm_main.cpp` | — | `updateMptState` (populates a fresh contract account) | caller action in `MCMptState` |
| Parallel-transfer benchmarks | `src/fisco-bcos/para/para_main.cpp`, `para_main_node.cpp` | users saved per chain, transfers sent, the node's group loop | `initUser`, `genTxUserTransfer`, `generateUserAddTx`, `createTx` | `ParaWorkload`, `MCParaWorkload` |
| Crypto, other CLI programs, interfaces | `libdevcrypto`, `fisco-bcos/*`, `BlockChainInterface.h`, `SQLBasicAccess.h` | — | — | not modelled: see below |

How the parts interact:

- The EVM executive drives `State`. It takes a savepoint before each call
  frame, calls the mutators, and either rolls back to the savepoint or moves
  on. At the end of the block it commits. `setRoot` moves the State between
  blocks.
- Precompiled contracts such as the table factory work on the table layer
  (`MemoryTable`, not in this tree). The table layer hands its rows to a
  backend's `commit` once per block. `RocksDBStorage` talks to RocksDB;
  `BasicRocksDB` is the wrapper that classifies RocksDB statuses and
  encrypts values.

## Modules

### `MptState`

There is one variable per member of `State`:
- `trie` is the committed account trie. Each address holds a record of
  nonce, balance, code and storage, or `Absent`.
- `cache`, `unchanged`, `nonExisting` and `changeLog` are the caches and the
  log.
- `touched` is `m_touched`.
- `marks` holds the savepoints the executing layer keeps.

`unchanged` is a bag. The code keeps a vector with duplicates and evicts a
uniformly random element, so only the multiset matters.

Each mutator is one action that models the whole method, including the
`account()` lookup it begins with. That lookup may load from the trie and
evict. Operations are written as operators on a record `S` of the State
members, so a method that calls another composes their operators in the
code's order:
- `Lookup` is the set of possible outcomes of `account()`, because eviction is random.
- `Query` is any read-only query: it makes the same `account()` load.
  `AccountPtr`, `AddressInUse`, `BalanceOf`, `GetNonce`, `CodeHash` and
  `StorageValue` are what the queries answer. `AccountView` is those answers
  for one address.
- `AddBalanceOn` is `addBalance`, including the Touch record and the `createAccount` branch.
- `StorageRead` is `storage(a, k)`. Its read is cached into the overlay and
  makes the account dirty.
- `ClearStorage` goes through `m_cache[a]`, which default-constructs a dead
  account. It does nothing more when the base root is empty; otherwise it
  logs the old root and drops the overlay.
- `SetRoot` empties the three caches and keeps `m_changeLog` and `m_touched`.
- `Undo` and `RollbackTo` are `rollback`. The log is undone newest first,
  through `m_cache[address]`.
- `CommitOver` is `removeEmptyAccounts`, then `mptstate::commit`, then the
  clears. `Commit` applies it to the current trie. `PopulateFrom(m)` first
  writes `m` into the trie with `mptstate::commit`, whose result it drops.
- `StorageEnumeration` is `storage(address)`: the base root's non-zero slots,
  with the overlay merged over them. A zero in the overlay erases its slot.

Data abstractions:
- Balances are u256 reduced to `BalMod` values. The wrap-around of `0 - v`
  is kept as `% BalMod`.
- A code is a model value, standing for its hash too.
- Storage is a function of a small key set. The trie stores the storage
  values, not a root hash.

### `AccountStateAbstract`

The promise `State` makes to its caller, in terms of the query answers
(alive, nonce, balance, code, storage):
- a savepoint remembers the world;
- rollback returns exactly the remembered world;
- commit persists every live account, may drop an empty one (EIP-161), and
  drops a dead one;
- nothing else changes the persisted world.

### `MCMptState`

This module instantiates `MptState` for TLC. It adds a `blocks` counter that
bounds the commits, and address symmetry. A state constraint bounds the log
at 2 records, the unchanged list at 2 entries and the savepoints at 2.

Besides `ExecuteStep` and `Commit`, `MCNext` takes three caller actions,
each under the discipline of its caller:
- `clearStorage` on a cached account (contract creation calls it on the
  account it has just written);
- `setRoot` when no change is pending (between blocks);
- `UpdateMptState`: `evm_main`'s `populateFrom` of `Account(0, 0)` with code,
  at a freshly generated address.

### `MCMptStateRefines`

This module adds a history variable `snapViews`: the world at each savepoint
held. It maps `State` to `AccountStateAbstract` with `INSTANCE ... WITH`. The
world is `AccountView` per address; the committed world is the trie's view.
The caller writes storage and code only to live accounts. `CallerSpec`
leaves out `kill`; `KillSpec` includes it.

### `AddressEnumeration`

`addresses()` and `addresses(beginHash, maxResults)` in an `ETH_FATDB` build,
over one snapshot of trie and cache. An address is identified with its hash
(a number), so hash order is number order. `TriePage` is the trie loop,
`CacheAddresses` the merge of changed cached accounts, and `Addresses` the
cut to `maxResults` with its next key. A caller pages from `h256()` until
the next key is `h256()`.

### `TableFactoryPrecompiled`

`openTable` and `createTable`, with every length check in the code's order,
the version-gated result codes and the `getErrorCodeOut` encoding. A name is
a model value with a length; a field list is the list of its trimmed lengths.

### `StorageBackend` and `TableStorageAbstract`

`StorageBackend` has both backends. The variable `variant` is the backend
the node was configured with; it is chosen at Init and never changes, so one
run covers both. `GetStatuses` and `WriteStatuses` give, per backend, the
statuses its store may return:
- `db` maps a physical key, `table + "_" + key`, to a bucket.
- `Select` keeps a bucket's NORMAL rows. `SelectThrows` is the failed Get
  that throws `StorageException` before the operation changes anything.
- `Key2Value` is `processDirtyEntries` (the table's rows of a changed key,
  without reading the store), then `processNewEntries` (which reads the
  stored bucket of a key not yet in the map and appends).
- `CommitLevelDB` fills the batch in table order. A failed Get throws
  `StorageException`. The result of `m_db->Write` is dropped
  (`LevelDBStorage2.cpp:130`), so a failed Write returns like a successful
  one.
- `CommitRocksDB` fills the batch from a `parallel_for`. It drops the Write
  status in the same way (`RocksDBStorage.cpp:149`), and its catch slices
  the exception.

The table layer (`MemoryTable`, not in this tree) is modelled from the spec.
It caches the rows it reads, updates and removes them, queues inserts, and
hands every cached row of a changed key to `commit`, because `onlyDirty()`
is false.

`TableStorageAbstract` is the promise: staged changes are invisible to the
store; a successful commit makes every table's staged rows the stored ones
at once; a failed commit changes nothing.

### `ParaWorkload`

This module models the workload generators of the two parallel-transfer
benchmarks. Both save users `0 .. n-1` through the transfer contract's
`userSave`, then send `userTransfer(from, to, 1)`. A user is its number. A
transaction is its chain and its two users.
- mini-para: `InitUser` executes and commits the `userSave` block.
  `GenTxUserTransfer` is one iteration of `genTxUserTransfer`'s loop.
  `Divisor` and `MiniPairs` are its two branches: two `rand() % n` draws
  past the middle, and the pair `(i % (n/2), (n/2 + i) % n)` before it. A
  division by zero traps and ends the process. `ExecuteBlocks` runs the
  block and exits.
- para node: `UserAdd` is `generateUserAddTx`, called while the visited
  group has no block. Every `userSave` submission may throw and be skipped.
  `CreateTransfer` draws two users from `uniform_int_distribution<int>(0,
  userCount)`, submits the transfer, and moves to the next group.
- `Seal` is the group's consensus, which is not in this tree. It commits the
  group's first block once the group holds a transaction.

### `BasicRocksDB`

`checkStatus`, `Open`, `Get` (decrypt), `PutWithLock` (encrypt the caller's
value in place) and `Write`. A caller, modelled from spec section 7, puts
every key and writes, and retries the whole commit on `DatabaseNeedRetry`.
The environment may make the store busy (`MaxBusy` times) or break it.

## Runs

| Run | What it checks | Bounds | Result |
|---|---|---|---|
| `state_core` | `TypeOK`; `NonExistingCacheSound` (the negative cache never hides an account the trie holds, across commits, `setRoot` and queries); `LogTargetsCached` (every log record's account stays cached despite random eviction); `CleanEntriesEvictable` (every clean cached account is still listed in `m_unchangedCacheEntries`, so eviction can reach it after a Touch rollback) | 2 addresses, cache limit 0, 1-bit balances, nonce ≤ 1, 1 commit | passes, ~711k states |
| `state_refines` | `RefinesAbstract`: State without kill implements `AccountStateAbstract` | as `state_core`, cache limit 1 | passes, ~43k states |
| `state_refines_storage` | the same refinement with storage and code, and `StorageEnumerationAgrees` (`storage(address)` lists exactly the non-zero point reads) | 1 address, 1 slot, 1 code | passes, ~17k states |
| `state_kill_not_undone` | `RefinesAbstract` with kill | as `state_core` | violation (finding 1) |
| `table_name_limit` | `NameLengthLimit`: a 64-character name is accepted, a 65-character one rejected (spec §8) | names of 58, 64, 65 characters | violation (finding 2) |
| `backend_commit` | `TypeOK`, `UniqueLiveIds` (no bucket holds two live rows with one id), `RefinesTables` (refines `TableStorageAbstract`), for both backends | 2 tables, 1 key, 2 values, 3 ids, 2 blocks; LevelDB Get OK or IOError, RocksDB Get OK or Busy; Write OK (a failed Write is the next run) | passes, ~83k states |
| `write_status_ignored` | `RefinesTables` when the Write may fail | both backends; leveldb Write OK or IOError, RocksDB Write OK or Busy | violation (finding 3) |
| `backend_transient_not_retryable` | `TransientIsRetryable`: a busy store surfaces as `DatabaseNeedRetry` | Get OK or Busy | violation (finding 4) |
| `basic_rocksdb_retry` | `RoundTrip` (after a successful commit every key reads back its plaintext through encryption) | 3 keys, encryption on, 3 busy episodes, a valid or an invalid batch | passes, 225 states |
| `basic_rocksdb_invalid_retried` | `CommitEnds`: the commit ends, done or failed | as `basic_rocksdb_retry` | violation (finding 7) |
| `addresses_page_skips` | `PagingComplete`: paging returns every address `addresses()` lists | 3 addresses, every snapshot, pages of 1 and 2 | violation (finding 5) |
| `para_workload_users` | `WorkloadWellFormed`: every transfer a benchmark sends names two users saved on its chain, and building it does not trap | both programs, 0-3 users, up to 2 transfers, 2 groups; deadlock not checked (mini-para exits, and a node with nothing to seal waits for ever) | violation (finding 6) |

The bounds are enough for these reasons:
- In `state_core` the cache limit is 0, so loading the second address
  takes the first off `m_unchangedCacheEntries` even while it is dirty.
  That is the only way, with two addresses, for a Touch rollback to find an
  account that eviction has already taken off the list. The refinement runs
  keep limit 1, where eviction erases an account only when it is clean.
- Two log records and two savepoints are enough for a rollback over a
  rollback and over a Touch record.
- One commit lets a commit's leftovers, such as the negative cache, meet
  the next block's lookups and `setRoot`. A second commit added states
  without adding a case.
- 1-bit balances make every add wrap.
- Two tables of one key give dirty and new rows of one key, two tables in
  one batch, and a key read in a later block. Three ids allow an insert in
  each block and one more. Two keys per table multiplied the states of the
  run, which checks both backends, fourfold without killing another mutant.
- Users up to 3 take in mini-para's 0 and 1 (divisor 0), both halves of
  `genTxUserTransfer` and the node's draw one past the last user.

Each property of a passing run has a mutant in `PROJECT.json`: a plausible
bug in the mapped code that TLC finds. The mutants include:
- an add without wrap-around;
- a `createAccount` that keeps the negative cache;
- eviction of dirty entries;
- a Touch undo that does not list the account again;
- an oldest-first rollback;
- logging after the write;
- an enumeration that keeps erased slots;
- dirty rows merged over the stored bucket;
- new rows processed first;
- no stored-bucket read;
- an unencrypted put.

## Fairness and liveness

`State`, the table factory and the backends are sequential libraries driven
by their caller, and they promise nothing that must eventually happen, so
their specifications have no fairness.

`BasicRocksDB` assumes:
- weak fairness of the caller's steps, because its thread keeps running;
- weak fairness of `Recover`, because RocksDB's Busy/TimedOut statuses clear
  once the competing writer or compaction is done.

Breaking is not fair: a store may stay up. Under this fairness the bounded
busy episodes end, and a valid batch is then written or meets a fatal
status. An invalid batch is retried for ever (finding 7).

`AddressEnumeration` assumes weak fairness of `FetchPage`, because the caller
keeps asking for pages.

`ParaWorkload` is checked only for a safety property, so it states no
fairness.

## Findings

1. **`kill` is not undone by rollback** (`State.cpp:422`). `kill` writes no
   change-log record, so a rollback to a savepoint taken before it leaves the
   account dead. Spec §4.4 says every mutation is logged.
2. **The table-name limit is 58, not 64** (`TableFactoryPrecompiled.cpp:134`).
   The `_user_` prefix is added before the length check.
3. **Write status ignored** (`RocksDBStorage.cpp:149`,
   `LevelDBStorage2.cpp:130`). Both `commit`s report success when the write
   failed, so a block the table layer considers committed is not in the
   store. (`BasicLevelDB` is not in this tree; its `Get` returns a Status
   that the caller checks, so its `Write` is taken to return one too.)
4. **Contention is not retryable** (`RocksDBStorage.cpp:208`). A Busy Get
   becomes `StorageException`, and the catch rethrows the caught
   `std::exception&` by value. The caller therefore sees a plain
   `std::exception`, not `DatabaseNeedRetry` (spec §§4.3, 7).
5. **Paged `addresses` skips accounts** (`State.cpp:259`, `ETH_FATDB` only).
   When the merged page is cut, the next key may be a cached account's hash
   above the trie's next key. With trie accounts 1 and 2, a new account 3 and
   pages of 1, paging returns 1 and 3.
6. **mini-para divides by zero for fewer than two users**
   (`para_main.cpp:87`). `genTxUserTransfer` takes `i % (_userNum / 2)` for
   the first transaction. With `mini-para 1 10`, or a non-numeric argument
   that `atoi` turns into 0, the process executes and commits the
   `userSave` block and then traps while building the transfers.
   The same property also catches the para node's draw from `0..userCount`
   inclusive. TLC stops at mini-para's shorter trace. With the node alone
   (`Programs = {"para-node"}`) it finds, in four states, a transfer from
   user 1 when only user 0 was saved.
7. **An invalid batch is retried for ever** (`BasicRocksDB.cpp:116`).
   `checkStatus` sends every status it does not list as fatal to
   `DatabaseNeedRetry`, `InvalidArgument` included. Its own comment (lines
   113-115) and spec §§4.3, 7 reserve the retry for contention and timeout
   statuses. A caller that retries on `DatabaseNeedRetry`, as the spec asks,
   never ends on a batch RocksDB refuses.

## Hazards documented without a run

`PROJECT.json` lists every hazard. These have no property that a run
checks, either because the model keeps the callers' discipline that rules
the case out or because all twelve run slots are used:
- `clearStorage` on an account not yet cached inserts a default dead account
  through `m_cache[]`. `MCNext` calls it only on a cached account, as
  contract creation does.
- `setRoot` with a pending change log makes a later rollback replay onto
  default accounts. The model calls it only between blocks, as the callers
  do.
- `clearStorage` logs only the old root, so a rollback over it loses
  uncommitted storage writes.
- A table name containing `_` makes two (table, key) pairs share a physical
  key.
- `populateFrom` leaves a stale negative cache. `MCMptState` keeps
  `evm_main`'s fresh-address discipline; without it TLC finds
  `NonExistingCacheSound` violated in three steps.
- `operator=` does not copy `m_changeLog`, unlike the copy constructor. No
  code in this tree copies or assigns a `State`.
- `storageRoot` reads only the trie.
- The para node's `hasGenerated` is reset for every group it visits. A
  group still without a block makes it resubmit every `userSave` to every
  group. A node with no user, or whose every `userSave` failed, waits for
  ever.

## Not modelled, and why

- **Savepoints above the log size.** `rollback`'s loop (`State.cpp:590`)
  runs while the savepoint differs from the log size, so a savepoint taken
  before a commit and used after it would pop an empty log. The executing
  layer that holds savepoints is not in this tree; the model's caller drops
  them on commit and rollback, so no property of `State` can speak to it.
- **Parts of `State`:**
  - The copy constructor and `operator=` have no caller in this tree
    (`evm_main` holds the State through a `shared_ptr`), so a second State
    instance would model a use the repository never makes. `openDB` is
    file-system I/O.
  - `requireAccountStartNonce` and `noteAccountStartNonce` only check and
    set the start nonce once; the model takes the start nonce as a constant.
  - `storageRoot`, `codeSize` and `CodeSizeCache` answer from the trie or
    from a size cache, and no modelled caller reads them.
  - The `#if 0` printer is not compiled.
- **`libdevcrypto`** holds pure byte transformations, with nothing to
  interleave.
- **`fisco-bcos/*`** (other than `evm_main`'s `updateMptState` and the
  para benchmarks' generators) holds the CLI programs, whose argument
  parsing and process lifecycle the spec puts out of scope. They drive
  components that are not in this tree: block verification, the ledger
  manager, the transaction pool and consensus.
- **`BlockChainInterface.h` and `SQLBasicAccess.h`** are declarations only.
  `Common.h` contributes the constants `TableFactoryPrecompiled` uses.

## Plan for the following work

1. The `clearStorage` rollback hazard and the table-name key collision as
   violation runs. Each needs a run slot, and all twelve are used.
2. The table layer's per-transaction rollback, composed with the backend.
3. `storageRoot` and `codeSize` with their caches.
