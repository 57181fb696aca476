------------------------------ MODULE MptState ------------------------------
(***************************************************************************)
(* The account state of src/libmptstate/State.cpp: a cache of Account      *)
(* objects over a secure trie, the change log that makes savepoint and     *)
(* rollback possible, the random eviction of unchanged cache entries and   *)
(* the commit that prunes touched empty accounts and writes dirty ones     *)
(* into the trie.                                                          *)
(*                                                                         *)
(* Data abstraction: an address, a storage slot and a code blob are model  *)
(* values; a storage trie root is represented by the slot->value function  *)
(* it commits to; balances are u256 reduced to BalMod (a power of two) so  *)
(* that wrap-around arithmetic keeps its meaning.  The methods of class    *)
(* Account (Account.h, not part of this source tree) are modelled from the *)
(* spec and from the cpp-ethereum Account this code is derived from.       *)
(*                                                                         *)
(* Every operation is written as a function of the record S of the four    *)
(* variables that State methods update (cache, unchanged-entry list,       *)
(* non-existing cache, change log), so that a method calling another one   *)
(* (subBalance -> addBalance -> createAccount) composes the same way.      *)
(***************************************************************************)
EXTENDS Integers, SequencesExt, BagsExt

CONSTANTS
    Addr,        \* account addresses
    Keys,        \* storage slots
    Vals,        \* storage values; 0 means "slot not set"
    Codes,       \* non-empty contract codes
    NoCode,      \* the empty code (codeHash == EmptySHA3)
    BalMod,      \* 2^w: balances are u256, reduced to w bits
    Amounts,     \* values passed to addBalance / subBalance / setBalance
    StartNonce,  \* m_accountStartNonce
    MaxNonce,    \* bound on nonces reached by incNonce / setNonce
    CacheLimit,  \* the "1000" of clearCacheIfTooLarge
    Absent,      \* marker: the trie holds no account at this address
    NoKey,       \* marker: the key field of a change record that is not Storage
    Null,        \* marker: the view of an address without an account
    GenesisRecs  \* account records the genesis trie may hold (populateFrom)

ASSUME 0 \in Vals /\ NoCode \notin Codes /\ BalMod \in Nat \ {0}
ASSUME Amounts \subseteq 0..(BalMod - 1)
ASSUME StartNonce \in 0..MaxNonce /\ CacheLimit \in Nat

VARIABLES
    trie,          \* m_state: the committed account trie, Addr -> record or Absent
    cache,         \* m_cache: partial function Addr -> Account
    unchanged,     \* m_unchangedCacheEntries, as a bag (eviction picks uniformly)
    nonExisting,   \* m_nonExistingAccountsCache
    changeLog,     \* m_changeLog
    touched,       \* m_touched: addresses written by commits
    marks          \* savepoints held by the executing layer (State::savepoint results)

vars == <<trie, cache, unchanged, nonExisting, changeLog, touched, marks>>

Balances     == 0..(BalMod - 1)
Nonces       == 0..MaxNonce
AllCodes     == Codes \cup {NoCode}
Storages     == [Keys -> Vals]
EmptyStorage == [k \in Keys |-> 0]          \* EmptyTrie
EmptyMap     == [x \in {} |-> 0]
NoOverlay    == EmptyMap
Overlays     == UNION {[D -> Vals] : D \in SUBSET Keys}

TrieRecs == [nonce : Nonces, balance : Balances, code : AllCodes, storage : Storages]
Accounts == [nonce : Nonces, balance : Balances, code : AllCodes, root : Storages,
             overlay : Overlays, alive : BOOLEAN, dirty : BOOLEAN]

-----------------------------------------------------------------------------
(***************************************************************************)
(* Account (Account.h).  dirty is !m_isUnchanged; every mutator calls      *)
(* changed().                                                              *)
(***************************************************************************)

\* Account(nonce, balance): a live account created in this block.
NewAccount(n, b) == [nonce |-> n, balance |-> b, code |-> NoCode, root |-> EmptyStorage,
                     overlay |-> NoOverlay, alive |-> TRUE, dirty |-> TRUE]

\* Account(): what m_cache[addr] default-constructs, a dead account.
DeadAccount == [NewAccount(0, 0) EXCEPT !.alive = FALSE]

\* Account(nonce, balance, root, codeHash, Account::Unchanged) read from the trie.
FromTrie(t) == [nonce |-> t.nonce, balance |-> t.balance, code |-> t.code,
                root |-> t.storage, overlay |-> NoOverlay, alive |-> TRUE, dirty |-> FALSE]

IsEmpty(acc) == acc.nonce = 0 /\ acc.balance = 0 /\ acc.code = NoCode

StorageOf(acc) == [k \in Keys |-> IF k \in DOMAIN acc.overlay THEN acc.overlay[k]
                                                            ELSE acc.root[k]]

\* Mutant: the balance is added without u256 wrap-around.
AccAddBalanceNoWrap(acc, v) == [acc EXCEPT !.balance = @ + v, !.dirty = TRUE]
AccAddBalance(acc, v) == [acc EXCEPT !.balance = (@ + v) % BalMod, !.dirty = TRUE]
AccSetNonce(acc, n)   == [acc EXCEPT !.nonce = n, !.dirty = TRUE]
AccSetStorage(acc, k, v) == [acc EXCEPT !.overlay = (k :> v) @@ @, !.dirty = TRUE]
AccSetCode(acc, c)    == [acc EXCEPT !.code = c, !.dirty = TRUE]
AccUntouch(acc)       == [acc EXCEPT !.dirty = FALSE]
\* clearStorage / setStorageRoot: a new base root; the overlay is dropped.
AccClearStorage(acc)  == [acc EXCEPT !.root = EmptyStorage, !.overlay = NoOverlay, !.dirty = TRUE]
AccSetStorageRoot(acc, r) == [acc EXCEPT !.root = r, !.overlay = NoOverlay, !.dirty = TRUE]
AccKill(acc) == [acc EXCEPT !.alive = FALSE, !.overlay = NoOverlay, !.code = NoCode,
                            !.root = EmptyStorage, !.balance = 0, !.nonce = 0, !.dirty = TRUE]

-----------------------------------------------------------------------------
(***************************************************************************)
(* Change log records (struct Change): the pre-mutation value needed to    *)
(* undo one mutation.                                                      *)
(***************************************************************************)
Change(kind, a, k, v) == [kind |-> kind, addr |-> a, key |-> k, value |-> v]

Changes ==
    [kind : {"Storage"}, addr : Addr, key : Keys, value : Vals]
    \cup [kind : {"StorageRoot"}, addr : Addr, key : {NoKey}, value : Storages]
    \cup [kind : {"Balance"}, addr : Addr, key : {NoKey}, value : Balances]
    \cup [kind : {"Nonce"}, addr : Addr, key : {NoKey}, value : Nonces]
    \cup [kind : {"Code"}, addr : Addr, key : {NoKey}, value : AllCodes]
    \cup [kind : {"Create", "Touch"}, addr : Addr, key : {NoKey}, value : {0}]

\* The part of the state a State method reads and writes.
S == [cache |-> cache, unch |-> unchanged, nonex |-> nonExisting, log |-> changeLog]

Found(s, a) == a \in DOMAIN s.cache

Logged(s, records) == [s EXCEPT !.log = @ \o records]

\* m_cache[a] (operator[]): the cached account, default-constructed when absent.
CacheAt(s, a) == IF Found(s, a) THEN s.cache[a] ELSE DeadAccount

PutAccount(s, a, acc) == [s EXCEPT !.cache = (a :> acc) @@ @]

-----------------------------------------------------------------------------
(***************************************************************************)
(* State::account and clearCacheIfTooLarge.  The eviction loop removes     *)
(* random entries of m_unchangedCacheEntries until at most CacheLimit are  *)
(* left, erasing each from m_cache unless it is dirty.  Which indices the  *)
(* random engine picks is a free choice, so the order of the list does not *)
(* matter and it is kept as a bag.                                         *)
(***************************************************************************)
EvictionChoices(u) ==
    IF BagCardinality(u) > CacheLimit
    THEN {b \in SubBag(u) : BagCardinality(b) = BagCardinality(u) - CacheLimit}
    ELSE {EmptyBag}

\* Mutant: eviction erases the picked entry even when it is dirty.
ClearCacheIfTooLargeAnyEntry(s, ev) ==
    [s EXCEPT !.cache = Restrict(@, DOMAIN @ \ BagToSet(ev)), !.unch = @ (-) ev]

ClearCacheIfTooLarge(s, ev) ==
    LET erased == {x \in BagToSet(ev) \cap DOMAIN s.cache : ~s.cache[x].dirty}
    IN  [s EXCEPT !.cache = Restrict(@, DOMAIN @ \ erased), !.unch = @ (-) ev]

\* All states State::account(a) may leave behind.
Lookup(s, a) ==
    IF Found(s, a) \/ a \in s.nonex THEN {s}
    ELSE IF trie[a] = Absent THEN {[s EXCEPT !.nonex = @ \cup {a}]}
    ELSE { LET e == ClearCacheIfTooLarge(s, ev)
           IN  [PutAccount(e, a, FromTrie(trie[a])) EXCEPT !.unch = BagAdd(@, a)]
         : ev \in EvictionChoices(s.unch) }

-----------------------------------------------------------------------------
(***************************************************************************)
(* The mutators, each after account() has run (s = a state Lookup gave).   *)
(***************************************************************************)

\* createAccount: assert(!addressInUse) holds at every call site modelled.
\* Mutant: createAccount leaves the address in m_nonExistingAccountsCache.
CreateAccountOnKeepNonex(s, a, acc) ==
    Logged(PutAccount(s, a, acc), <<Change("Create", a, NoKey, 0)>>)

CreateAccountOn(s, a, acc) ==
    Logged([PutAccount(s, a, acc) EXCEPT !.nonex = @ \ {a}], <<Change("Create", a, NoKey, 0)>>)

\* addBalance: log a Touch on the first touch of an empty account, then Balance.
AddBalanceOn(s, a, v) ==
    LET balanceLog == IF v # 0 THEN <<Change("Balance", a, NoKey, v)>> ELSE <<>>
    IN  IF Found(s, a)
        THEN LET acc == s.cache[a]
                 touch == IF ~acc.dirty /\ IsEmpty(acc)
                          THEN <<Change("Touch", a, NoKey, 0)>> ELSE <<>>
             IN  Logged(PutAccount(s, a, AccAddBalance(acc, v)), touch \o balanceLog)
        ELSE Logged(CreateAccountOn(s, a, NewAccount(StartNonce, v)), balanceLog)

\* State::storage(a, k): a value missing from the overlay is read from the
\* account's storage trie and written into the overlay with setStorage.
StorageRead(s, a, k) ==
    IF ~Found(s, a) THEN [state |-> s, value |-> 0]
    ELSE LET acc == s.cache[a]
         IN  IF k \in DOMAIN acc.overlay
             THEN [state |-> s, value |-> acc.overlay[k]]
             ELSE [state |-> PutAccount(s, a, AccSetStorage(acc, k, acc.root[k])),
                   value |-> acc.root[k]]

\* State::storage(address) (ETH_FATDB): the non-zero slots of the account's
\* base storage root, then its overlay merged over the top, a zero in the
\* overlay erasing the slot.
\* Mutant: a zero in the overlay is kept instead of erasing the slot.
StorageEnumerationNoErase(acc) ==
    [k \in {k \in Keys : acc.root[k] # 0} \cup DOMAIN acc.overlay |->
        IF k \in DOMAIN acc.overlay THEN acc.overlay[k] ELSE acc.root[k]]

StorageEnumeration(acc) ==
    LET set    == {k \in DOMAIN acc.overlay : acc.overlay[k] # 0}
        erased == {k \in DOMAIN acc.overlay : acc.overlay[k] = 0}
    IN  [k \in ({k \in Keys : acc.root[k] # 0} \ erased) \cup set |->
           IF k \in DOMAIN acc.overlay THEN acc.overlay[k] ELSE acc.root[k]]

\* State::code(a): the code of a cached account, NullBytes otherwise.
CodeOf(s, a) == IF Found(s, a) THEN s.cache[a].code ELSE NoCode

-----------------------------------------------------------------------------
(***************************************************************************)
(* rollback: undo the change log suffix from the last record down to the   *)
(* savepoint, through m_cache[change.address] (which default-constructs).  *)
(***************************************************************************)
\* Mutant: undoing a Touch makes the account clean without listing it in
\* m_unchangedCacheEntries again.
UndoNoRequeue(ch, s) ==
    LET a == ch.addr
        acc == CacheAt(s, a)
    IN  CASE ch.kind = "Storage" -> PutAccount(s, a, AccSetStorage(acc, ch.key, ch.value))
          [] ch.kind = "StorageRoot" -> PutAccount(s, a, AccSetStorageRoot(acc, ch.value))
          [] ch.kind = "Balance" -> PutAccount(s, a, AccAddBalance(acc, BalMod - ch.value))
          [] ch.kind = "Nonce"   -> PutAccount(s, a, AccSetNonce(acc, ch.value))
          [] ch.kind = "Create"  -> [s EXCEPT !.cache = Restrict(@, DOMAIN @ \ {a})]
          [] ch.kind = "Code"    -> PutAccount(s, a, AccSetCode(acc, ch.value))
          [] ch.kind = "Touch"   -> PutAccount(s, a, AccUntouch(acc))

Undo(ch, s) ==
    LET a == ch.addr
        acc == CacheAt(s, a)
    IN  CASE ch.kind = "Storage" -> PutAccount(s, a, AccSetStorage(acc, ch.key, ch.value))
          [] ch.kind = "StorageRoot" -> PutAccount(s, a, AccSetStorageRoot(acc, ch.value))
          [] ch.kind = "Balance" -> PutAccount(s, a, AccAddBalance(acc, BalMod - ch.value))
          [] ch.kind = "Nonce"   -> PutAccount(s, a, AccSetNonce(acc, ch.value))
          [] ch.kind = "Create"  -> [s EXCEPT !.cache = Restrict(@, DOMAIN @ \ {a})]
          [] ch.kind = "Code"    -> PutAccount(s, a, AccSetCode(acc, ch.value))
          [] ch.kind = "Touch"   -> [PutAccount(s, a, AccUntouch(acc))
                                        EXCEPT !.unch = BagAdd(@, a)]

\* Mutant: the records are undone oldest first.
RollbackToOldestFirst(s, m) ==
    LET undone == FoldLeft(LAMBDA st, ch : Undo(ch, st), s, SubSeq(s.log, m + 1, Len(s.log)))
    IN  [undone EXCEPT !.log = SubSeq(s.log, 1, m)]

RollbackTo(s, m) ==
    LET undone == FoldRight(Undo, SubSeq(s.log, m + 1, Len(s.log)), s)
    IN  [undone EXCEPT !.log = SubSeq(s.log, 1, m)]

-----------------------------------------------------------------------------
(***************************************************************************)
(* commit: removeEmptyAccounts kills every dirty empty account, then       *)
(* mptstate::commit removes dirty dead accounts from the trie and writes   *)
(* every other dirty account with its overlay merged into its storage.     *)
(***************************************************************************)
RemoveEmptyAccounts(c) ==
    [a \in DOMAIN c |-> IF c[a].dirty /\ IsEmpty(c[a]) THEN AccKill(c[a]) ELSE c[a]]

ToTrie(acc) == [nonce |-> acc.nonce, balance |-> acc.balance, code |-> acc.code,
                storage |-> StorageOf(acc)]

CommitTrie(c, t) ==
    [a \in Addr |-> IF a \in DOMAIN c /\ c[a].dirty
                    THEN IF c[a].alive THEN ToTrie(c[a]) ELSE Absent
                    ELSE t[a]]

-----------------------------------------------------------------------------
(***************************************************************************)
(* Actions: one per public State method that changes state.                *)
(***************************************************************************)

\* The state record s becomes the new value of the State members.
Apply(s) ==
    /\ cache' = s.cache
    /\ unchanged' = s.unch
    /\ nonExisting' = s.nonex
    /\ changeLog' = s.log

Mutate(s) == Apply(s) /\ UNCHANGED <<trie, touched, marks>>

\* State::addBalance
AddBalance(a, v) == \E s \in Lookup(S, a) : Mutate(AddBalanceOn(s, a, v))

\* State::subBalance: NotEnoughCash when the account is missing or too poor,
\* after account() has already updated the caches.
SubBalance(a, v) ==
    /\ v # 0
    /\ \E s \in Lookup(S, a) :
         IF ~Found(s, a) \/ s.cache[a].balance < v
         THEN Mutate(s)
         ELSE Mutate(AddBalanceOn(s, a, (BalMod - v) % BalMod))

\* State::setBalance: addBalance(value - original), in u256 arithmetic.
SetBalance(a, v) ==
    \E s \in Lookup(S, a) :
        LET original == IF Found(s, a) THEN s.cache[a].balance ELSE 0
        IN  Mutate(AddBalanceOn(s, a, (v - original) % BalMod))

\* State::incNonce: a missing account is created with nonce StartNonce + 1.
IncNonce(a) ==
    \E s \in Lookup(S, a) :
        IF Found(s, a)
        THEN LET acc == s.cache[a]
             IN  /\ acc.nonce < MaxNonce
                 /\ Mutate(Logged(PutAccount(s, a, AccSetNonce(acc, acc.nonce + 1)),
                                  <<Change("Nonce", a, NoKey, acc.nonce)>>))
        ELSE /\ StartNonce < MaxNonce
             /\ Mutate(CreateAccountOn(s, a, NewAccount(StartNonce + 1, 0)))

\* State::setNonce
SetNonce(a, n) ==
    \E s \in Lookup(S, a) :
        IF Found(s, a)
        THEN LET acc == s.cache[a]
             IN  Mutate(Logged(PutAccount(s, a, AccSetNonce(acc, n)),
                               <<Change("Nonce", a, NoKey, acc.nonce)>>))
        ELSE Mutate(CreateAccountOn(s, a, NewAccount(n, 0)))

\* The read-only queries (addressInUse, accountNonemptyAndExisting,
\* addressHasCode, balance, getNonce, codeHash, codeSize) all go through
\* account(), which may load the account and evict others; what they
\* report is AccountView.
Query(a) == \E s \in Lookup(S, a) : Mutate(s)

\* State::createContract; its caller guarantees the address is not in use.
CreateContract(a) ==
    \E s \in Lookup(S, a) :
        /\ ~Found(s, a)
        /\ Mutate(CreateAccountOn(s, a, NewAccount(StartNonce, 0)))

\* State::kill: no change log record is written.
Kill(a) ==
    \E s \in Lookup(S, a) :
        /\ Found(s, a)
        /\ Mutate(PutAccount(s, a, AccKill(s.cache[a])))

\* State::setStorage: log the value storage() returns, then write through
\* m_cache[contract].
\* Mutant: the record is taken after the write, so it holds the new value.
SetStorageLogAfter(a, k, v) ==
    \E s \in Lookup(S, a) :
        LET r == StorageRead(s, a, k)
            t == PutAccount(r.state, a, AccSetStorage(CacheAt(r.state, a), k, v))
        IN  Mutate(Logged(t, <<Change("Storage", a, k, StorageOf(t.cache[a])[k])>>))

SetStorage(a, k, v) ==
    \E s \in Lookup(S, a) :
        LET r == StorageRead(s, a, k)
            t == Logged(r.state, <<Change("Storage", a, k, r.value)>>)
        IN  Mutate(PutAccount(t, a, AccSetStorage(CacheAt(t, a), k, v)))

\* State::clearStorage: m_cache[contract] (which default-constructs a dead
\* account when the address is not cached); nothing more when its base root
\* is the empty trie; otherwise log the old root and clear the storage.
ClearStorage(a) ==
    LET acc == CacheAt(S, a)
        s   == PutAccount(S, a, acc)
    IN  IF acc.root = EmptyStorage
        THEN Mutate(s)
        ELSE Mutate(PutAccount(Logged(s, <<Change("StorageRoot", a, NoKey, acc.root)>>),
                               a, AccClearStorage(acc)))

\* State::setCode: log the old code(), then write through m_cache[address].
SetCode(a, c) ==
    \E s \in Lookup(S, a) :
        LET t == Logged(s, <<Change("Code", a, NoKey, CodeOf(s, a))>>)
        IN  Mutate(PutAccount(t, a, AccSetCode(CacheAt(t, a), c)))

\* State::savepoint, kept by the executing layer.
Savepoint ==
    /\ marks' = Append(marks, Len(changeLog))
    /\ UNCHANGED <<trie, cache, unchanged, nonExisting, changeLog, touched>>

\* State::rollback to the i-th savepoint held; the later ones are dropped.
Rollback(i) ==
    /\ Apply(RollbackTo(S, marks[i]))
    /\ marks' = SubSeq(marks, 1, i - 1)
    /\ UNCHANGED <<trie, touched>>

\* State::setRoot, to the root the trie already has: the three caches are
\* emptied; m_changeLog and m_touched are left as they are.
SetRoot ==
    /\ cache' = EmptyMap
    /\ unchanged' = EmptyBag
    /\ nonExisting' = {}
    /\ UNCHANGED <<trie, changeLog, touched, marks>>

\* State::commit over the trie t.  The savepoints of the block are void
\* afterwards; m_nonExistingAccountsCache is kept.
CommitOver(t) ==
    LET c == RemoveEmptyAccounts(cache)
    IN  /\ trie' = CommitTrie(c, t)
        /\ touched' = touched \cup {a \in DOMAIN c : c[a].dirty}
        /\ changeLog' = <<>>
        /\ cache' = EmptyMap
        /\ unchanged' = EmptyBag
        /\ marks' = <<>>
        /\ UNCHANGED nonExisting

\* State::commit
Commit == CommitOver(trie)

\* State::populateFrom(map): mptstate::commit writes the map's dirty
\* accounts into the trie (no empty account is removed and the addresses it
\* returns are dropped), then State::commit commits the cache over it.
PopulateFrom(m) == CommitOver(CommitTrie(m, trie))

Init ==
    /\ trie \in [Addr -> GenesisRecs \cup {Absent}]
    /\ cache = EmptyMap
    /\ unchanged = EmptyBag
    /\ nonExisting = {}
    /\ changeLog = <<>>
    /\ touched = {}
    /\ marks = <<>>

\* The mutators an EVM account operation may call.
AccountOps(a) ==
    \/ \E v \in Amounts : AddBalance(a, v) \/ SubBalance(a, v) \/ SetBalance(a, v)
    \/ IncNonce(a)
    \/ \E n \in Nonces : SetNonce(a, n)
    \/ CreateContract(a)
    \/ Query(a)

\* The mutators that write a contract's storage or code.
ContractOps(a) ==
    \/ \E k \in Keys, v \in Vals : SetStorage(a, k, v)
    \/ \E c \in AllCodes : SetCode(a, c)

\* Every step of a block's execution: the mutators, savepoints and rollbacks.
ExecuteStep ==
    \/ \E a \in Addr : AccountOps(a) \/ Kill(a) \/ ContractOps(a)
    \/ Savepoint
    \/ \E i \in 1..Len(marks) : Rollback(i)

Next == ExecuteStep \/ (\E a \in Addr : ClearStorage(a)) \/ SetRoot \/ Commit

Spec == Init /\ [][Next]_vars

-----------------------------------------------------------------------------
(***************************************************************************)
(* What the State API reports for an address (account(), balance(),        *)
(* getNonce(), code(), storage()).                                        *)
(***************************************************************************)
Views == [alive : BOOLEAN, nonce : Nonces, balance : Balances, code : AllCodes,
          storage : Storages]

TrieView(t) == IF t = Absent THEN Null
               ELSE [alive |-> TRUE, nonce |-> t.nonce, balance |-> t.balance,
                     code |-> t.code, storage |-> t.storage]

\* What account(a) returns once it has run (its load does not change the
\* answer): the cached account, none for an address known to be missing or
\* absent from the trie, else the account read from the trie.
AccountPtr(a) ==
    IF a \in DOMAIN cache THEN cache[a]
    ELSE IF a \in nonExisting \/ trie[a] = Absent THEN Null
    ELSE FromTrie(trie[a])

\* State::addressInUse
AddressInUse(a) == AccountPtr(a) # Null

\* State::balance
BalanceOf(a) == IF AddressInUse(a) THEN AccountPtr(a).balance ELSE 0

\* State::getNonce: m_accountStartNonce for an address without an account.
GetNonce(a) == IF AddressInUse(a) THEN AccountPtr(a).nonce ELSE StartNonce

\* State::codeHash: a code stands for its hash, NoCode for EmptySHA3.
CodeHash(a) == IF AddressInUse(a) THEN AccountPtr(a).code ELSE NoCode

\* State::storage(a, k): the overlay's value, else the storage trie's.
StorageValue(a, k) == IF AddressInUse(a) THEN StorageOf(AccountPtr(a))[k] ELSE 0

\* The answers of the queries for one address.
AccountView(a) ==
    IF ~AddressInUse(a) THEN Null
    ELSE [alive |-> AccountPtr(a).alive, nonce |-> GetNonce(a), balance |-> BalanceOf(a),
          code |-> CodeHash(a), storage |-> [k \in Keys |-> StorageValue(a, k)]]

=============================================================================
