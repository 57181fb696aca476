----------------------------- MODULE MCMptState -----------------------------
(***************************************************************************)
(* Model-checking instance of MptState.  The .cfg files choose the sets:   *)
(* MCMptState.cfg takes two addresses and a cache limit of 0, so that      *)
(* loading the second account takes the first off the unchanged list even  *)
(* while it is dirty, with no storage slot and no code (the refinement     *)
(* runs keep limit 1); MCMptStateStorage.cfg takes one address with        *)
(* a storage slot and a code.  Balances are 1 bit wide.                    *)
(***************************************************************************)
EXTENDS MptState

VARIABLE blocks   \* commits so far, to bound the number of blocks explored

\* Genesis may hold an empty account and a funded account whose storage
\* slots are all set.
MCGenesisRecs ==
    { [nonce |-> 0, balance |-> 0, code |-> NoCode, storage |-> EmptyStorage],
      [nonce |-> 1, balance |-> 1, code |-> NoCode, storage |-> [k \in Keys |-> 1]] }

MaxLog       == 2   \* change log records within one block
MaxUnchanged == 2   \* entries of m_unchangedCacheEntries (grows on Touch rollback)
MaxMarks     == 2   \* savepoints held at once

MaxBlocks == 1

MCInit == Init /\ blocks = 0

\* evm_main's updateMptState: callTransaction with contract code makes a new
\* key pair, so the address is one the State has never seen, and populates
\* it with Account(0, 0) carrying the code.
UpdateMptState(a, c) ==
    /\ a \notin DOMAIN cache \cup nonExisting /\ trie[a] = Absent
    /\ PopulateFrom(a :> AccSetCode(NewAccount(0, 0), c))

\* clearStorage is called by contract creation on the account it has just
\* written, so the account is cached; setRoot is called between blocks,
\* when no change is pending.
MCNext ==
    \/ ExecuteStep /\ UNCHANGED blocks
    \/ \E a \in DOMAIN cache : ClearStorage(a) /\ UNCHANGED blocks
    \/ Commit /\ blocks < MaxBlocks /\ blocks' = blocks + 1
    \/ changeLog = <<>> /\ SetRoot /\ UNCHANGED blocks
    \/ \E a \in Addr, c \in Codes : UpdateMptState(a, c) /\ UNCHANGED blocks

MCSpec == MCInit /\ [][MCNext]_<<vars, blocks>>

\* Addresses are interchangeable: every action and the genesis set treat them alike.
AddrSymmetry == Permutations(Addr)

StateBound ==
    /\ Len(changeLog) <= MaxLog
    /\ BagCardinality(unchanged) <= MaxUnchanged
    /\ Len(marks) <= MaxMarks

-----------------------------------------------------------------------------
\* Type invariant.
TypeOK ==
    /\ trie \in [Addr -> TrieRecs \cup {Absent}]
    /\ DOMAIN cache \subseteq Addr /\ \A a \in DOMAIN cache : cache[a] \in Accounts
    /\ IsABag(unchanged) /\ BagToSet(unchanged) \subseteq Addr
    /\ nonExisting \subseteq Addr
    /\ changeLog \in Seq(Changes)
    /\ touched \subseteq Addr
    /\ marks \in Seq(Nat)

\* The non-existing-accounts cache is never stale: account() answers
\* "no account" from it only for addresses the trie does not hold.  It is
\* filled by account() on a trie miss, emptied only by createAccount and
\* setRoot, and survives commit().
NonExistingCacheSound ==
    \A a \in nonExisting : trie[a] = Absent

\* Every change log record names an account that is in m_cache, so rollback's
\* m_cache[change.address] never default-constructs an account: random
\* eviction in clearCacheIfTooLarge never drops an account the log refers to,
\* and a Touch rollback only makes clean an account no older record names.
LogTargetsCached ==
    \A i \in 1..Len(changeLog) : changeLog[i].addr \in DOMAIN cache

\* Every clean cached account is listed in m_unchangedCacheEntries, so that
\* clearCacheIfTooLarge can still evict it: the eviction loop takes a
\* dirty entry off the list for good, and the Touch undo of rollback, which
\* makes such an entry clean again, must list it anew.  Otherwise clean
\* accounts pile up in m_cache beyond the limit for the rest of the block.
CleanEntriesEvictable ==
    \A a \in DOMAIN cache : ~cache[a].dirty => a \in BagToSet(unchanged)

\* The enumeration storage(address) gives for a cached account lists exactly
\* the slots whose point read storage(address, key) is non-zero, with that
\* value, after any sequence of writes, reads (which cache the value read
\* into the overlay), clearStorage and rollbacks.
StorageEnumerationAgrees ==
    \A a \in DOMAIN cache :
        LET e == StorageEnumeration(cache[a])
            v == StorageOf(cache[a])
        IN  /\ DOMAIN e = {k \in Keys : v[k] # 0}
            /\ \A k \in DOMAIN e : e[k] = v[k]

=============================================================================
