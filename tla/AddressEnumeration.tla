------------------------- MODULE AddressEnumeration -------------------------
(***************************************************************************)
(* The address enumeration of src/libmptstate/State.cpp: addresses(),      *)
(* which lists every live account, and addresses(beginHash, maxResults),   *)
(* which lists them a page at a time in the order of their hashes, merging *)
(* the accounts of the trie with the changed accounts of the cache.  The   *)
(* module is an ETH_FATDB build: without it addresses() throws             *)
(* InterfaceNotSupported and the paged form lists only the cache part.     *)
(*                                                                         *)
(* The State is a snapshot: an address is identified with its hash, a      *)
(* number in 1..N, so the trie's hashed iteration order is the order of    *)
(* numbers and h256() is 0.  Each address is in the trie or not and is     *)
(* uncached, cached unchanged (read from the trie), cached and changed, or *)
(* cached dead and changed (killed or emptied).  The caller, modelled from *)
(* the interface, starts at hash 0 and asks for the next page until the    *)
(* returned next key is h256().                                            *)
(***************************************************************************)
EXTENDS Integers, FiniteSets, SequencesExt

CONSTANTS
    N,            \* number of addresses
    MaxResults    \* page sizes a caller may ask for

Hashes == 1..N
NoKey  == 0       \* h256()

VARIABLES
    inTrie,       \* hashes of the accounts the trie holds
    cached,       \* hash -> "none", "unchanged", "changed", "dead"
    maxResults,   \* the caller's page size
    begin,        \* the begin hash of the next call
    returned,     \* addresses returned by the pages so far
    done          \* the caller has received next key h256()

vars == <<inTrie, cached, maxResults, begin, returned, done>>

\* States a cache entry can be in: only an account read from the trie is
\* cached unchanged.
Snapshots ==
    {s \in [trie : SUBSET Hashes, cache : [Hashes -> {"none", "unchanged", "changed", "dead"}]] :
        \A h \in Hashes : s.cache[h] = "unchanged" => h \in s.trie}

\* addresses(): the alive cached accounts, then the trie's accounts that are
\* not cached.
AllAddresses ==
    {h \in Hashes : cached[h] \in {"unchanged", "changed"}}
        \cup {h \in inTrie : cached[h] = "none"}

Sorted(S) == SetToSortSeq(S, <)

FirstOf(seq, n) == {seq[i] : i \in 1..(IF Len(seq) < n THEN Len(seq) ELSE n)}

\* The ETH_FATDB loop of addresses(begin, max): the trie's accounts from
\* hashedLowerBound(begin), skipping those dead in the cache; when max are
\* collected the next one's hash is the next key.
TriePage(b, m) ==
    LET kept == Sorted({h \in inTrie : h >= b /\ cached[h] # "dead"})
    IN  [page |-> FirstOf(kept, m),
         next |-> IF Len(kept) > m THEN kept[m + 1] ELSE NoKey]

\* The changed, alive cached accounts whose hash is at least begin.
CacheAddresses(b) == {h \in Hashes : cached[h] = "changed" /\ h >= b}

\* addresses(begin, max): the trie page merged with the cached accounts; a
\* merge larger than max is cut to max and the next key is the first hash
\* cut off.
Addresses(b, m) ==
    LET t      == TriePage(b, m)
        merged == t.page \cup CacheAddresses(b)
    IN  IF Cardinality(merged) > m
        THEN [page |-> FirstOf(Sorted(merged), m), next |-> Sorted(merged)[m + 1]]
        ELSE [page |-> merged, next |-> t.next]

Init ==
    /\ \E s \in Snapshots : inTrie = s.trie /\ cached = s.cache
    /\ maxResults \in MaxResults
    /\ begin = NoKey
    /\ returned = {}
    /\ done = FALSE

\* The caller asks for the page starting at begin.
FetchPage ==
    /\ ~done
    /\ LET r == Addresses(begin, maxResults)
       IN  /\ returned' = returned \cup r.page
           /\ begin' = r.next
           /\ done' = (r.next = NoKey)
    /\ UNCHANGED <<inTrie, cached, maxResults>>

Next == FetchPage

Spec == Init /\ [][Next]_vars /\ WF_vars(FetchPage)

=============================================================================
