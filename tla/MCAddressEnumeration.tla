------------------------ MODULE MCAddressEnumeration ------------------------
(***************************************************************************)
(* Model-checking instance of AddressEnumeration: three addresses, every   *)
(* snapshot of trie and cache, page sizes 1 and 2, ETH_FATDB defined.      *)
(***************************************************************************)
EXTENDS AddressEnumeration

\* Paging through addresses(begin, max) from h256() until the next key is
\* h256() returns every address addresses() lists: no trie account is
\* skipped when a page is cut after merging the cached accounts.
PagingComplete == done => returned = AllAddresses

=============================================================================
