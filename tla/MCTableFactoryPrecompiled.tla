------------------------ MODULE MCTableFactoryPrecompiled ------------------------
(***************************************************************************)
(* Names on both sides of the 64-character limit the spec states, and one  *)
(* that fits once the "_user_" prefix is added.                            *)
(***************************************************************************)
EXTENDS TableFactoryPrecompiled

CONSTANTS n58, n64, n65

MCNameLen(n) == CASE n = n58 -> 58 [] n = n64 -> 64 [] n = n65 -> 65

MCFieldLists == {<<8, 16>>, <<65>>}

\* Spec section 8: createTable with a table name of exactly 64 characters
\* succeeds and one of 65 characters fails with a length-overflow error.
\* The name is the one the caller passes to createTable(string,string,string).
NameLengthLimit ==
    [][\A n \in Names, f \in FieldLists :
         (CreateTable(n, f) /\ JoinedLen(f) <= 1024 /\ \A i \in 1..Len(f) : f[i] <= 64)
           => (out'.code = CODE_TABLE_NAME_LENGTH_OVERFLOW <=> NameLen(n) > 64)]_vars

=============================================================================
