---------------------- MODULE TableFactoryPrecompiled ----------------------
(***************************************************************************)
(* The createTable / openTable entry points of the table factory           *)
(* precompiled contract (src/libstorage/TableFactoryPrecompiled.cpp).      *)
(* A name is abstracted to its identity and its length, a value-field list *)
(* to the lengths of its trimmed field names; the checks the contract      *)
(* makes are all on lengths.  The table set is that of the memory table    *)
(* factory behind it (not in this source tree): createTable returns null   *)
(* when the table exists.                                                  *)
(***************************************************************************)
EXTENDS Integers, SequencesExt

CONSTANTS
    Names,        \* table names a caller may pass (without the user prefix)
    NameLen(_),   \* their lengths
    FieldLists,   \* value-field lists a caller may pass: lengths after trim
    Version,      \* g_BCOSConfig.version(): 1 = RC1, 2 = RC2, 3 = later
    MaxOpened     \* bound on precompiled addresses registered by openTable

USER_TABLE_PREFIX_LEN == 6     \* "_user_"
RC2_VERSION == 2

CODE_TABLE_NAME_ALREADY_EXIST == -50001
CODE_TABLE_NAME_LENGTH_OVERFLOW == -50002
CODE_TABLE_FILED_LENGTH_OVERFLOW == -50003
CODE_TABLE_FILED_TOTALLENGTH_OVERFLOW == -50004

VARIABLES
    tables,     \* user tables that exist
    opened,     \* precompiled addresses registered in the executive context
    out         \* what the last call returned: [ok, code] or [ok |-> FALSE, code] for a throw

vars == <<tables, opened, out>>

\* getErrorCodeOut: the integer the returned ABI word stands for.
ErrorCodeOut(result) ==
    IF result > 0 /\ result < 128 THEN result
    ELSE IF Version <= RC2_VERSION THEN -result
    ELSE result

Returned(code) == [ok |-> TRUE, code |-> code]
Thrown(code)   == [ok |-> FALSE, code |-> code]

\* boost::join(fieldNameList, ","): field lengths plus the separators.
JoinedLen(fields) == FoldLeft(+, 0, fields) + Len(fields) - 1

\* openTable(string): a table precompiled is registered when the table exists;
\* the returned address is zero otherwise.
OpenTable(n) ==
    IF n \in tables
    THEN /\ opened < MaxOpened
         /\ opened' = opened + 1
         /\ out' = Returned(opened + 1)
         /\ UNCHANGED tables
    ELSE /\ out' = Returned(0)
         /\ UNCHANGED <<tables, opened>>

\* createTable(string,string,string): the length checks throw before the
\* try block; the prefix is added before the table-name check.
CreateTable(n, fields) ==
    /\ CASE \E i \in 1..Len(fields) : fields[i] > 64 ->
              out' = Thrown(CODE_TABLE_FILED_LENGTH_OVERFLOW) /\ UNCHANGED tables
         [] JoinedLen(fields) > 1024 ->
              out' = Thrown(CODE_TABLE_FILED_TOTALLENGTH_OVERFLOW) /\ UNCHANGED tables
         [] USER_TABLE_PREFIX_LEN + NameLen(n) > 64 ->
              out' = Thrown(CODE_TABLE_NAME_LENGTH_OVERFLOW) /\ UNCHANGED tables
         [] n \in tables ->
              /\ out' = Returned(ErrorCodeOut(IF Version < RC2_VERSION THEN 0
                                              ELSE CODE_TABLE_NAME_ALREADY_EXIST))
              /\ UNCHANGED tables
         [] OTHER ->
              /\ out' = Returned(ErrorCodeOut(IF Version < RC2_VERSION THEN 1 ELSE 0))
              /\ tables' = tables \cup {n}
    /\ UNCHANGED opened

Init ==
    /\ tables = {}
    /\ opened = 0
    /\ out = Returned(0)

Next ==
    \/ \E n \in Names : OpenTable(n)
    \/ \E n \in Names, f \in FieldLists : CreateTable(n, f)

Spec == Init /\ [][Next]_vars

=============================================================================
