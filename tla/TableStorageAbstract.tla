------------------------ MODULE TableStorageAbstract ------------------------
(***************************************************************************)
(* What the table storage promises a block (spec sections 4.1 - 4.3 and 5) *)
(* in terms of the live rows of each (table, key):                         *)
(*   - staging changes only what the block sees, never the stored state;   *)
(*   - a commit that reports success makes the staged rows of every table  *)
(*     the stored rows, all at once;                                       *)
(*   - a commit that fails changes nothing, stored or staged, so that the  *)
(*     caller may retry the whole commit;                                  *)
(*   - abandoning a block drops what it staged.                            *)
(***************************************************************************)
EXTENDS Naturals

CONSTANTS Tables, Keys, LiveRows

VARIABLES
    committed,   \* table -> key -> set of live rows stored
    pending,     \* table -> key -> set of live rows the block sees
    commits      \* commits that reported success

vars == <<committed, pending, commits>>

Views == [Tables -> [Keys -> SUBSET LiveRows]]

Init ==
    /\ committed \in Views
    /\ pending = committed
    /\ commits = 0

\* Staging a change, or abandoning the block: only what the block sees changes.
Stage ==
    /\ pending' \in Views
    /\ UNCHANGED <<committed, commits>>

\* A commit that reports success; a failed one is a stuttering step.
CommitOk ==
    /\ committed' = pending
    /\ pending' = pending
    /\ commits' = commits + 1

Next == Stage \/ CommitOk

Spec == Init /\ [][Next]_vars

=============================================================================
