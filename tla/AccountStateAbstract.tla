------------------------- MODULE AccountStateAbstract -------------------------
(***************************************************************************)
(* What the account state of a block promises its executing layer (spec    *)
(* sections 4.4 and 8), stated over what the State API reports for each    *)
(* address rather than over caches and logs:                               *)
(*   - a savepoint remembers the current world;                            *)
(*   - rollback to a savepoint gives back exactly that world and forgets   *)
(*     the later savepoints;                                               *)
(*   - commit persists every live account as it is, may drop an empty      *)
(*     one (EIP-161 pruning of touched accounts), always drops a dead one, *)
(*     and the world read afterwards is the persisted one;                 *)
(*   - nothing else changes the persisted world.                           *)
(***************************************************************************)
EXTENDS Naturals, Sequences

CONSTANTS
    Addr,
    Null,          \* the view of an address that holds no account
    IsEmptyView(_) \* nonce, balance and code are all zero/empty

VARIABLES
    world,      \* address -> view read through the API
    committed,  \* address -> view of the persisted state
    snaps       \* the worlds remembered by the savepoints held

vars == <<world, committed, snaps>>

\* The views an account may have once a commit has run.
CommittedViews(v) ==
    IF v = Null \/ ~v.alive THEN {Null}
    ELSE IF IsEmptyView(v) THEN {v, Null}
    ELSE {v}

Init ==
    /\ snaps = <<>>
    /\ world = committed

\* Any mutation of the current block: only the uncommitted world changes.
Execute ==
    UNCHANGED <<committed, snaps>>

TakeSavepoint ==
    /\ snaps' = Append(snaps, world)
    /\ UNCHANGED <<world, committed>>

RollbackTo(i) ==
    /\ world' = snaps[i]
    /\ snaps' = SubSeq(snaps, 1, i - 1)
    /\ UNCHANGED committed

CommitWorld ==
    /\ \A a \in Addr : committed'[a] \in CommittedViews(world[a])
    /\ world' = committed'
    /\ snaps' = <<>>

Next ==
    \/ Execute
    \/ TakeSavepoint
    \/ \E i \in 1..Len(snaps) : RollbackTo(i)
    \/ CommitWorld

Spec == Init /\ [][Next]_vars

=============================================================================
