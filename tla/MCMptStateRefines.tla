-------------------------- MODULE MCMptStateRefines --------------------------
(***************************************************************************)
(* MptState checked against AccountStateAbstract.  The savepoints keep,    *)
(* as a history variable, the world each one was taken in, so that a       *)
(* rollback can be compared with it.                                       *)
(*                                                                         *)
(* The executing layer's discipline is part of the model: storage and code *)
(* are written only for an account that exists and is alive (the contract  *)
(* being executed), and, in CallerSpec, kill is not called inside a        *)
(* savepoint scope that may be rolled back.  KillSpec drops the second     *)
(* restriction.                                                         *)
(***************************************************************************)
EXTENDS MCMptState

VARIABLE snapViews   \* history: the API view at each savepoint held

View == [a \in Addr |-> AccountView(a)]

CommittedView == [a \in Addr |-> TrieView(trie[a])]

IsEmptyAccountView(v) == v.nonce = 0 /\ v.balance = 0 /\ v.code = NoCode

LiveAccount(a) == AccountView(a) # Null /\ AccountView(a).alive

CallerOps(a) == AccountOps(a) \/ (LiveAccount(a) /\ ContractOps(a))

\* The steps shared by both specifications, with the history kept.
HistoryStep ==
    \/ Savepoint /\ snapViews' = Append(snapViews, View) /\ UNCHANGED blocks
    \/ \E i \in 1..Len(marks) :
         Rollback(i) /\ snapViews' = SubSeq(snapViews, 1, i - 1) /\ UNCHANGED blocks
    \/ Commit /\ blocks < MaxBlocks /\ blocks' = blocks + 1 /\ snapViews' = <<>>

RInit == MCInit /\ snapViews = <<>>

CallerNext ==
    \/ \E a \in Addr : CallerOps(a) /\ UNCHANGED <<blocks, snapViews>>
    \/ HistoryStep

KillNext ==
    \/ \E a \in Addr : (CallerOps(a) \/ Kill(a)) /\ UNCHANGED <<blocks, snapViews>>
    \/ HistoryStep

CallerSpec == RInit /\ [][CallerNext]_<<vars, blocks, snapViews>>
KillSpec   == RInit /\ [][KillNext]_<<vars, blocks, snapViews>>

Abstract == INSTANCE AccountStateAbstract
              WITH world <- View, committed <- CommittedView, snaps <- snapViews,
                   IsEmptyView <- IsEmptyAccountView

\* State implements the savepoint contract: a rollback gives back exactly the
\* balances, nonces, code, storage and existence the API reported when the
\* savepoint was taken, and a commit persists every live account unchanged,
\* drops every dead one and only drops an empty one otherwise.
RefinesAbstract == Abstract!Spec

=============================================================================
