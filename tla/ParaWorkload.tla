---------------------------- MODULE ParaWorkload ----------------------------
(***************************************************************************)
(* The workload generators of the parallel-transfer benchmarks             *)
(* (src/fisco-bcos/para).  Both save users "0" .. "n-1" through the        *)
(* userSave(string,uint256) method of the transfer contract at 0x5002 and  *)
(* then send userTransfer(from, to, 1) transactions.                       *)
(*                                                                         *)
(*   - mini-para (para_main.cpp) executes one block of userSave            *)
(*     transactions and commits it, then builds one block of txNum         *)
(*     transfers, executes it serially and in parallel, and exits.         *)
(*   - the para node (para_main_node.cpp) loops over its groups for ever:  *)
(*     while a group has no block it submits the userSave transactions to  *)
(*     every group, once per visit of that group, and waits; then it       *)
(*     submits one transfer between two drawn users to the group.          *)
(*                                                                         *)
(* A user is its number; a transaction is the chain it goes to and its two *)
(* users.  Signing, ABI encoding, nonces, block limits and logging are     *)
(* left out: no property reads them.  The chains' consensus is not in this *)
(* tree; it is the environment step Seal, which commits a group's first    *)
(* block once the group holds a transaction.  Heights above 1 are not      *)
(* kept, because the node only asks whether a group has a block.          *)
(***************************************************************************)
EXTENDS Naturals, Sequences

CONSTANTS
    Programs,   \* the programs started: "mini-para", "para-node"
    MaxUsers,   \* the user-count argument ranges over 0 .. MaxUsers
    MaxTxs,     \* mini-para's transaction-count argument ranges over
                \* 0 .. MaxTxs; the node's endless loop is cut after MaxTxs
                \* transfers
    Groups      \* ledgerManager->getGroupList(), a sequence of group ids

VARIABLES
    prog,          \* the program running
    userNum,       \* its user-count argument
    txNum,         \* mini-para's transaction-count argument
    pc,            \* "start", "transfer", "exited", "trapped" (mini-para);
                   \* "loop" (the node)
    i,             \* genTxUserTransfer's loop index
    gi,            \* createTx's index into the group list
    hasGenerated,  \* createTx's hasGenerated, for the group it is visiting
    saved,         \* chain -> users whose userSave transaction it received
    height,        \* chain -> block number, capped at 1
    transfers      \* the userTransfer transactions sent, in order

vars == <<prog, userNum, txNum, pc, i, gi, hasGenerated, saved, height, transfers>>

Chains == {Groups[j] : j \in 1..Len(Groups)}

\* mini-para runs a single blockchain; it stands for it.
MiniChain == Groups[1]

\* genTxUserAddBlock and generateUserAddTx: user to_string(i) for i < n.
Users(n) == 0 .. n - 1

Transfer(c, f, t) == [chain |-> c, from |-> f, to |-> t]

-----------------------------------------------------------------------------
(* mini-para                                                                *)

\* The divisor genTxUserTransfer takes for transaction idx among n users:
\* rand() % n in the second half, i % (n / 2) in the first.
Divisor(idx, n) == IF idx > n \div 2 THEN n ELSE n \div 2

\* The (from, to) pairs it may build for transaction idx: two rand() draws
\* in the second half, user i % (n / 2) paid to user (n / 2 + i) % n in the
\* first.
MiniPairs(idx, n) ==
    IF idx > n \div 2
    THEN Users(n) \X Users(n)
    ELSE {<<idx % (n \div 2), (n \div 2 + idx) % n>>}

\* initUser: the userSave block is executed and committed as block 1.
InitUser ==
    /\ prog = "mini-para" /\ pc = "start"
    /\ saved' = [saved EXCEPT ![MiniChain] = Users(userNum)]
    /\ height' = [height EXCEPT ![MiniChain] = 1]
    /\ pc' = "transfer"
    /\ UNCHANGED <<prog, userNum, txNum, i, gi, hasGenerated, transfers>>

\* One iteration of genTxUserTransfer's loop.  An integer division by zero
\* traps (SIGFPE on the targets the node is built for) and ends the process.
GenTxUserTransfer ==
    /\ prog = "mini-para" /\ pc = "transfer" /\ i < txNum
    /\ IF Divisor(i, userNum) = 0
       THEN pc' = "trapped" /\ UNCHANGED <<i, transfers>>
       ELSE /\ \E p \in MiniPairs(i, userNum) :
                  transfers' = Append(transfers, Transfer(MiniChain, p[1], p[2]))
            /\ i' = i + 1
            /\ UNCHANGED pc
    /\ UNCHANGED <<prog, userNum, txNum, gi, hasGenerated, saved, height>>

\* The transfer block is executed ten times serially and ten times in
\* parallel, then startExecute calls exit(0).
ExecuteBlocks ==
    /\ prog = "mini-para" /\ pc = "transfer" /\ i = txNum
    /\ pc' = "exited"
    /\ UNCHANGED <<prog, userNum, txNum, i, gi, hasGenerated, saved, height, transfers>>

-----------------------------------------------------------------------------
(* The para node                                                            *)

CurGroup == Groups[gi]

\* createTx's uniform_int_distribution<int>(0, userCount): both bounds are
\* included.
NodeDraws(n) == 0 .. n

\* createTx on a group without a block, first time round: generateUserAddTx
\* submits every user's userSave to every group.  A submission that throws
\* is logged and skipped, so any of them may be missing.
UserAdd ==
    /\ prog = "para-node" /\ pc = "loop"
    /\ height[CurGroup] <= 0 /\ ~hasGenerated
    /\ \E ok \in SUBSET (Users(userNum) \X Chains) :
          saved' = [c \in Chains |-> saved[c] \cup {u \in Users(userNum) : <<u, c>> \in ok}]
    /\ hasGenerated' = TRUE
    /\ UNCHANGED <<prog, userNum, txNum, pc, i, gi, height, transfers>>

\* createTx on a group with a block: draw two users and submit the transfer
\* (a submission that throws is logged and dropped), then go on to the next
\* group; after the last one the loop sleeps and starts again.
CreateTransfer ==
    /\ prog = "para-node" /\ pc = "loop"
    /\ height[CurGroup] > 0 /\ Len(transfers) < MaxTxs
    /\ \E f, t \in NodeDraws(userNum) :
          \/ transfers' = Append(transfers, Transfer(CurGroup, f, t))
          \/ UNCHANGED transfers
    /\ gi' = IF gi = Len(Groups) THEN 1 ELSE gi + 1
    /\ hasGenerated' = FALSE
    /\ UNCHANGED <<prog, userNum, txNum, pc, i, saved, height>>

\* The group's consensus commits its first block once it holds a transaction.
Seal(c) ==
    /\ prog = "para-node"
    /\ height[c] = 0 /\ saved[c] # {}
    /\ height' = [height EXCEPT ![c] = 1]
    /\ UNCHANGED <<prog, userNum, txNum, pc, i, gi, hasGenerated, saved, transfers>>

-----------------------------------------------------------------------------
\* mini-para's arguments go through atoi, which gives 0 for text that is not
\* a number; the node's userCount is an unsigned int option.
Init ==
    /\ prog \in Programs
    /\ userNum \in 0 .. MaxUsers
    /\ txNum \in (IF prog = "mini-para" THEN 0 .. MaxTxs ELSE {0})
    /\ pc = IF prog = "mini-para" THEN "start" ELSE "loop"
    /\ i = 0 /\ gi = 1 /\ hasGenerated = FALSE
    /\ saved = [c \in Chains |-> {}]
    /\ height = [c \in Chains |-> 0]
    /\ transfers = <<>>

Next ==
    \/ InitUser \/ GenTxUserTransfer \/ ExecuteBlocks
    \/ UserAdd \/ CreateTransfer
    \/ \E c \in Chains : Seal(c)

Spec == Init /\ [][Next]_vars

-----------------------------------------------------------------------------
\* Every transfer a generator sends names two users whose userSave the chain
\* received, and building it does not trap: the benchmark moves money
\* between users that exist, for every user count its arguments allow.  It
\* is about genTxUserTransfer's divisions, createTx's draw range and the
\* userSave submissions that may fail.
WorkloadWellFormed ==
    /\ pc # "trapped"
    /\ \A k \in 1 .. Len(transfers) :
          {transfers[k].from, transfers[k].to} \subseteq saved[transfers[k].chain]

=============================================================================
