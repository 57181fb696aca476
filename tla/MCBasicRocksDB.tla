--------------------------- MODULE MCBasicRocksDB ---------------------------
(***************************************************************************)
(* Model-checking instance of BasicRocksDB: three keys, encryption on, up  *)
(* to three episodes of contention, and a batch RocksDB accepts or one it  *)
(* refuses as InvalidArgument.                                             *)
(***************************************************************************)
EXTENDS BasicRocksDB

CONSTANTS k1, k2, k3, p1

MCData == [k \in Keys |-> p1]

\* What a caller that committed successfully reads back through Get is the
\* value it serialised: PutWithLock encrypts it exactly once on its way
\* into the batch, Write stores the batch, and Get decrypts it once.
RoundTrip ==
    pc = "done" => \A k \in Keys : Get(k) = Serialised(k)

\* Every commit ends: its batch is written, or the caller gives up on a
\* fatal DatabaseError.  The spec (sections 4.3 and 7) promises that only
\* contention- and timeout-class statuses become DatabaseNeedRetry, and
\* checkStatus's comment lists them; the caller retries the whole commit
\* on it.  checkStatus sends every status it does not list as fatal to the
\* retry, InvalidArgument included, which a retried batch meets again.
CommitEnds == <>(pc \in {"done", "failed"})

=============================================================================
