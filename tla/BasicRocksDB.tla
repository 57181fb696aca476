---------------------------- MODULE BasicRocksDB ----------------------------
(***************************************************************************)
(* The RocksDB wrapper of src/libstorage/BasicRocksDB.cpp and a caller     *)
(* that commits one batch through it.                                      *)
(*                                                                         *)
(* Every call passes the store's status to checkStatus, which returns on   *)
(* OK and NotFound, throws DatabaseError on the statuses it lists as fatal *)
(* and DatabaseNeedRetry on every other one.  Put and PutWithLock encrypt  *)
(* the caller's value in place when an encrypt handler is set; Get         *)
(* decrypts a non-empty value.  A value is abstracted to its plaintext and *)
(* the number of encryption layers around it.                              *)
(*                                                                         *)
(* The caller is modelled from the spec (section 7): it serialises its     *)
(* data, puts every key into a fresh batch, writes it, and on              *)
(* DatabaseNeedRetry retries the whole commit; DatabaseError stops it.     *)
(* The store's health is the environment: it may become busy a bounded     *)
(* number of times and recovers from it, or it may break for good.         *)
(***************************************************************************)
EXTENDS Integers, FiniteSets, TLC

CONSTANTS
    Keys,          \* keys of the batch
    Data,          \* key -> plaintext the caller commits
    Encrypting,    \* an encrypt/decrypt handler pair is set
    MaxBusy,       \* bound on the episodes of contention
    Requests,      \* "valid", or "invalid": a batch RocksDB rejects as InvalidArgument
    NoValue        \* what Get reads for a missing key

Fatal == {"IOError", "Corruption", "NoSpace", "NotSupported", "ShutdownInProgress"}

VARIABLES
    store,      \* key -> stored value, or NoValue
    batch,      \* key -> value put into the current WriteBatch
    val,        \* key -> the caller's value string (encrypted in place by Put)
    toPut,      \* keys the caller has still to put in this attempt
    pc,         \* caller: "open", "put", "write", "done", "failed"
    health,     \* store: "up", "busy", "broken"
    busyLeft,   \* contention episodes still possible
    request     \* whether the caller's batch is valid

vars == <<store, batch, val, toPut, pc, health, busyLeft, request>>

\* BasicRocksDB::checkStatus.
CheckStatus(status) ==
    CASE status \in {"OK", "NotFound"} -> "ok"
      [] status \in Fatal              -> "DatabaseError"
      [] OTHER                         -> "DatabaseNeedRetry"

\* The status RocksDB returns for a call, by the store's health; a write of
\* an invalid batch is refused whatever the health.
StoreStatus(isWrite) ==
    CASE health = "broken"                  -> "IOError"
      [] health = "busy"                    -> "Busy"
      [] isWrite /\ request = "invalid"     -> "InvalidArgument"
      [] OTHER                              -> "OK"

\* m_encryptHandler / m_decryptHandler.
Encrypt(v) == IF Encrypting THEN [v EXCEPT !.layers = @ + 1] ELSE v
Decrypt(v) == IF Encrypting THEN [v EXCEPT !.layers = @ - 1] ELSE v

Serialised(k) == [plain |-> Data[k], layers |-> 0]

\* BasicRocksDB::Get: the value read, decrypted when non-empty.
Get(k) == IF store[k] = NoValue THEN NoValue ELSE Decrypt(store[k])

\* The caller's retry: a new batch and freshly serialised values.
StartAttempt ==
    /\ batch' = [k \in {} |-> NoValue]
    /\ val' = [k \in Keys |-> Serialised(k)]
    /\ toPut' = Keys
    /\ pc' = "put"

\* BasicRocksDB::Open: DB::Open, then checkStatus.
Open ==
    /\ pc = "open"
    /\ CASE CheckStatus(StoreStatus(FALSE)) = "ok" -> StartAttempt
         [] CheckStatus(StoreStatus(FALSE)) = "DatabaseError" ->
              pc' = "failed" /\ UNCHANGED <<batch, val, toPut>>
         [] OTHER -> UNCHANGED <<batch, val, toPut, pc>>
    /\ UNCHANGED <<store, health, busyLeft, request>>

\* Mutant: the value goes into the batch unencrypted.
PutNoEncrypt(k) ==
    /\ pc = "put" /\ k \in toPut
    /\ batch' = (k :> val[k]) @@ batch
    /\ toPut' = toPut \ {k}
    /\ pc' = IF toPut' = {} THEN "write" ELSE "put"
    /\ UNCHANGED <<store, val, health, busyLeft, request>>

\* BasicRocksDB::PutWithLock: encrypt the caller's value in place, then
\* BatchPut (WriteBatch::Put into memory, status OK) under the spin mutex.
PutWithLock(k) ==
    /\ pc = "put" /\ k \in toPut
    /\ val' = [val EXCEPT ![k] = Encrypt(@)]
    /\ batch' = (k :> Encrypt(val[k])) @@ batch
    /\ toPut' = toPut \ {k}
    /\ pc' = IF toPut' = {} THEN "write" ELSE "put"
    /\ UNCHANGED <<store, health, busyLeft, request>>

\* BasicRocksDB::Write: DB::Write, then checkStatus.  The caller retries the
\* whole commit on DatabaseNeedRetry and stops on DatabaseError.
Write ==
    /\ pc = "write"
    /\ CASE CheckStatus(StoreStatus(TRUE)) = "ok" ->
              /\ store' = [k \in Keys |-> IF k \in DOMAIN batch THEN batch[k] ELSE store[k]]
              /\ pc' = "done"
              /\ UNCHANGED <<batch, val, toPut>>
         [] CheckStatus(StoreStatus(TRUE)) = "DatabaseError" ->
              /\ pc' = "failed"
              /\ UNCHANGED <<store, batch, val, toPut>>
         [] OTHER ->
              /\ StartAttempt
              /\ UNCHANGED store
    /\ UNCHANGED <<health, busyLeft, request>>

\* The environment: contention starts and ends; the store may break.
Congest ==
    /\ health = "up" /\ busyLeft > 0
    /\ health' = "busy" /\ busyLeft' = busyLeft - 1
    /\ UNCHANGED <<store, batch, val, toPut, pc, request>>

Recover ==
    /\ health = "busy"
    /\ health' = "up"
    /\ UNCHANGED <<store, batch, val, toPut, pc, busyLeft, request>>

Break ==
    /\ health \in {"up", "busy"}
    /\ health' = "broken"
    /\ UNCHANGED <<store, batch, val, toPut, pc, busyLeft, request>>

Init ==
    /\ store = [k \in Keys |-> NoValue]
    /\ batch = [k \in {} |-> NoValue]
    /\ val = [k \in Keys |-> Serialised(k)]
    /\ toPut = Keys
    /\ pc = "open"
    /\ health = "up"
    /\ busyLeft = MaxBusy
    /\ request \in Requests

CallerStep == Open \/ (\E k \in Keys : PutWithLock(k)) \/ Write

Next == CallerStep \/ Congest \/ Recover \/ Break

\* The caller's thread keeps running, and contention ends: a busy store
\* recovers (RocksDB's Busy/TimedOut statuses clear once the competing
\* writer or compaction is done).
Fairness == WF_vars(CallerStep) /\ WF_vars(Recover)

Spec == Init /\ [][Next]_vars /\ Fairness

=============================================================================
