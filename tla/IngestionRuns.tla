---------------------------- MODULE IngestionRuns ----------------------------
(***************************************************************************)
(* The database side of an ingestion run: ingestion.DatabaseStore          *)
(* (internal/ingestion/pipeline.go) and the checkpoint and record writes   *)
(* of the provider stores.  A run is the row of ingestion_runs with one    *)
(* idempotency key, which the collector makes of the schedule and the      *)
(* occurrence.  No write here looks at the collector's lease, so every     *)
(* worker that was ever handed the occurrence may perform it.              *)
(*                                                                         *)
(* A response of the provider is abstracted to its Content: the payload    *)
(* bytes with the request URI and the kept response headers, what          *)
(* registerOccurrence compares.                                            *)
(***************************************************************************)
EXTENDS Naturals

CONSTANTS
    Run,            \* idempotency keys
    Content,        \* what a request may be answered with
    NoContent,      \* no such row
    PageLimit       \* bound on the pages of a requested window

ASSUME RunAssumption ==
    /\ NoContent \notin Content
    /\ PageLimit \in Nat \ {0}

VARIABLES
    status,         \* ingestion_runs.status; "none": no row
    checkpoint,     \* pages of the checkpoint in ingestion_runs.coverage
    registered,     \* raw_object_occurrences of each run, by page
    persisted       \* the revisions written for each run: <<page, content>>

runVars == <<status, checkpoint, registered, persisted>>

Page      == 1..PageLimit
RunStatus == {"none", "running", "failed", "succeeded"}

RunInit ==
    /\ status = [r \in Run |-> "none"]
    /\ checkpoint = [r \in Run |-> 0]
    /\ registered = [r \in Run |-> [p \in Page |-> NoContent]]
    /\ persisted = [r \in Run |-> {}]

\* INSERT of a running row, or reuse of the existing one, which is set running
\* again if it failed.
StartRun(r) ==
    /\ status' = [status EXCEPT ![r] = IF @ = "succeeded" THEN @ ELSE "running"]
    /\ UNCHANGED <<checkpoint, registered, persisted>>

\* registerOccurrence: the first retrieval of a page fixes its row.
RegisterRawObject(r, p, c) ==
    /\ registered' = [registered EXCEPT ![r][p] = IF @ = NoContent THEN c ELSE @]
    /\ UNCHANGED <<status, checkpoint, persisted>>

\* Variant of RawObjectConflict that does not compare the stored row.
RawObjectNeverConflicts(r, p, c) == FALSE

\* ErrRawObjectConflict: another answer was recorded for the same page.
RawObjectConflict(r, p, c) == registered[r][p] \notin {NoContent, c}

\* The revisions of a page.  Their unique key makes a repetition a no-op.
PersistRecords(r, p, c) ==
    /\ persisted' = [persisted EXCEPT ![r] = @ \cup {<<p, c>>}]
    /\ UNCHANGED <<status, checkpoint, registered>>

\* The checkpoint after page p replaces the stored one, whatever that is.
SaveCheckpoint(r, p) ==
    /\ status[r] = "running"
    /\ checkpoint' = [checkpoint EXCEPT ![r] = p]
    /\ UNCHANGED <<status, registered, persisted>>

\* Binance writes the revisions and the checkpoint in one transaction.
PersistRecordsAndCheckpoint(r, p, c) ==
    /\ status[r] = "running"
    /\ persisted' = [persisted EXCEPT ![r] = @ \cup {<<p, c>>}]
    /\ checkpoint' = [checkpoint EXCEPT ![r] = p]
    /\ UNCHANGED <<status, registered>>

\* CompleteRun and FailRun overwrite any status.
CompleteRun(r) ==
    /\ status' = [status EXCEPT ![r] = "succeeded"]
    /\ UNCHANGED <<checkpoint, registered, persisted>>

FailRun(r) ==
    /\ status' = [status EXCEPT ![r] = "failed"]
    /\ UNCHANGED <<checkpoint, registered, persisted>>

\* The revisions of page p were written.
HasPage(r, p) == \E c \in Content : <<p, c>> \in persisted[r]

\* The columns hold values of their types.
RunTypeOK ==
    /\ status \in [Run -> RunStatus]
    /\ checkpoint \in [Run -> 0..PageLimit]
    /\ registered \in [Run -> [Page -> Content \cup {NoContent}]]
    /\ persisted \in [Run -> SUBSET (Page \X Content)]

\* Every revision was written from the one retrieval that the run has recorded
\* for its page: retries and overlapping workers never mix two answers of the
\* provider in a run, and no revision lacks its raw object.
RecordsHaveProvenance ==
    \A r \in Run : \A x \in persisted[r] : registered[r][x[1]] = x[2]

\* A saved checkpoint never claims a page whose revisions are not in the
\* database (FRED writes the two in separate transactions, a stale worker may
\* overwrite the checkpoint of a newer one).
CheckpointIsPersisted ==
    \A r \in Run : \A p \in 1..checkpoint[r] : HasPage(r, p)

\* What a later attempt builds on is sound, wherever an earlier one stopped and
\* whichever stale one still writes: each revision has its one raw object, and
\* the checkpoint to resume from has its revisions.
RunRecordsHold == RecordsHaveProvenance /\ CheckpointIsPersisted
==============================================================================
