---------------------------- MODULE ProgressFile ----------------------------
(***************************************************************************)
(* BenchmarkProgress of scripts/progress.py: the status of a check, and    *)
(* the snapshots of it that the main thread and a worker thread publish to *)
(* one file for the tuner. Of a snapshot only the status is modelled.      *)
(*                                                                         *)
(* ApiCheck composes this with the check; the main thread's place in the   *)
(* code is there.                                                          *)
(***************************************************************************)
EXTENDS Integers

Publishers == {"main", "worker"}
Verdicts   == {"passed", "failed"}
Statuses   == Verdicts \cup {"running", "interrupted"}

VARIABLES
    status,     \* self.state['status']
    worker,     \* the worker thread
    stop,       \* self.stop_event
    lock,       \* who holds self.publish_lock, or "none"
    snap,       \* the snapshot each thread is publishing, or "none"
    file        \* the status in the file, or "none"

progress == <<status, worker, stop, lock, snap, file>>

ProgressTypeOK ==
    /\ status \in Statuses
    /\ worker \in {"none", "sleep", "publish", "over"}
    /\ stop \in BOOLEAN
    /\ lock \in Publishers \cup {"none"}
    /\ snap \in [Publishers -> Statuses \cup {"none"}]
    /\ file \in Statuses \cup {"none"}

ProgressInit ==
    /\ status = "running" /\ worker = "none" /\ stop = FALSE
    /\ lock = "none" /\ snap = [t \in Publishers |-> "none"] /\ file = "none"

\* MUTANT of Snapshot: taken before the lock.
SnapshotUnlocked(t) ==
    /\ snap[t] = "none"
    /\ snap' = [snap EXCEPT ![t] = status]
    /\ UNCHANGED <<status, stop, lock, file>>

\* publish(): the snapshot is taken under the lock.
Snapshot(t) ==
    /\ snap[t] = "none"
    /\ lock = "none" /\ lock' = t
    /\ snap' = [snap EXCEPT ![t] = status]
    /\ UNCHANGED <<status, stop, file>>

Publishing(t) == snap[t] # "none"

Unlock(t) ==
    /\ lock' = IF lock = t THEN "none" ELSE lock
    /\ snap' = [snap EXCEPT ![t] = "none"]

\* atomic_write(), or an OSError.
Written(t) ==
    /\ Publishing(t) /\ Unlock(t)
    /\ file' = snap[t]
    /\ UNCHANGED <<status, stop>>

NotWritten(t) ==
    /\ Publishing(t) /\ Unlock(t)
    /\ UNCHANGED <<status, stop, file>>

-----------------------------------------------------------------------------
(* worker()                                                                *)

WorkerPublishes ==
    /\ worker = "sleep" /\ ~stop
    /\ Snapshot("worker")
    /\ worker' = "publish"

\* It ignores an OSError.
WorkerPublished ==
    /\ worker = "publish"
    /\ Written("worker") \/ NotWritten("worker")
    /\ worker' = "sleep"

WorkerStops ==
    /\ worker = "sleep" /\ stop
    /\ worker' = "over"
    /\ UNCHANGED <<status, stop, lock, snap, file>>

Worker == WorkerPublishes \/ WorkerPublished \/ WorkerStops
=============================================================================
