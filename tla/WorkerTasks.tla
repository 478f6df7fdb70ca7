---------------------------- MODULE WorkerTasks ----------------------------
(***************************************************************************)
(* One work type of the collection workerTasks, the lock that keeps two     *)
(* worker processes on one database from doing the same work together.     *)
(* A document of that type is inserted to begin the work (a unique index   *)
(* on workType refuses a second one), deleted by its _id to finish it, and  *)
(* dropped by a TTL index some time after startTime.                       *)
(***************************************************************************)

CONSTANTS Workers,   \* worker processes that share the database
          NoWorker   \* "no document of this work type"

ASSUME NoWorkerAssumption == NoWorker \notin Workers

VARIABLE task        \* the process whose document is in the collection

TaskTypeOK == task \in Workers \cup {NoWorker}

\* Mutant: the index on workType is not unique.
BeginWorkAnyway(w) == task' = w

\* insertOne succeeds only while no document has this workType.
TryToBeginWork(w) ==
    /\ task = NoWorker
    /\ task' = w

\* deleteOne({_id}): a document inserted by another process is not touched.
FinishWork(w) == task' = IF task = w THEN NoWorker ELSE task

\* The TTL monitor of the database drops the document.
ExpireTask ==
    /\ task # NoWorker
    /\ task' = NoWorker
=============================================================================
