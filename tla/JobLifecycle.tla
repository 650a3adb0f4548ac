---------------------------- MODULE JobLifecycle ----------------------------
(***************************************************************************)
(* What the shared job queue promises its clients (the JobStore protocol   *)
(* of src/src/app/store/base.py): the status machine of a job, a claim     *)
(* that hands the job to one worker, a gate that only a person leaves, and *)
(* a reclaim that takes a job away only from a worker that is gone.  Every *)
(* operation is one step here, as each of them is one transaction or one   *)
(* statement of SqliteJobStore (sqlite_store.py).  JobQueue, the store of  *)
(* production, and Worker are shown to implement it, PrWorkspace and       *)
(* SlackGate to take no other steps on a job.                              *)
(***************************************************************************)
CONSTANTS Jobs,      \* the jobs that may ever be submitted
          Workers,   \* the worker processes
          NoWorker   \* not a worker

VARIABLES status,    \* status of each job, "absent" before it is enqueued
          holder     \* the live worker that is executing the job, if any

vars == <<status, holder>>

Claimable == {"approved", "pending"}

Init == /\ status = [j \in Jobs |-> "absent"]
        /\ holder = [j \in Jobs |-> NoWorker]

\* A producer adds a job.
Enqueue(j) == /\ status[j] = "absent"
              /\ status' = [status EXCEPT ![j] = "pending"]
              /\ UNCHANGED holder

\* An idle worker takes a claimable job and is its only executor.
Claim(w, j) == /\ status[j] \in Claimable
               /\ \A k \in Jobs : holder[k] # w
               /\ status' = [status EXCEPT ![j] = "running"]
               /\ holder' = [holder EXCEPT ![j] = w]

\* The executor stops at the output gate, or ends the job.
Release(w, j) == /\ holder[j] = w
                 /\ \E s \in {"awaiting_approval", "done", "failed"} :
                       status' = [status EXCEPT ![j] = s]
                 /\ holder' = [holder EXCEPT ![j] = NoWorker]

\* A person approves or rejects a job that waits at the gate.
Decide(j) == /\ status[j] = "awaiting_approval"
             /\ \E s \in {"approved", "rejected"} :
                   status' = [status EXCEPT ![j] = s]
             /\ UNCHANGED holder

\* A worker process ends in the middle of a job: the job stays "running".
Interrupt(w, j) == /\ holder[j] = w
                   /\ holder' = [holder EXCEPT ![j] = NoWorker]
                   /\ UNCHANGED status

\* An orphan is failed.  A job that a live worker executes never is.
Reclaim(j) == /\ status[j] = "running"
              /\ holder[j] = NoWorker
              /\ status' = [status EXCEPT ![j] = "failed"]
              /\ UNCHANGED holder

Next == \E j \in Jobs :
          \/ Enqueue(j) \/ Decide(j) \/ Reclaim(j)
          \/ \E w \in Workers : Claim(w, j) \/ Release(w, j) \/ Interrupt(w, j)

Spec == Init /\ [][Next]_vars
=============================================================================
