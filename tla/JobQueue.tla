------------------------------ MODULE JobQueue ------------------------------
(***************************************************************************)
(* The DynamoDB job store (src/src/app/store/dynamodb_store.py) under the  *)
(* polling loop of its workers (worker.py, run_forever) and the decisions  *)
(* of approvers.  A store operation is not one step: claim and             *)
(* reclaim_stale_running query an index and then update the items they     *)
(* found one by one, each update conditional on the item's status.  The    *)
(* answer of a query is therefore a local value of the worker, out of date *)
(* as soon as anybody else acts.                                           *)
(*                                                                         *)
(* Jobs are numbered in the order of created_at.  Wall-clock time is       *)
(* reduced to the one bit the store compares: whether the updated_at of a  *)
(* running job is older than the reclaim cut-off.                          *)
(***************************************************************************)
EXTENDS Integers, FiniteSets

CONSTANTS NJobs,       \* bound: the number of jobs submitted
          PrJobs,      \* the jobs whose command is pr, behind the output gate
          Workers,     \* the worker processes
          Approvers,   \* the people who decide, in Slack or on the dashboard
          NoOne,       \* approved_by of an undecided job
          NoWorker,    \* not a worker
          ScanLimit,   \* _CLAIM_SCAN_LIMIT: candidates one claim query returns
          MaxCrashes,  \* bound: worker processes killed in the run
          TimelyRuns   \* executions end before STALE_RUNNING_TIMEOUT_S

Jobs == 1..NJobs

ASSUME QueueAssumption ==
    /\ NJobs \in Nat
    /\ PrJobs \subseteq Jobs
    /\ NoOne \notin Approvers
    /\ NoWorker \notin Workers
    /\ ScanLimit \in Nat \ {0}
    /\ MaxCrashes \in Nat
    /\ TimelyRuns \in BOOLEAN

VARIABLES status,      \* the status attribute of each item
          stale,       \* running jobs whose updated_at is before the cut-off
          approvedBy,  \* the approved_by attribute
          executed,    \* how often a worker began to execute the approved job
          pc,          \* what each worker process is doing
          found,       \* the jobs its last query returned and it has yet to try
          cur,         \* the job process_one is working on, 0 when none
          crashes

storeVars  == <<status, stale, approvedBy>>
workerVars == <<pc, found, cur>>
vars == <<status, stale, approvedBy, executed, pc, found, cur, crashes>>

Statuses == {"absent", "pending", "awaiting_approval", "approved",
             "running", "done", "failed", "rejected"}

Terminal == {"done", "failed", "rejected"}

\* "down": no process; "poll": top of the run_forever loop; "approved" and
\* "pending": trying what the claim query for that status returned; "run":
\* inside process_one with a job; "sweep": about to query for orphans;
\* "reclaim": failing the orphans it found.
PCs == {"down", "poll", "approved", "pending", "run", "sweep", "reclaim"}

Init == /\ status = [j \in Jobs |-> "absent"]
        /\ stale = {}
        /\ approvedBy = [j \in Jobs |-> NoOne]
        /\ executed = [j \in Jobs |-> 0]
        /\ pc = [w \in Workers |-> "down"]
        /\ found = [w \in Workers |-> {}]
        /\ cur = [w \in Workers |-> 0]
        /\ crashes = 0

-----------------------------------------------------------------------------
(* The store.                                                              *)

InStatus(s) == {j \in Jobs : status[j] = s}

\* GSI1 is sorted by created_at: a query with a limit returns the oldest.
Oldest(S, n) == {j \in S : Cardinality({k \in S : k < j}) < n}

\* The candidate whose turn it is among those a query returned.
IsNext(w, j) == j \in found[w] /\ \A k \in found[w] : j <= k

\* Mutant: the update is not conditional.
StillInUnchecked(j, s) == TRUE

\* _conditional_set: the item changes only if it still has the status that the
\* caller expects, and every transition refreshes updated_at.
StillIn(j, s) == status[j] = s

SetStatus(j, s) == /\ status' = [status EXCEPT ![j] = s]
                   /\ stale' = stale \ {j}

\* created_at numbers the jobs, so job j is the j-th one to be enqueued.
Enqueue(j) ==
    /\ status[j] = "absent"
    /\ \A k \in Jobs : k < j => status[k] # "absent"
    /\ SetStatus(j, "pending")
    /\ UNCHANGED <<approvedBy, executed, workerVars, crashes>>

\* approve and reject: apply where the job still waits at the gate, change
\* nothing where it does not.  The plan hash that approve also compares is
\* written once, with the status, and cannot differ while the status matches.
Approve(a, j) ==
    /\ StillIn(j, "awaiting_approval")
    /\ SetStatus(j, "approved")
    /\ approvedBy' = [approvedBy EXCEPT ![j] = a]
    /\ UNCHANGED <<executed, workerVars, crashes>>

Reject(a, j) ==
    /\ StillIn(j, "awaiting_approval")
    /\ SetStatus(j, "rejected")
    /\ approvedBy' = [approvedBy EXCEPT ![j] = a]
    /\ UNCHANGED <<executed, workerVars, crashes>>

\* The live workers that are inside process_one with the job.
Executors(j) == {w \in Workers : cur[w] = j}

\* Time passes: the cut-off overtakes the updated_at of a running job.
Age(j) ==
    /\ status[j] = "running"
    /\ j \notin stale
    /\ TimelyRuns => Executors(j) = {}
    /\ stale' = stale \cup {j}
    /\ UNCHANGED <<status, approvedBy, executed, workerVars, crashes>>

-----------------------------------------------------------------------------
(* The worker process.                                                     *)

Goto(w, label, jobs) == /\ pc' = [pc EXCEPT ![w] = label]
                        /\ found' = [found EXCEPT ![w] = jobs]

\* Mutant: the worker keeps the job of its last run.
LetGoNever(w) == UNCHANGED cur

\* The job was a local of process_one: it is forgotten when that returns and
\* when the process ends.
LetGo(w) == cur' = [cur EXCEPT ![w] = 0]

\* systemd starts the process; run_forever sweeps once before it polls.
Start(w) ==
    /\ pc[w] = "down"
    /\ Goto(w, "sweep", {})
    /\ UNCHANGED <<storeVars, executed, cur, crashes>>

\* claim queries the approved jobs and then, when it got none of those, the
\* pending ones.
QueryApproved(w) ==
    /\ pc[w] = "poll"
    /\ Goto(w, "approved", Oldest(InStatus("approved"), ScanLimit))
    /\ UNCHANGED <<storeVars, executed, cur, crashes>>

QueryPending(w) ==
    /\ pc[w] = "approved"
    /\ found[w] = {}
    /\ Goto(w, "pending", Oldest(InStatus("pending"), ScanLimit))
    /\ UNCHANGED <<storeVars, executed, cur, crashes>>

\* The conditional update of the oldest candidate succeeds: claim returns it.
ClaimWins(w, j) ==
    /\ pc[w] \in {"approved", "pending"}
    /\ IsNext(w, j)
    /\ StillIn(j, pc[w])
    /\ SetStatus(j, "running")
    /\ executed' = IF approvedBy[j] = NoOne THEN executed
                   ELSE [executed EXCEPT ![j] = @ + 1]
    /\ Goto(w, "run", {})
    /\ cur' = [cur EXCEPT ![w] = j]
    /\ UNCHANGED <<approvedBy, crashes>>

\* The condition fails because somebody else changed the job: next candidate.
ClaimLoses(w, j) ==
    /\ pc[w] \in {"approved", "pending"}
    /\ IsNext(w, j)
    /\ ~StillIn(j, pc[w])
    /\ Goto(w, pc[w], found[w] \ {j})
    /\ UNCHANGED <<storeVars, executed, cur, crashes>>

\* Mutant: an idle poll does not sweep.
ClaimNothingNoSweep(w) ==
    /\ pc[w] = "pending"
    /\ found[w] = {}
    /\ Goto(w, "poll", {})
    /\ UNCHANGED <<storeVars, executed, cur, crashes>>

\* claim returned None: the idle poll sweeps for orphans.
ClaimNothing(w) ==
    /\ pc[w] = "pending"
    /\ found[w] = {}
    /\ Goto(w, "sweep", {})
    /\ UNCHANGED <<storeVars, executed, cur, crashes>>

\* Mutant: a pr job ends without having been approved.
OutcomesUngated(j) == {"done", "failed"}

\* The statuses in which process_one may leave the job: an unapproved pr job
\* stops at the gate or fails, every other job ends.
Outcomes(j) == IF j \in PrJobs /\ approvedBy[j] = NoOne
               THEN {"awaiting_approval", "failed"}
               ELSE {"done", "failed"}

\* await_approval and complete are conditional on "running"; process_one
\* ignores what they return and goes back to polling.
Finish(w) ==
    /\ pc[w] = "run"
    /\ IF StillIn(cur[w], "running")
       THEN \E s \in Outcomes(cur[w]) : SetStatus(cur[w], s)
       ELSE UNCHANGED <<status, stale>>
    /\ Goto(w, "poll", {})
    /\ LetGo(w)
    /\ UNCHANGED <<approvedBy, executed, crashes>>

\* Mutant: the cut-off is ignored.
OverdueAtAnyAge == InStatus("running")

\* reclaim_stale_running: every running job older than the cut-off ...
Overdue == InStatus("running") \cap stale

QueryStale(w) ==
    /\ pc[w] = "sweep"
    /\ Goto(w, "reclaim", Overdue)
    /\ UNCHANGED <<storeVars, executed, cur, crashes>>

\* Mutant: an orphan goes back to the queue.
ReclaimedRequeue(j) == IF approvedBy[j] = NoOne THEN "pending" ELSE "approved"

\* ... is failed, never queued again, if it is still running when its turn
\* comes.
Reclaimed(j) == "failed"

Reclaim(w, j) ==
    /\ pc[w] = "reclaim"
    /\ IsNext(w, j)
    /\ IF StillIn(j, "running") THEN SetStatus(j, Reclaimed(j))
                                ELSE UNCHANGED <<status, stale>>
    /\ Goto(w, "reclaim", found[w] \ {j})
    /\ UNCHANGED <<approvedBy, executed, cur, crashes>>

ReclaimEnds(w) ==
    /\ pc[w] = "reclaim"
    /\ found[w] = {}
    /\ Goto(w, "poll", {})
    /\ UNCHANGED <<storeVars, executed, cur, crashes>>

\* The process is killed: the credential refresh restarts the services, the
\* instance stops, a store error leaves process_one.  Its job stays running.
Crash(w) ==
    /\ pc[w] # "down"
    /\ crashes < MaxCrashes
    /\ crashes' = crashes + 1
    /\ Goto(w, "down", {})
    /\ LetGo(w)
    /\ UNCHANGED <<storeVars, executed>>

WorkerStep(w) ==
    \/ Start(w) \/ QueryApproved(w) \/ QueryPending(w) \/ ClaimNothing(w)
    \/ \E j \in Jobs : ClaimWins(w, j) \/ ClaimLoses(w, j) \/ Reclaim(w, j)
    \/ Finish(w) \/ QueryStale(w) \/ ReclaimEnds(w)

Next == \/ \E w \in Workers : WorkerStep(w) \/ Crash(w)
        \/ \E j \in Jobs : Enqueue(j) \/ Age(j)
        \/ \E a \in Approvers, j \in Jobs : Approve(a, j) \/ Reject(a, j)

Spec == Init /\ [][Next]_vars

\* systemd restarts the processes, executions end (Claude runs are killed at
\* their timeout) and time passes; nobody has to submit or decide anything,
\* and nothing has to crash.
Fairness == /\ \A w \in Workers : WF_vars(WorkerStep(w))
            /\ \A j \in Jobs : WF_vars(Age(j))

FairSpec == Spec /\ Fairness

-----------------------------------------------------------------------------
(* Properties.                                                             *)

TypeOK ==
    /\ status \in [Jobs -> Statuses]
    /\ stale \subseteq Jobs
    /\ approvedBy \in [Jobs -> Approvers \cup {NoOne}]
    /\ executed \in [Jobs -> Nat]
    /\ pc \in [Workers -> PCs]
    /\ found \in [Workers -> SUBSET Jobs]
    /\ cur \in [Workers -> 0..NJobs]
    /\ crashes \in 0..MaxCrashes
    /\ \A w \in Workers : pc[w] = "run" <=> cur[w] # 0

\* The claim of base.py: two workers never run the same job.
NoDoubleRun == \A v, w \in Workers : cur[v] = cur[w] /\ cur[v] # 0 => v = w

\* While a worker executes a job the job is running: no reclaim took it away,
\* so what process_one reports at the end is what the store records.
RunKeepsItsJob == \A w \in Workers : cur[w] # 0 => status[cur[w]] = "running"

\* An approved pr is executed at most once, whatever crashes: a reclaimed job
\* fails and is not queued again (worker.py, reclaim_stale: re-queueing a pr
\* execute would risk a double push).
AtMostOneExecution == \A j \in Jobs : executed[j] <= 1

\* The first decision stands: whoever decides second changes neither the
\* decision nor who made it, and a rejected job never runs again.
FirstDecisionStands ==
    [][\A j \in Jobs : approvedBy[j] # NoOne =>
          /\ approvedBy'[j] = approvedBy[j]
          /\ status[j] = "rejected" => status'[j] = "rejected"]_vars

\* A pr job that was never approved is never reported as done.
DoneWasApproved ==
    \A j \in PrJobs : status[j] = "done" => approvedBy[j] # NoOne

\* Every submitted or approved job settles: it ends or it waits for a person,
\* even when the worker that took it dies.
JobsSettle ==
    \A j \in Jobs : status[j] \in {"pending", "approved", "running"} ~>
                    status[j] \in Terminal \cup {"awaiting_approval"}

\* The store and its workers implement the abstract life cycle.
TheOne(S) == CHOOSE w \in S : TRUE

Holder == [j \in Jobs |-> IF Executors(j) = {} THEN NoWorker
                          ELSE TheOne(Executors(j))]

Lifecycle == INSTANCE JobLifecycle WITH holder <- Holder

ImplementsLifecycle == Lifecycle!Spec

=============================================================================
