------------------------------- MODULE Worker -------------------------------
(***************************************************************************)
(* What the one EC2 worker does with a job it claimed                      *)
(* (src/src/app/worker.py, process_one and reclaim_stale), and what a      *)
(* decision about it does (approval_actions.py, web/app/actions.ts).  The  *)
(* status in the job store, the events of the audit trail and the run      *)
(* metrics are separate writes, and the process can be killed between any  *)
(* two of them.  Store operations are single steps, as JobLifecycle        *)
(* promises and JobQueue implements.                                       *)
(*                                                                         *)
(* When its executor has returned, process_one makes a fixed sequence of   *)
(* writes: todo holds those still to come.                                 *)
(***************************************************************************)
EXTENDS Integers, Sequences, FiniteSets, SequencesExt

CONSTANTS Jobs,
          PrJobs,        \* the jobs whose command is pr
          Approvers,
          WebApprovers,  \* those who decide on the dashboard, not in Slack
          NoOne,         \* approved_by of an undecided job
          NoJob,         \* not a job
          TheWorker,     \* the worker process, for the abstract life cycle
          NoWorker,
          MaxCrashes     \* bound: processes killed in the run

ASSUME WorkerAssumption ==
    /\ IsFiniteSet(Jobs)
    /\ PrJobs \subseteq Jobs
    /\ WebApprovers \subseteq Approvers
    /\ NoJob \notin Jobs
    /\ NoOne \notin Approvers
    /\ TheWorker # NoWorker
    /\ MaxCrashes \in Nat

VARIABLES status,      \* job store: status
          approvedBy,  \* job store: approved_by
          trail,       \* audit store: the events of each job
          metrics,     \* telemetry store: run records of each job
          opened,      \* the jobs whose pull request exists on GitHub
          pc,          \* what the worker is doing
          job,         \* its job, NoJob when it has none
          root,        \* position in the trail of its "claimed" event
          ran,         \* tool calls of this run, as the executor reported them
          todo,        \* the writes it has still to make
          deciding,    \* per approver: the job whose decision is not yet audited
          runs,        \* how often each job was claimed
          cut,         \* jobs whose trail a killed process left unfinished
          crashes

jobVars    == <<status, approvedBy>>
workerVars == <<pc, job, root, ran, todo>>
vars == <<status, approvedBy, trail, metrics, opened, pc, job, root,
          ran, todo, deciding, runs, cut, crashes>>

Statuses == {"absent", "pending", "awaiting_approval", "approved",
             "running", "done", "failed", "rejected"}

\* Mutant: a claim does not respect the output gate.
ClaimableUngated == {"approved", "awaiting_approval", "pending"}

Claimable == {"approved", "pending"}

\* "start": about to sweep at start-up; "poll": between two runs; "claimed": the
\* job is running, nothing is recorded;
\* "check": the gates before the executor; "exec": inside the executor;
\* "issued" and "granted": inside it with a write credential, before and after
\* its issue is recorded; "write": making the writes of todo.
PCs == {"down", "start", "poll", "claimed", "check", "exec", "issued",
        "granted", "write"}

Actions == {"claimed", "awaiting_approval", "approved", "rejected", "tool_call",
            "write_credentials_issued", "postcondition_verified",
            "capability_drift", "plan_binding_rejected", "policy_denied",
            "failed", "done", "reclaimed_stale"}

\* An audit event: what happened, the position of its parent step (0: none),
\* and whether it has a step id of its own.
EventRec(a, parent, step) == [action |-> a, parent |-> parent, step |-> step]

Record(j, a, parent) == trail' = [trail EXCEPT ![j] = Append(@, EventRec(a, parent, TRUE))]

\* The writes that todo is made of.
Event(j, a, parent) == [write |-> "event", job |-> j, what |-> a, parent |-> parent]
Move(j, s)   == [write |-> "status", job |-> j, what |-> s, parent |-> 0]
Metric(j)    == [write |-> "metric", job |-> j, what |-> "run", parent |-> 0]

Init == /\ status = [j \in Jobs |-> "absent"]
        /\ approvedBy = [j \in Jobs |-> NoOne]
        /\ trail = [j \in Jobs |-> <<>>]
        /\ metrics = [j \in Jobs |-> 0]
        /\ opened = {}
        /\ pc = "down"
        /\ job = NoJob
        /\ root = 0
        /\ ran = 0
        /\ todo = <<>>
        /\ deciding = [a \in Approvers |-> NoJob]
        /\ runs = [j \in Jobs |-> 0]
        /\ cut = {}
        /\ crashes = 0

-----------------------------------------------------------------------------
(* Producers and approvers.                                                *)

Enqueue(j) ==
    /\ status[j] = "absent"
    /\ status' = [status EXCEPT ![j] = "pending"]
    /\ UNCHANGED <<approvedBy, trail, metrics, opened, workerVars,
                   deciding, runs, cut, crashes>>

\* apply_decision and the dashboard's transition(): the conditional update ...
Decide(a, j) ==
    /\ deciding[a] = NoJob
    /\ status[j] = "awaiting_approval"
    /\ \E s \in {"approved", "rejected"} : status' = [status EXCEPT ![j] = s]
    /\ approvedBy' = [approvedBy EXCEPT ![j] = a]
    /\ deciding' = [deciding EXCEPT ![a] = j]
    /\ UNCHANGED <<trail, metrics, opened, workerVars, runs, cut, crashes>>

\* ... and then, as a second write, the event.  The dashboard writes its event
\* without a step id.
Decision(j) == IF status[j] = "rejected" THEN "rejected" ELSE "approved"

AuditDecision(a) ==
    /\ deciding[a] # NoJob
    /\ LET j == deciding[a]
       IN  trail' = [trail EXCEPT ![j] =
                       Append(@, EventRec(Decision(j), 0, a \notin WebApprovers))]
    /\ deciding' = [deciding EXCEPT ![a] = NoJob]
    /\ UNCHANGED <<jobVars, metrics, opened, workerVars, runs, cut, crashes>>

\* The process that served the decision ends between the two writes.
DecisionLost(a) ==
    /\ deciding[a] # NoJob
    /\ crashes < MaxCrashes
    /\ crashes' = crashes + 1
    /\ cut' = cut \cup {deciding[a]}
    /\ deciding' = [deciding EXCEPT ![a] = NoJob]
    /\ UNCHANGED <<jobVars, trail, metrics, opened, workerVars, runs>>

-----------------------------------------------------------------------------
(* The worker up to the end of the executor.                               *)

Approved(j) == approvedBy[j] # NoOne
Preparing(j) == j \in PrJobs /\ ~Approved(j)
Executing(j) == j \in PrJobs /\ Approved(j)

Start ==
    /\ pc = "down"
    /\ pc' = "start"
    /\ UNCHANGED <<jobVars, trail, metrics, opened, job, root, ran, todo,
                   deciding, runs, cut, crashes>>

Claim(j) ==
    /\ pc = "poll"
    /\ status[j] \in Claimable
    /\ status' = [status EXCEPT ![j] = "running"]
    /\ runs' = [runs EXCEPT ![j] = @ + 1]
    /\ pc' = "claimed"
    /\ job' = j
    /\ UNCHANGED <<approvedBy, trail, metrics, opened, root, ran, todo,
                   deciding, cut, crashes>>

\* Mutant: every run hangs on the first claim of its job.
AuditClaimedOnce ==
    /\ pc = "claimed"
    /\ Record(job, "claimed", 0)
    /\ root' = 1
    /\ pc' = "check"
    /\ UNCHANGED <<jobVars, metrics, opened, job, ran, todo, deciding,
                   runs, cut, crashes>>

\* The claim is the root step of the run.
AuditClaimed ==
    /\ pc = "claimed"
    /\ Record(job, "claimed", 0)
    /\ root' = Len(trail[job]) + 1
    /\ pc' = "check"
    /\ UNCHANGED <<jobVars, metrics, opened, job, ran, todo, deciding,
                   runs, cut, crashes>>

\* The writes of a run that has ended: n reported tool calls become child steps
\* of the run.
Tools(n) == [i \in 1..n |-> Event(job, "tool_call", root)]

\* Mutant: a run that stops at the gate is not measured.
GateWritesUnmeasured(n) == <<Move(job, "awaiting_approval")>> \o Tools(n)
                             \o <<Event(job, "awaiting_approval", root)>>

\* await_approval, then the trail, then the metric.
GateWrites(n) == <<Move(job, "awaiting_approval")>> \o Tools(n)
                   \o <<Event(job, "awaiting_approval", root), Metric(job)>>

\* Mutant: the trail is written before the job store.
DoneWritesAuditFirst(n) ==
    Tools(n) \o <<Event(job, "done", root), Move(job, "done"), Metric(job)>>

\* complete(DONE); a pr first records that its postcondition was verified.
DoneWrites(n) ==
    (IF Executing(job) THEN <<Event(job, "postcondition_verified", root)>> ELSE <<>>)
      \o Tools(n) \o <<Move(job, "done"), Event(job, "done", root), Metric(job)>>

\* The event for the kinds of error that have one of their own.
KindWrites(kind) == IF kind \in Actions THEN <<Event(job, kind, root)>> ELSE <<>>

\* Mutant: a failure is not recorded as such.
FailWritesSilent(kind, n) ==
    <<Move(job, "failed")>> \o Tools(n) \o KindWrites(kind) \o <<Metric(job)>>

\* _fail: complete(FAILED), the tool calls it was given, the event that tells
\* the kind of error, the failure itself.
FailWrites(kind, n) ==
    <<Move(job, "failed")>> \o Tools(n) \o KindWrites(kind)
      \o <<Event(job, "failed", root), Metric(job)>>

\* The executor is done: n tool calls ran, and these writes follow.
EndRun(n, writes) ==
    /\ ran' = n
    /\ todo' = writes
    /\ pc' = "write"
    /\ UNCHANGED <<jobVars, trail, metrics, job, root, deciding, runs, cut, crashes>>

\* No executor for the command, arguments outside the scope, or an approved
\* plan that no longer matches the workspace: nothing was executed.
Refuse ==
    /\ pc = "check"
    /\ \E kind \in {"policy_denied"} \cup
          (IF Executing(job) THEN {"plan_binding_rejected"} ELSE {}) :
             EndRun(0, FailWrites(kind, 0))
    /\ UNCHANGED opened

Admit ==
    /\ pc = "check"
    /\ pc' = "exec"
    /\ UNCHANGED <<jobVars, trail, metrics, opened, job, root, ran, todo,
                   deciding, runs, cut, crashes>>

\* The executor raises: what it had run by then is not reported.  A LookupError
\* of its own is taken for the default-deny of an unknown command.
Raise ==
    /\ pc \in {"exec", "issued", "granted"}
    /\ \E kind \in {"other", "policy_denied"} : EndRun(0, FailWrites(kind, 0))
    /\ UNCHANGED opened

\* A run ends with at most one tool call, enough to tell whether it is kept.
\* A call outside what the command may do fails the run.
Drift ==
    /\ pc = "exec"
    /\ ~Executing(job)
    /\ EndRun(1, FailWrites("capability_drift", 1))
    /\ UNCHANGED opened

ReadOnly ==
    /\ pc = "exec"
    /\ job \notin PrJobs
    /\ \E n \in 0..1 : EndRun(n, DoneWrites(n))
    /\ UNCHANGED opened

\* prepare made a diff that can be planned: the output gate.
Prepared ==
    /\ pc = "exec"
    /\ Preparing(job)
    /\ \E n \in 0..1 : EndRun(n, GateWrites(n))
    /\ UNCHANGED opened

\* prepare made no diff, or a diff no plan may be built from.  process_one
\* calls _fail without the tool calls it has resolved.
NotPrepared ==
    /\ pc = "exec"
    /\ Preparing(job)
    /\ \E n \in 0..1, kind \in {"no_diff", "plan_binding_rejected"} :
          EndRun(n, FailWrites(kind, 0))
    /\ UNCHANGED opened

\* The second verification inside the executor fails: no credential is issued.
Unverified ==
    /\ pc = "exec"
    /\ Executing(job)
    /\ EndRun(0, FailWrites("plan_binding_rejected", 0))
    /\ UNCHANGED opened

\* No issuer is configured: handle_pr reports that the PR was not opened.
NoCredential ==
    /\ pc = "exec"
    /\ Executing(job)
    /\ EndRun(0, DoneWrites(0))
    /\ UNCHANGED opened

\* Mutant: the issue of the credential is not recorded.
IssueGrantUnaudited ==
    /\ pc = "exec"
    /\ Executing(job)
    /\ pc' = "granted"
    /\ UNCHANGED <<jobVars, trail, metrics, opened, job, root, ran, todo,
                   deciding, runs, cut, crashes>>

\* The credential is issued ...
IssueGrant ==
    /\ pc = "exec"
    /\ Executing(job)
    /\ pc' = "issued"
    /\ UNCHANGED <<jobVars, trail, metrics, opened, job, root, ran, todo,
                   deciding, runs, cut, crashes>>

\* ... and recorded as a child of the last step of the trail that looks like
\* its approval (_approval_step_id).
ApprovalSteps(j) ==
    {i \in DOMAIN trail[j] : /\ trail[j][i].action \in {"approved", "awaiting_approval"}
                             /\ trail[j][i].step}

ApprovalStep(j) == IF ApprovalSteps(j) = {} THEN 0 ELSE Max(ApprovalSteps(j))

AuditGrant ==
    /\ pc = "issued"
    /\ Record(job, "write_credentials_issued", ApprovalStep(job))
    /\ pc' = "granted"
    /\ UNCHANGED <<jobVars, metrics, opened, job, root, ran, todo, deciding,
                   runs, cut, crashes>>

\* open_pr pushes and opens the pull request, or a git or gh step fails before
\* or after the request exists.  handle_pr turns the failure into the text of
\* the result, so the run ends as done either way.  No model, no tool calls.
OpenPr ==
    /\ pc = "granted"
    /\ opened' \in {opened, opened \cup {job}}
    /\ EndRun(0, DoneWrites(0))

-----------------------------------------------------------------------------
(* The writes at the end of a run, and of a sweep for orphans.             *)

\* The next write.  A status changes only from running, as the store checks.
Write ==
    /\ pc = "write"
    /\ todo # <<>>
    /\ LET w == Head(todo)
       IN  CASE w.write = "event" ->
                  /\ Record(w.job, w.what, w.parent)
                  /\ UNCHANGED <<status, metrics>>
             [] w.write = "status" ->
                  /\ status' = IF status[w.job] = "running"
                               THEN [status EXCEPT ![w.job] = w.what] ELSE status
                  /\ UNCHANGED <<trail, metrics>>
             [] w.write = "metric" ->
                  /\ metrics' = [metrics EXCEPT ![w.job] = @ + 1]
                  /\ UNCHANGED <<status, trail>>
    /\ todo' = Tail(todo)
    /\ UNCHANGED <<approvedBy, opened, pc, job, root, ran, deciding, runs, cut,
                   crashes>>

\* Mutant: the job survives its run.
ReturnWithJob ==
    /\ pc = "write"
    /\ todo = <<>>
    /\ pc' = "poll"
    /\ UNCHANGED <<jobVars, trail, metrics, opened, job, root, ran, todo,
                   deciding, runs, cut, crashes>>

\* process_one returns.
Return ==
    /\ pc = "write"
    /\ todo = <<>>
    /\ pc' = "poll"
    /\ job' = NoJob
    /\ root' = 0
    /\ ran' = 0
    /\ UNCHANGED <<jobVars, trail, metrics, opened, todo, deciding, runs, cut,
                   crashes>>

\* Mutants: a sweep that does not look at the status, and one that finds nothing.
OrphansInAnyStatus == {j \in Jobs : runs[j] > 0}
OrphansNone == {}

\* reclaim_stale, at start-up and whenever claim found nothing: fails running
\* jobs whose updated_at is before the cut-off, which any of them may be, and
\* then records each of them.
Orphans == {j \in Jobs : status[j] = "running"}

Idle == pc = "poll" /\ \A j \in Jobs : status[j] \notin Claimable

Sweep ==
    /\ pc = "start" \/ Idle
    /\ \E S \in SUBSET Orphans :
          /\ Idle => S # {}
          /\ LET s == SetToSeq(S)
                 n == Len(s)
             IN  todo' = [i \in 1..n |-> Move(s[i], "failed")]
                           \o [i \in 1..n |-> Event(s[i], "reclaimed_stale", 0)]
                           \o [i \in 1..n |-> Metric(s[i])]
    /\ pc' = "write"
    /\ UNCHANGED <<jobVars, trail, metrics, opened, job, root, ran, deciding,
                   runs, cut, crashes>>

\* A poll that finds nothing to claim and nothing to reclaim.
PollNothing == Idle /\ UNCHANGED vars

\* The process is killed.  The job it had claimed keeps its status; what todo
\* still held is never written.
Crash ==
    /\ pc # "down"
    /\ crashes < MaxCrashes
    /\ crashes' = crashes + 1
    /\ cut' = cut \cup (IF job = NoJob THEN {} ELSE {job})
                  \cup {todo[i].job : i \in DOMAIN todo}
    /\ pc' = "down"
    /\ job' = NoJob
    /\ root' = 0
    /\ ran' = 0
    /\ todo' = <<>>
    /\ UNCHANGED <<jobVars, trail, metrics, opened, deciding, runs>>

WorkerStep == \/ Start \/ AuditClaimed \/ Refuse \/ Admit \/ Raise \/ Drift
              \/ ReadOnly \/ Prepared \/ NotPrepared \/ Unverified
              \/ NoCredential \/ IssueGrant \/ AuditGrant \/ OpenPr
              \/ Write \/ Return \/ Sweep
              \/ \E j \in Jobs : Claim(j)

Next == \/ WorkerStep \/ PollNothing \/ Crash
        \/ \E j \in Jobs : Enqueue(j)
        \/ \E a \in Approvers : \/ AuditDecision(a) \/ DecisionLost(a)
                                \/ \E j \in Jobs : Decide(a, j)

Spec == Init /\ [][Next]_vars

FairSpec == Spec /\ WF_vars(WorkerStep) /\ \A a \in Approvers : WF_vars(AuditDecision(a))

-----------------------------------------------------------------------------
(* Properties.                                                             *)

TypeOK ==
    /\ status \in [Jobs -> Statuses]
    /\ approvedBy \in [Jobs -> Approvers \cup {NoOne}]
    /\ trail \in [Jobs -> Seq([action : Actions, parent : Nat, step : BOOLEAN])]
    /\ metrics \in [Jobs -> Nat]
    /\ opened \subseteq PrJobs
    /\ pc \in PCs
    /\ job \in Jobs \cup {NoJob}
    /\ root \in Nat
    /\ ran \in 0..1
    /\ deciding \in [Approvers -> Jobs \cup {NoJob}]
    /\ runs \in [Jobs -> Nat]
    /\ cut \subseteq Jobs
    /\ crashes \in 0..MaxCrashes
    /\ pc \in {"down", "start", "poll"} =>
          job = NoJob /\ root = 0 /\ ran = 0 /\ todo = <<>>

Said(j, a) == \E i \in DOMAIN trail[j] : trail[j][i].action = a

\* The trail never reports a transition that the job store has not made: an
\* audit reader who sees "done" or "approved" finds the job in that status or
\* past it, whatever was killed in between.
TrailIsTrue ==
    \A j \in Jobs :
      /\ Said(j, "done") => status[j] = "done"
      /\ Said(j, "failed") \/ Said(j, "reclaimed_stale") => status[j] = "failed"
      /\ Said(j, "rejected") => status[j] = "rejected"
      /\ Said(j, "awaiting_approval") =>
            status[j] \notin {"absent", "pending"} /\ (status[j] = "running" => Approved(j))
      /\ Said(j, "approved") => status[j] \in {"approved", "running", "done", "failed"}

\* A job that ended says so in its trail, unless a process was killed while it
\* had still to write it.
Pending(j, a) == \/ \E i \in DOMAIN todo : todo[i].job = j /\ todo[i].what = a
                 \/ \E b \in Approvers : deciding[b] = j /\ Decision(j) = a

TrailIsComplete ==
    \A j \in Jobs \ cut :
      /\ status[j] \in {"done", "failed", "rejected", "awaiting_approval"} =>
            Said(j, status[j]) \/ Pending(j, status[j])
      /\ Approved(j) /\ status[j] # "rejected" =>
            Said(j, "approved") \/ Pending(j, "approved")

\* A job has one ending: a run that completed is never reclaimed afterwards.
Endings(j) == {i \in DOMAIN trail[j] :
                 trail[j][i].action \in {"done", "failed", "reclaimed_stale", "rejected"}}
OneEnding == \A j \in Jobs : Cardinality(Endings(j)) <= 1

\* Every step of a run descends from the "claimed" event of that same run, also
\* when an earlier run of the job was killed or waited at the gate.
LastClaim(j, i) == Max({k \in 1..i : trail[j][k].action = "claimed"})
RunSteps == {"tool_call", "awaiting_approval", "postcondition_verified",
             "capability_drift", "plan_binding_rejected", "policy_denied",
             "failed", "done"}
StepsDescendFromTheirRun ==
    \A j \in Jobs : \A i \in DOMAIN trail[j] :
      trail[j][i].action \in RunSteps => trail[j][i].parent = LastClaim(j, i)

\* Every run is measured once: a run that ended has its metric, also when it
\* was a reclaim that ended it, unless a kill came before it was written.
Measured ==
    \A j \in Jobs :
      /\ metrics[j] <= runs[j]
      /\ j \notin cut /\ j # job /\ status[j] # "running" /\ todo = <<>> =>
            metrics[j] = runs[j]

\* A pull request exists only for a job whose trail already names the
\* credential that pushed it, and that credential answers to a step of the gate.
PushIsTraceable ==
    \A j \in opened : \E i \in DOMAIN trail[j] :
      /\ trail[j][i].action = "write_credentials_issued"
      /\ j \notin cut => trail[j][i].parent # 0

\* A worker that is not killed any more finishes what it claimed: no run ends
\* without an outcome, and a job left running by a killed process is reclaimed.
RunsEnd == \A j \in Jobs : status[j] = "running" ~> status[j] # "running"

\* The worker implements the abstract life cycle: the job has an executor while
\* the live worker has it and it is running.
Holder == [j \in Jobs |-> IF job = j /\ status[j] = "running" THEN TheWorker ELSE NoWorker]

Lifecycle == INSTANCE JobLifecycle WITH holder <- Holder, Workers <- {TheWorker}

ImplementsLifecycle == Lifecycle!Spec

-----------------------------------------------------------------------------
(* What comments of the repository say and the code does not do.           *)

\* pr_execution.py, open_pr: when a git or gh step fails the job fails, rather
\* than reporting a pull request that does not exist.  Only a run that had its
\* credential calls open_pr.
DonePrWasOpened ==
    \A j \in PrJobs : status[j] = "done" /\ Said(j, "write_credentials_issued")
                       => j \in opened
=============================================================================
