---------------------------- MODULE PrWorkspace ----------------------------
(***************************************************************************)
(* The git worktree behind the pr command.  Every pr job prepares its      *)
(* change in the same worktree (commands/pr.py), the diff found there is   *)
(* bound to the approval by a plan (execution_plan.py), and an approved    *)
(* plan is branched, committed, pushed and opened as a pull request by     *)
(* fixed git commands (pr_execution.py) under a credential that lives for  *)
(* that one step (write_credentials.py).  Other jobs use the worktree      *)
(* between a prepare, its approval and its execution, a git or gh step can *)
(* fail, and the worker can be killed between any two of them.             *)
(*                                                                         *)
(* A file is its content.  git is modelled by what its commands do to the  *)
(* three versions of each file: HEAD, the index and the working tree.      *)
(* The worker only ever branches from where it is, so the commits of the   *)
(* worktree are one sequence and HEAD is its last.                         *)
(***************************************************************************)
EXTENDS Integers, Sequences, FiniteSets

CONSTANTS Jobs,         \* the pr jobs, all of them submitted
          Requests,     \* what a job may ask for
          Request,      \* the request of each job
          Paths,        \* the files of the repository
          Opaque,       \* files whose changes a diff shows without --- and +++
                        \* lines: binary files, changes of mode
          Values,       \* contents of a file
          Absent,       \* no file
          BaseTree,     \* what was cloned
          NoJob,
          NoPlan,
          TidyPrepare,  \* a prepare leaves staged what the diff does not name
          MaxCrashes    \* bound: times the worker is killed

Tree == [Paths -> Values \cup {Absent}]

\* A diff: what each of some files was and becomes.
Diffs == UNION {[D -> (Values \cup {Absent}) \X (Values \cup {Absent})] : D \in SUBSET Paths}

Plans == [request : Requests, diff : Diffs]

ASSUME PrAssumption ==
    /\ Request \in [Jobs -> Requests]
    /\ Opaque \subseteq Paths
    /\ Absent \notin Values
    /\ BaseTree \in Tree
    /\ NoJob \notin Jobs
    /\ NoPlan \notin Plans
    /\ TidyPrepare \in BOOLEAN
    /\ MaxCrashes \in Nat

VARIABLES history,   \* the commits: their tree and the job that made them
          index,     \* what is staged
          tree,      \* the working tree
          branches,  \* the plans that have a branch, slackops/pr-<digest>
          merged,    \* how many of the commits origin/main contains
          status,    \* job store: status
          plan,      \* job store: the plan shown to the approver
          pc,        \* what the worker is doing
          job,       \* the job it is doing it for
          pushed,    \* the jobs whose branch is on the remote
          opened,    \* per job: the commit and the base of its pull request
          reported,  \* jobs whose result says that the pull request is open
          live,      \* jobs whose write credential still works
          astray,    \* jobs whose credential nobody will revoke
          touched,   \* the job that last changed the worktree or HEAD
          crashes

git   == <<history, index, tree, branches, touched>>
store == <<status, plan>>
remote == <<merged, pushed, opened, reported>>
creds == <<live, astray>>
vars  == <<git, store, remote, creds, pc, job, crashes>>

PCs == {"down", "poll", "prepare", "edited", "verify", "issue", "checkout",
        "add", "commit", "push", "create", "check", "revoke"}

Statuses == {"pending", "running", "awaiting_approval", "approved", "rejected",
             "done", "failed"}

-----------------------------------------------------------------------------
(* Diffs and plans.                                                        *)

HEAD == history[Len(history)].tree

\* What git diff shows between two trees: the files that differ, each with what
\* it was and what it becomes.
Changed(from, to) == {p \in Paths : from[p] # to[p]}
Diff(from, to) == [p \in Changed(from, to) |-> <<from[p], to[p]>>]

\* git diff HEAD compares with the working tree, and sees a file there only
\* when the index has it.
Tracked(t, x) == [p \in Paths |-> IF x[p] = Absent THEN Absent ELSE t[p]]

\* current_workspace_diff.
CurrentDiff == Diff(HEAD, Tracked(tree, index))

Untracked == {p \in Paths : tree[p] # Absent /\ index[p] = Absent}

\* changed_paths: the files a diff names in its --- and +++ lines.
NamedPaths(d) == DOMAIN d \ Opaque

\* Mutant: the plan takes the staged diff (git diff --cached).
PlanOfStaged(j, d) == [request |-> Request[j], diff |-> Diff(HEAD, index)]

\* The digest of a plan is that of the request, the diff and values that no job
\* changes.
PlanOf(j, d) == [request |-> Request[j], diff |-> d]

Init == /\ history = <<[tree |-> BaseTree, by |-> NoJob]>>
        /\ index = BaseTree
        /\ tree = BaseTree
        /\ branches = {}
        /\ merged = 1
        /\ status = [j \in Jobs |-> "pending"]
        /\ plan = [j \in Jobs |-> NoPlan]
        /\ pc = "down"
        /\ job = NoJob
        /\ pushed = {}
        /\ opened = [j \in Jobs |-> <<>>]
        /\ reported = {}
        /\ live = {}
        /\ astray = {}
        /\ touched = NoJob
        /\ crashes = 0

-----------------------------------------------------------------------------
(* The job store and the people around it.                                 *)

\* Mutant: the decision does not look at the status.
DecideUnchecked(j) ==
    /\ plan[j] # NoPlan
    /\ \E s \in {"approved", "rejected"} : status' = [status EXCEPT ![j] = s]
    /\ UNCHANGED <<git, plan, remote, creds, pc, job, crashes>>

Decide(j) ==
    /\ status[j] = "awaiting_approval"
    /\ \E s \in {"approved", "rejected"} : status' = [status EXCEPT ![j] = s]
    /\ UNCHANGED <<git, plan, remote, creds, pc, job, crashes>>

\* Somebody merges a pull request: main contains its commit and all before it,
\* and the pull requests on top of it now start there.
Merge(j) ==
    /\ opened[j] # <<>>
    /\ opened[j].commit > merged
    /\ merged' = opened[j].commit
    /\ opened' = [k \in Jobs |->
                     IF opened[k] # <<>> /\ opened[k].commit > opened[j].commit
                        THEN [opened[k] EXCEPT !.base = opened[j].commit]
                        ELSE opened[k]]
    /\ UNCHANGED <<git, store, pushed, reported, creds, pc, job, crashes>>

\* A credential that was not revoked expires.
Expire(j) ==
    /\ j \in live
    /\ live' = live \ {j}
    /\ astray' = astray \ {j}
    /\ UNCHANGED <<git, store, remote, pc, job, crashes>>

\* A sweep fails the job of a killed worker.
Reclaim(j) ==
    /\ pc = "poll"
    /\ status[j] = "running"
    /\ status' = [status EXCEPT ![j] = "failed"]
    /\ UNCHANGED <<git, plan, remote, creds, pc, job, crashes>>

Start ==
    /\ pc = "down"
    /\ pc' = "poll"
    /\ UNCHANGED <<git, store, remote, creds, job, crashes>>

Claim(j) ==
    /\ pc = "poll"
    /\ status[j] \in {"pending", "approved"}
    /\ status' = [status EXCEPT ![j] = "running"]
    /\ job' = j
    /\ pc' = IF status[j] = "approved" THEN "verify" ELSE "prepare"
    /\ UNCHANGED <<git, plan, remote, creds, crashes>>

\* A poll that finds nothing to do.
PollNothing ==
    /\ pc = "poll"
    /\ \A j \in Jobs : status[j] \notin {"pending", "approved", "running"}
    /\ UNCHANGED vars

\* Mutant: the job survives its run.
EndRunWithJob(s) == /\ status' = [status EXCEPT ![job] = s]
                    /\ pc' = "poll"
                    /\ UNCHANGED job

EndRun(s) == /\ status' = [status EXCEPT ![job] = s]
             /\ pc' = "poll"
             /\ job' = NoJob

-----------------------------------------------------------------------------
(* prepare.                                                                *)

\* Nothing is staged but what the diff names: step 3 of the prompt, stage every
\* changed file, followed after the last edit.
StagedAsShown(t, x) ==
    LET view == Tracked(t, x)
    IN  \A p \in Paths \ NamedPaths(Diff(HEAD, view)) : x[p] = view[p]

\* The model edits files, stages some and runs the tests.  It has no tool that
\* commits or switches to another branch, and it may leave untracked files.
Edit ==
    /\ pc = "prepare"
    /\ \E t, x \in Tree :
          /\ TidyPrepare => StagedAsShown(t, x)
          /\ tree' = t
          /\ index' = x
    /\ pc' = "edited"
    /\ touched' = job
    /\ UNCHANGED <<history, branches, store, remote, creds, job, crashes>>

\* The diff of the worktree becomes the plan, and the job waits at the gate.
Prepared ==
    /\ pc = "edited"
    /\ NamedPaths(CurrentDiff) # {}
    /\ plan' = [plan EXCEPT ![job] = PlanOf(job, CurrentDiff)]
    /\ EndRun("awaiting_approval")
    /\ UNCHANGED <<git, remote, creds, crashes>>

\* No diff, a diff that names no file, or a session that failed: the edits stay
\* in the worktree.
NotPrepared ==
    /\ pc \in {"prepare", "edited"}
    /\ EndRun("failed")
    /\ UNCHANGED <<git, plan, remote, creds, crashes>>

-----------------------------------------------------------------------------
(* execute.                                                                *)

\* Mutant: the diff of the worktree is not looked at again.
VerifiedOnce(j) == Untracked = {}

\* verify_pr_workspace, as far as anything in it can change after the approval.
Verified(j) == Untracked = {} /\ CurrentDiff = plan[j].diff

Verify ==
    /\ pc = "verify"
    /\ IF Verified(job) THEN pc' = "issue" /\ UNCHANGED <<status, job>>
                        ELSE EndRun("failed")
    /\ UNCHANGED <<git, plan, remote, creds, crashes>>

\* pr_write_grant.
Issue ==
    /\ pc = "issue"
    /\ live' = live \cup {job}
    /\ pc' = "checkout"
    /\ UNCHANGED <<git, store, remote, astray, job, crashes>>

\* No issuer is configured, or it has no answer: nothing is pushed.
NotIssued ==
    /\ pc = "issue"
    /\ \E s \in {"done", "failed"} : EndRun(s)
    /\ UNCHANGED <<git, plan, remote, creds, crashes>>

\* git checkout -b: fails when the branch exists.
Checkout ==
    /\ pc = "checkout"
    /\ plan[job] \notin branches
    /\ branches' = branches \cup {plan[job]}
    /\ pc' = "add"
    /\ UNCHANGED <<history, index, tree, touched, store, remote, creds, job, crashes>>

\* git add -- <the paths of the plan>: fails when a path is neither in the
\* working tree nor in the index.
Add ==
    /\ pc = "add"
    /\ LET paths == NamedPaths(plan[job].diff)
       IN  /\ \A p \in paths : tree[p] # Absent \/ index[p] # Absent
           /\ index' = [p \in Paths |-> IF p \in paths THEN tree[p] ELSE index[p]]
    /\ pc' = "commit"
    /\ UNCHANGED <<history, tree, branches, touched, store, remote, creds, job, crashes>>

\* git commit: the index becomes the new HEAD; fails when nothing is staged.
Commit ==
    /\ pc = "commit"
    /\ index # HEAD
    /\ history' = Append(history, [tree |-> index, by |-> job])
    /\ touched' = job
    /\ pc' = "push"
    /\ UNCHANGED <<index, tree, branches, store, remote, creds, job, crashes>>

\* git push, which the remote refuses without a live credential.
Push ==
    /\ pc = "push"
    /\ job \in live
    /\ pushed' = pushed \cup {job}
    /\ pc' = "create"
    /\ UNCHANGED <<git, store, merged, opened, reported, creds, job, crashes>>

\* gh pr create: the request asks to merge HEAD into what main is now.
Create ==
    /\ pc = "create"
    /\ job \in live
    /\ opened' = [opened EXCEPT ![job] = [commit |-> Len(history), base |-> merged]]
    /\ pc' = "check"
    /\ UNCHANGED <<git, store, merged, pushed, reported, creds, job, crashes>>

\* The change that the pull request of a job makes.
RemoteDiff(j) == Diff(history[opened[j].base].tree, history[opened[j].commit].tree)

\* _verify_remote_paths: the request must name the files of the plan.
Check ==
    /\ pc = "check"
    /\ job \in live
    /\ NamedPaths(RemoteDiff(job)) = NamedPaths(plan[job].diff)
    /\ reported' = reported \cup {job}
    /\ pc' = "revoke"
    /\ UNCHANGED <<git, store, merged, pushed, opened, creds, job, crashes>>

\* Any git or gh step may fail, and the ones above do where their guard is false:
\* what the earlier ones did stays.
Steps == {"checkout", "add", "commit", "push", "create", "check"}

\* Mutant: a step that fails skips the revocation.
StepFailsUnrevoked ==
    /\ pc \in Steps
    /\ EndRun("failed")
    /\ UNCHANGED <<git, plan, remote, creds, crashes>>

StepFails ==
    /\ pc \in Steps
    /\ pc' = "revoke"
    /\ UNCHANGED <<git, store, remote, creds, job, crashes>>

\* The way out of pr_write_grant.  A revocation that fails is ignored.  A failed
\* step was turned into the text of the result, any other error fails the job.
Revoke ==
    /\ pc = "revoke"
    /\ \/ live' = live \ {job} /\ UNCHANGED astray
       \/ UNCHANGED live /\ astray' = astray \cup ({job} \cap live)
    /\ \E s \in {"done"} \cup (IF job \in reported THEN {} ELSE {"failed"}) : EndRun(s)
    /\ UNCHANGED <<git, plan, remote, crashes>>

\* The worker is killed: files and credential stay as they are.
Crash ==
    /\ pc # "down"
    /\ crashes < MaxCrashes
    /\ crashes' = crashes + 1
    /\ astray' = astray \cup ({job} \cap live)
    /\ pc' = "down"
    /\ job' = NoJob
    /\ UNCHANGED <<git, store, remote, live>>

Next == \/ Start \/ PollNothing \/ Edit \/ Prepared \/ NotPrepared \/ Verify \/ Issue \/ NotIssued
        \/ Checkout \/ Add \/ Commit \/ Push \/ Create \/ Check \/ StepFails
        \/ Revoke \/ Crash
        \/ \E j \in Jobs : Claim(j) \/ Decide(j) \/ Merge(j) \/ Expire(j) \/ Reclaim(j)

Spec == Init /\ [][Next]_vars

-----------------------------------------------------------------------------
(* Properties.                                                             *)

TypeOK ==
    /\ history \in Seq([tree : Tree, by : Jobs \cup {NoJob}])
    /\ history # <<>>
    /\ index \in Tree
    /\ tree \in Tree
    /\ plan \in [Jobs -> Plans \cup {NoPlan}]
    /\ branches \subseteq {plan[j] : j \in Jobs} \ {NoPlan}
    /\ merged \in 1..Len(history)
    /\ status \in [Jobs -> Statuses]
    /\ pc \in PCs
    /\ job \in Jobs \cup {NoJob}
    /\ pushed \subseteq Jobs
    /\ \A j \in Jobs : opened[j] # <<>> =>
          opened[j].commit \in 1..Len(history) /\ opened[j].base \in 1..Len(history)
    /\ reported \subseteq pushed
    /\ astray \subseteq live
    /\ live \subseteq Jobs
    /\ touched \in Jobs \cup {NoJob}
    /\ crashes \in 0..MaxCrashes
    /\ job = NoJob <=> pc \in {"down", "poll"}

\* What is committed is what the approver saw, file by file, whatever other jobs
\* did to the worktree between the prepare, the approval and the execution, and
\* whatever a killed or failed run left there.
CommitIsApproved ==
    \A k \in 2..Len(history) :
        LET j == history[k].by
        IN  /\ plan[j] # NoPlan
            /\ Diff(history[k - 1].tree, history[k].tree) = plan[j].diff

\* One approval makes at most one commit, and a rejected job makes none.
OneCommitPerApproval ==
    /\ \A k, l \in 2..Len(history) : history[k].by = history[l].by => k = l
    /\ \A k \in 2..Len(history) :
          status[history[k].by] \in {"running", "done", "failed"}

\* A write credential works only while its job executes, unless its worker was
\* killed or GitHub did not revoke it: then until it expires.
CredentialEndsWithTheStep ==
    \A j \in live \ astray : job = j /\ pc \in Steps \cup {"revoke"}

\* When no other job touched the worktree since the prepare, an approval is not
\* refused for its diff: prepare and verify look at the same thing.
FreshApprovalHolds ==
    \A j \in Jobs : status[j] \in {"awaiting_approval", "approved"} /\ touched = j
                       => CurrentDiff = plan[j].diff

-----------------------------------------------------------------------------
(* What comments of the repository say and the code does not do.           *)

\* pr_execution.py, open_pr: nothing else can ride along with the approved
\* paths.  That is CommitIsApproved without the assumption TidyPrepare: the
\* verification compares the working tree with HEAD and never the index.
=============================================================================
