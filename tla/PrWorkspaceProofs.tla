------------------------- MODULE PrWorkspaceProofs -------------------------
(***************************************************************************)
(* Theorems about PrWorkspace for any number of jobs, files, contents and  *)
(* kills: one approval makes at most one commit and, when every prepare    *)
(* leaves staged what its diff names, the commit is what was approved.     *)
(***************************************************************************)
EXTENDS PrWorkspace, SequenceTheorems, TLAPS

Commits(j) == {k \in 2..Len(history) : history[k].by = j}

\* The phases of a job: it has a plan from the gate on, and no commit before the
\* commit step of its only execution.
JobInv ==
    /\ history \in Seq([tree : Tree, by : Jobs \cup {NoJob}])
    /\ history # <<>>
    /\ index \in Tree
    /\ tree \in Tree
    /\ plan \in [Jobs -> Plans \cup {NoPlan}]
    /\ status \in [Jobs -> Statuses]
    /\ pc \in PCs
    /\ job \in Jobs \cup {NoJob}
    /\ job = NoJob <=> pc \in {"down", "poll"}
    /\ job # NoJob => status[job] = "running"
    /\ pc \in {"prepare", "edited"} => plan[job] = NoPlan
    /\ job # NoJob /\ pc \notin {"prepare", "edited"} => plan[job] # NoPlan
    /\ pc \in {"prepare", "edited", "verify", "issue", "checkout", "add", "commit"} =>
          Commits(job) = {}
    /\ \A j \in Jobs :
          /\ status[j] = "pending" => plan[j] = NoPlan
          /\ status[j] \in {"awaiting_approval", "approved"} => plan[j] # NoPlan
          /\ status[j] \notin {"running", "done", "failed"} => Commits(j) = {}
          /\ plan[j] = NoPlan => Commits(j) = {}
          /\ \A k, l \in Commits(j) : k = l
    /\ \A k \in 2..Len(history) : history[k].by \in Jobs

LEMMA CurrentDiffOK ==
    ASSUME history \in Seq([tree : Tree, by : Jobs \cup {NoJob}]), history # <<>>,
           index \in Tree, tree \in Tree
    PROVE  CurrentDiff \in Diffs /\ HEAD \in Tree
<1>1. HEAD \in Tree
  <2>1. Len(history) \in 1..Len(history)
      BY EmptySeq
  <2>2. history[Len(history)] \in [tree : Tree, by : Jobs \cup {NoJob}]
      BY <2>1, ElementOfSeq
  <2> QED
      BY <2>2 DEF HEAD
<1>2. Tracked(tree, index) \in Tree
    BY DEF Tracked, Tree
<1>3. CurrentDiff \in [Changed(HEAD, Tracked(tree, index)) ->
                         (Values \cup {Absent}) \X (Values \cup {Absent})]
    BY <1>1, <1>2 DEF CurrentDiff, Diff, Changed, Tree
<1>4. Changed(HEAD, Tracked(tree, index)) \in SUBSET Paths
    BY DEF Changed
<1> QED
    BY <1>1, <1>3, <1>4 DEF Diffs

LEMMA InitJob == Init => JobInv
  BY PrAssumption DEF Init, JobInv, Commits, Statuses, PCs

\* Steps that neither commit nor plan.
LEMMA JobQuiet ==
    ASSUME JobInv, UNCHANGED <<history, plan>>, index' \in Tree, tree' \in Tree,
           status' = status, job' = job, pc' \in PCs,
           job = NoJob <=> pc' \in {"down", "poll"},
           pc' \in {"prepare", "edited"} <=> pc \in {"prepare", "edited"},
           pc' \in {"verify", "issue", "checkout", "add", "commit"} =>
              pc \in {"verify", "issue", "checkout", "add", "commit"}
    PROVE  JobInv'
  BY DEF JobInv, Commits

\* The end of a run with an outcome other than the gate.
LEMMA JobEnds ==
    ASSUME JobInv, UNCHANGED <<history, index, tree, plan>>, job # NoJob,
           NEW s \in {"done", "failed"}, EndRun(s)
    PROVE  JobInv'
  BY PrAssumption DEF JobInv, Commits, EndRun, Statuses, PCs

LEMMA CommitEffect ==
    ASSUME JobInv, Commit
    PROVE  /\ history' \in Seq([tree : Tree, by : Jobs \cup {NoJob}])
           /\ history' # <<>>
           /\ Len(history') = Len(history) + 1
           /\ Len(history) \in Nat \ {0}
           /\ \A k \in 1..Len(history) : history'[k] = history[k]
           /\ history'[Len(history')] = [tree |-> index, by |-> job]
<1>1. [tree |-> index, by |-> job] \in [tree : Tree, by : Jobs \cup {NoJob}]
    BY DEF JobInv
<1>2. Len(history) \in Nat \ {0}
    BY EmptySeq DEF JobInv
<1> QED
    BY <1>1, <1>2 DEF JobInv, Commit

LEMMA StepJob == JobInv /\ [Next]_vars => JobInv'
<1> SUFFICES ASSUME JobInv, [Next]_vars PROVE JobInv'
    OBVIOUS
<1> USE PrAssumption DEF PCs
<1>1. CASE Start
    BY <1>1, JobQuiet DEF Start, git, store, JobInv
<1>2. CASE Edit
    BY <1>2, JobQuiet DEF Edit, store, JobInv
<1>3. CASE Prepared
  <2>1. PlanOf(job, CurrentDiff) \in Plans
      BY <1>3, CurrentDiffOK DEF Prepared, PlanOf, Plans, JobInv
  <2>2. PlanOf(job, CurrentDiff) # NoPlan
      BY <2>1
  <2>3. /\ pc = "edited" /\ job \in Jobs
        /\ status' = [status EXCEPT ![job] = "awaiting_approval"]
        /\ plan' = [plan EXCEPT ![job] = PlanOf(job, CurrentDiff)]
        /\ pc' = "poll" /\ job' = NoJob
        /\ UNCHANGED <<history, index, tree>>
      BY <1>3 DEF Prepared, EndRun, git, JobInv
  <2> QED
      BY <2>1, <2>2, <2>3 DEF JobInv, Commits, Statuses
<1>4. CASE NotPrepared
    BY <1>4, JobEnds DEF NotPrepared, git, JobInv
<1>5. CASE Verify
  <2>1. CASE Verified(job)
      BY <1>5, <2>1, JobQuiet DEF Verify, git, JobInv
  <2>2. CASE ~Verified(job)
      BY <1>5, <2>2, JobEnds DEF Verify, git, JobInv
  <2> QED
      BY <2>1, <2>2
<1>6. CASE Issue
    BY <1>6, JobQuiet DEF Issue, git, store, JobInv
<1>7. CASE NotIssued
    BY <1>7, JobEnds DEF NotIssued, git, JobInv
<1>8. CASE Checkout
    BY <1>8, JobQuiet DEF Checkout, store, JobInv
<1>9. CASE Add
    BY <1>9, JobQuiet DEF Add, store, JobInv, Tree
<1>10. CASE Commit
  <2>1. /\ pc = "commit" /\ pc' = "push" /\ job \in Jobs
        /\ UNCHANGED <<index, tree, plan, status, job>>
      BY <1>10 DEF Commit, JobInv, store
  <2>a. /\ Len(history') = Len(history) + 1
        /\ Len(history) \in Nat \ {0}
        /\ \A k \in 1..Len(history) : history'[k] = history[k]
        /\ history'[Len(history')].by = job
      BY <1>10, CommitEffect
  <2>b. 2..Len(history') = (2..Len(history)) \cup {Len(history')}
      BY <2>a
  <2>c. \A k \in 2..Len(history) : history'[k].by = history[k].by
      BY <2>a
  <2>d. job' = job /\ Commits(job) = {}
      BY <2>1 DEF JobInv
  <2>2. \A j \in Jobs : Commits(j)' = Commits(j) \cup (IF j = job THEN {Len(history')} ELSE {})
      BY <2>a, <2>b, <2>c DEF Commits
  <2>3. \A k \in 2..Len(history') : history'[k].by \in Jobs
      BY <2>1, <2>a, <2>b, <2>c DEF JobInv
  <2>4. history' \in Seq([tree : Tree, by : Jobs \cup {NoJob}]) /\ history' # <<>>
      BY <1>10, CommitEffect
  <2>5. \A j \in Jobs :
          /\ status'[j] = "pending" => plan'[j] = NoPlan
          /\ status'[j] \in {"awaiting_approval", "approved"} => plan'[j] # NoPlan
          /\ status'[j] \notin {"running", "done", "failed"} => Commits(j)' = {}
          /\ plan'[j] = NoPlan => Commits(j)' = {}
          /\ \A k, l \in Commits(j)' : k = l
      BY <2>1, <2>2, <2>d DEF JobInv
  <2> QED
      BY <2>1, <2>3, <2>4, <2>5 DEF JobInv
<1>11. CASE Push
    BY <1>11, JobQuiet DEF Push, git, store, JobInv
<1>12. CASE Create
    BY <1>12, JobQuiet DEF Create, git, store, JobInv
<1>13. CASE Check
    BY <1>13, JobQuiet DEF Check, git, store, JobInv
<1>14. CASE StepFails
    BY <1>14, JobQuiet DEF StepFails, Steps, git, store, JobInv
<1>15. CASE Revoke
    BY <1>15, JobEnds DEF Revoke, git, JobInv
<1>16. CASE Crash
    BY <1>16 DEF Crash, git, store, JobInv, Commits
<1>17. ASSUME NEW j \in Jobs, Claim(j) PROVE JobInv'
    BY <1>17 DEF Claim, git, JobInv, Commits, Statuses
<1>18. ASSUME NEW j \in Jobs, Decide(j) PROVE JobInv'
    BY <1>18 DEF Decide, git, JobInv, Commits, Statuses
<1>19. ASSUME NEW j \in Jobs, Merge(j) \/ Expire(j) PROVE JobInv'
    BY <1>19, JobQuiet DEF Merge, Expire, git, store, JobInv
<1>20. ASSUME NEW j \in Jobs, Reclaim(j) PROVE JobInv'
    BY <1>20 DEF Reclaim, git, JobInv, Commits, Statuses
<1>21. CASE UNCHANGED vars
    BY <1>21, JobQuiet DEF vars, git, store, JobInv
<1> QED
    BY <1>1, <1>2, <1>3, <1>4, <1>5, <1>6, <1>7, <1>8, <1>9, <1>10, <1>11,
       <1>12, <1>13, <1>14, <1>15, <1>16, <1>17, <1>18, <1>19, <1>20, <1>21
    DEF Next, PollNothing

LEMMA JobAlways == Spec => []JobInv
  BY InitJob, StepJob, PTL DEF Spec

\* An approval makes at most one commit, and a job that was not approved none,
\* whatever is killed or fails.
THEOREM CommitsOnce == Spec => []OneCommitPerApproval
<1>1. JobInv => OneCommitPerApproval
  <2> SUFFICES ASSUME JobInv PROVE OneCommitPerApproval
      OBVIOUS
  <2>1. \A k \in 2..Len(history) : history[k].by \in Jobs /\ k \in Commits(history[k].by)
      BY DEF JobInv, Commits
  <2>2. ASSUME NEW k \in 2..Len(history)
        PROVE  /\ status[history[k].by] \in {"running", "done", "failed"}
               /\ \A l \in 2..Len(history) : history[k].by = history[l].by => k = l
    <3> DEFINE j == history[k].by
    <3>1. j \in Jobs /\ k \in Commits(j)
        BY <2>1
    <3>2. \A l \in 2..Len(history) : history[k].by = history[l].by => l \in Commits(j)
        BY <2>1
    <3> QED
        BY <3>1, <3>2 DEF JobInv
  <2> QED
      BY <2>2 DEF OneCommitPerApproval
<1> QED
    BY <1>1, JobAlways, PTL

-----------------------------------------------------------------------------
(* What is committed when every prepare is tidy.                           *)

\* Between the verification and the staging the worktree shows the plan, after
\* the staging the index is the working tree, and what the diff does not name is
\* staged at any time: so an index that came through a verification holds the
\* change of the plan and nothing else.
TidyInv ==
    /\ StagedAsShown(tree, index)
    /\ pc \in {"issue", "checkout", "add"} => Verified(job)
    /\ pc = "commit" => index = tree /\ Diff(HEAD, index) = plan[job].diff
    /\ CommitIsApproved

LEMMA TrackedAll ==
    ASSUME NEW t \in Tree, NEW x \in Tree,
           \A p \in Paths : x[p] = Absent => t[p] = Absent
    PROVE  Tracked(t, x) = t
  BY DEF Tracked, Tree

LEMMA InitTidy == Init => TidyInv
<1> SUFFICES ASSUME Init PROVE TidyInv
    OBVIOUS
<1>1. Tracked(tree, index) = tree
    BY PrAssumption, TrackedAll DEF Init
<1> QED
    BY <1>1 DEF Init, TidyInv, StagedAsShown, CommitIsApproved

\* Steps that leave files, commits and plans alone.
LEMMA TidyQuiet ==
    ASSUME TidyInv, UNCHANGED <<history, index, tree, plan>>, 
           pc' \in {"issue", "checkout", "add"} => Verified(job) /\ job' = job,
           pc' # "commit"
    PROVE  TidyInv'
  BY DEF TidyInv, StagedAsShown, HEAD, Verified, Untracked, CurrentDiff, CommitIsApproved

LEMMA StepTidy == TidyPrepare /\ JobInv /\ TidyInv /\ [Next]_vars => TidyInv'
<1> SUFFICES ASSUME TidyPrepare, JobInv, TidyInv, [Next]_vars PROVE TidyInv'
    OBVIOUS
<1>1. CASE Start
    BY <1>1, TidyQuiet DEF Start, git, store
<1>2. CASE Edit
  <2>1. UNCHANGED <<history, plan>> /\ pc' = "edited" /\ StagedAsShown(tree', index')
      BY <1>2 DEF Edit, store
  <2>2. HEAD' = HEAD
      BY <2>1 DEF HEAD
  <2>3. StagedAsShown(tree, index)'
      BY <2>1, <2>2 DEF StagedAsShown
  <2> QED
      BY <2>1, <2>3 DEF TidyInv, CommitIsApproved
<1>3. CASE Prepared
  <2>1. /\ pc = "edited" /\ job \in Jobs /\ pc' = "poll"
        /\ plan' = [plan EXCEPT ![job] = PlanOf(job, CurrentDiff)]
        /\ UNCHANGED <<history, index, tree>>
      BY <1>3 DEF Prepared, EndRun, git, JobInv, PCs
  <2>2. \A k \in 2..Len(history) : plan'[history[k].by] = plan[history[k].by]
      BY <2>1 DEF JobInv, Commits
  <2>3. CommitIsApproved'
      BY <2>1, <2>2 DEF TidyInv, CommitIsApproved
  <2> QED
      BY <2>1, <2>3 DEF TidyInv, StagedAsShown, HEAD
<1>4. CASE NotPrepared
    BY <1>4, TidyQuiet DEF NotPrepared, EndRun, git
<1>5. CASE Verify
    BY <1>5, TidyQuiet DEF Verify, EndRun, git
<1>6. CASE Issue
    BY <1>6, TidyQuiet DEF Issue, git, store, TidyInv
<1>7. CASE NotIssued
    BY <1>7, TidyQuiet DEF NotIssued, EndRun, git
<1>8. CASE Checkout
    BY <1>8, TidyQuiet DEF Checkout, store, TidyInv
<1>9. CASE Add
  <2> DEFINE paths == NamedPaths(plan[job].diff)
  <2>1. /\ pc = "add" /\ pc' = "commit" /\ UNCHANGED <<history, tree, plan, job>>
        /\ index' = [p \in Paths |-> IF p \in paths THEN tree[p] ELSE index[p]]
      BY <1>9 DEF Add, store
  <2>2. tree \in Tree /\ index \in Tree
      BY DEF JobInv
  <2>3. Untracked = {} /\ CurrentDiff = plan[job].diff
      BY <2>1 DEF TidyInv, Verified
  <2>4. Tracked(tree, index) = tree
      BY <2>2, <2>3, TrackedAll DEF Untracked
  <2>5. \A p \in Paths \ paths : index[p] = tree[p]
      BY <2>3, <2>4 DEF TidyInv, StagedAsShown, CurrentDiff
  <2>6. index' = tree
      BY <2>1, <2>2, <2>5 DEF Tree
  <2>7. Tracked(tree, tree) = tree
      BY <2>2, TrackedAll
  <2>8. Diff(HEAD, index)' = plan'[job'].diff
      BY <2>1, <2>3, <2>4, <2>6 DEF CurrentDiff, HEAD
  <2>9. StagedAsShown(tree, index)'
      BY <2>1, <2>6, <2>7 DEF StagedAsShown
  <2> QED
      BY <2>1, <2>6, <2>8, <2>9 DEF TidyInv, CommitIsApproved
<1>10. CASE Commit
  <2>1. /\ pc = "commit" /\ pc' = "push" /\ job \in Jobs
        /\ UNCHANGED <<index, tree, plan>>
      BY <1>10 DEF Commit, JobInv, store, PCs
  <2>2. /\ Len(history') = Len(history) + 1
        /\ Len(history) \in Nat \ {0}
        /\ \A k \in 1..Len(history) : history'[k] = history[k]
        /\ history'[Len(history')] = [tree |-> index, by |-> job]
      BY <1>10, CommitEffect
  <2>3. index = tree /\ Diff(HEAD, index) = plan[job].diff
      BY <2>1 DEF TidyInv
  <2>4. HEAD' = index
      BY <2>2 DEF HEAD
  <2>5. Tracked(tree, tree) = tree
      BY TrackedAll DEF JobInv
  <2>6. StagedAsShown(tree, index)'
      BY <2>1, <2>3, <2>5 DEF StagedAsShown
  <2>7. plan[job] # NoPlan
      BY <2>1 DEF JobInv
  <2>8. ASSUME NEW k \in 2..Len(history')
        PROVE  /\ plan'[history'[k].by] # NoPlan
               /\ Diff(history'[k - 1].tree, history'[k].tree) = plan'[history'[k].by].diff
    <3>1. CASE k \in 2..Len(history)
      <4>1. history'[k] = history[k] /\ history'[k - 1] = history[k - 1]
          BY <3>1, <2>2
      <4> QED
          BY <4>1, <3>1, <2>1 DEF TidyInv, CommitIsApproved
    <3>2. CASE k = Len(history) + 1
      <4>1. history'[k] = [tree |-> index, by |-> job] /\ history'[k - 1] = history[Len(history)]
          BY <3>2, <2>2
      <4> QED
          BY <4>1, <2>1, <2>3, <2>7 DEF HEAD
    <3> QED
        BY <3>1, <3>2, <2>2
  <2>9. CommitIsApproved'
      BY <2>8 DEF CommitIsApproved
  <2> QED
      BY <2>1, <2>6, <2>9 DEF TidyInv
<1>11. CASE Push
    BY <1>11, TidyQuiet DEF Push, git, store
<1>12. CASE Create
    BY <1>12, TidyQuiet DEF Create, git, store
<1>13. CASE Check
    BY <1>13, TidyQuiet DEF Check, git, store
<1>14. CASE StepFails
    BY <1>14, TidyQuiet DEF StepFails, git, store
<1>15. CASE Revoke
    BY <1>15, TidyQuiet DEF Revoke, EndRun, git
<1>16. CASE Crash
    BY <1>16, TidyQuiet DEF Crash, git, store
<1>17. ASSUME NEW j \in Jobs, Claim(j) PROVE TidyInv'
    BY <1>17, TidyQuiet DEF Claim, git
<1>18. ASSUME NEW j \in Jobs, Decide(j) \/ Merge(j) \/ Expire(j) \/ Reclaim(j) PROVE TidyInv'
  <2>1. UNCHANGED <<history, index, tree, plan, pc, job>>
      BY <1>18 DEF Decide, Merge, Expire, Reclaim, git, store
  <2> QED
      BY <2>1 DEF TidyInv, StagedAsShown, HEAD, Verified, Untracked, CurrentDiff, CommitIsApproved
<1>19. CASE UNCHANGED vars
    BY <1>19 DEF vars, git, store, TidyInv, StagedAsShown, HEAD, Verified, Untracked,
                 CurrentDiff, CommitIsApproved
<1> QED
    BY <1>1, <1>2, <1>3, <1>4, <1>5, <1>6, <1>7, <1>8, <1>9, <1>10, <1>11,
       <1>12, <1>13, <1>14, <1>15, <1>16, <1>17, <1>18, <1>19
    DEF Next, PollNothing

\* When prepares are tidy, what is committed is what the approver saw, whatever
\* other jobs did to the shared worktree in between and whatever a killed or
\* failed run left there.
THEOREM CommitsWhatWasApproved ==
    ASSUME TidyPrepare
    PROVE  Spec => []CommitIsApproved
<1>1. JobInv /\ TidyInv /\ [Next]_vars => TidyInv'
    BY StepTidy, TidyPrepare
<1>2. TidyInv => CommitIsApproved
    BY DEF TidyInv
<1> QED
    BY <1>1, <1>2, InitTidy, JobAlways, PTL DEF Spec

-----------------------------------------------------------------------------
(* What is committed however a prepare left the worktree.                  *)

\* A file that the plan names is committed as the approver saw it, from what it was
\* to what it becomes.  Only other files can ride along.
NamedIsApproved ==
    \A k \in 2..Len(history) :
        LET j == history[k].by
        IN  /\ plan[j] # NoPlan
            /\ \A p \in NamedPaths(plan[j].diff) :
                  <<history[k - 1].tree[p], history[k].tree[p]>> = plan[j].diff[p]

\* The worktree shows the plan until its files are staged; then they are staged as
\* they were shown.
NamedInv ==
    /\ pc \in {"issue", "checkout", "add"} => Verified(job)
    /\ pc = "commit" =>
          \A p \in NamedPaths(plan[job].diff) : <<HEAD[p], index[p]>> = plan[job].diff[p]
    /\ NamedIsApproved

LEMMA InitNamed == Init => NamedInv
  BY DEF Init, NamedInv, NamedIsApproved

\* Steps that leave files, commits and plans alone.
LEMMA NamedQuiet ==
    ASSUME NamedInv, UNCHANGED <<history, index, tree, plan>>,
           pc' \in {"issue", "checkout", "add"} => Verified(job) /\ job' = job,
           pc' # "commit"
    PROVE  NamedInv'
  BY DEF NamedInv, HEAD, Verified, Untracked, CurrentDiff, NamedIsApproved

LEMMA StepNamed == JobInv /\ NamedInv /\ [Next]_vars => NamedInv'
<1> SUFFICES ASSUME JobInv, NamedInv, [Next]_vars PROVE NamedInv'
    OBVIOUS
<1>1. CASE Start
    BY <1>1, NamedQuiet DEF Start, git, store
<1>2. CASE Edit
    BY <1>2 DEF Edit, store, NamedInv, NamedIsApproved
<1>3. CASE Prepared
  <2>1. /\ pc = "edited" /\ job \in Jobs /\ pc' = "poll"
        /\ plan' = [plan EXCEPT ![job] = PlanOf(job, CurrentDiff)]
        /\ UNCHANGED <<history, index, tree>>
      BY <1>3 DEF Prepared, EndRun, git, JobInv, PCs
  <2>2. \A k \in 2..Len(history) : plan'[history[k].by] = plan[history[k].by]
      BY <2>1 DEF JobInv, Commits
  <2>3. ASSUME NEW k \in 2..Len(history), NEW p \in NamedPaths(plan'[history[k].by].diff)
        PROVE  <<history[k - 1].tree[p], history[k].tree[p]>>
               = plan'[history[k].by].diff[p]
    <3>1. plan'[history[k].by] = plan[history[k].by]
        BY <2>2
    <3> QED
        BY <3>1 DEF NamedInv, NamedIsApproved
  <2>4. \A k \in 2..Len(history) : plan'[history[k].by] # NoPlan
    <3> SUFFICES ASSUME NEW k \in 2..Len(history) PROVE plan'[history[k].by] # NoPlan
        OBVIOUS
    <3>1. plan'[history[k].by] = plan[history[k].by]
        BY <2>2
    <3> QED
        BY <3>1 DEF NamedInv, NamedIsApproved
  <2>5. NamedIsApproved'
    <3>1. history' = history
        BY <2>1
    <3> QED
        BY <3>1, <2>3, <2>4 DEF NamedIsApproved
  <2> QED
      BY <2>1, <2>5 DEF NamedInv
<1>4. CASE NotPrepared
    BY <1>4, NamedQuiet DEF NotPrepared, EndRun, git
<1>5. CASE Verify
    BY <1>5, NamedQuiet DEF Verify, EndRun, git
<1>6. CASE Issue
    BY <1>6, NamedQuiet DEF Issue, git, store, NamedInv
<1>7. CASE NotIssued
    BY <1>7, NamedQuiet DEF NotIssued, EndRun, git
<1>8. CASE Checkout
    BY <1>8, NamedQuiet DEF Checkout, store, NamedInv
<1>9. CASE Add
  <2> DEFINE paths == NamedPaths(plan[job].diff)
  <2>1. /\ pc = "add" /\ pc' = "commit" /\ UNCHANGED <<history, tree, plan, job>>
        /\ index' = [p \in Paths |-> IF p \in paths THEN tree[p] ELSE index[p]]
      BY <1>9 DEF Add, store
  <2>2. tree \in Tree /\ index \in Tree
      BY DEF JobInv
  <2>3. Untracked = {} /\ CurrentDiff = plan[job].diff
      BY <2>1 DEF NamedInv, Verified
  <2>4. Tracked(tree, index) = tree
      BY <2>2, <2>3, TrackedAll DEF Untracked
  <2>5. \A p \in paths : p \in Paths /\ plan[job].diff[p] = <<HEAD[p], tree[p]>>
      BY <2>3, <2>4 DEF CurrentDiff, Diff, Changed, NamedPaths
  <2>6. \A p \in paths : index'[p] = tree[p]
      BY <2>1, <2>5
  <2>7. HEAD' = HEAD
      BY <2>1 DEF HEAD
  <2>8. \A p \in NamedPaths(plan'[job'].diff) : <<HEAD'[p], index'[p]>> = plan'[job'].diff[p]
      BY <2>1, <2>5, <2>6, <2>7
  <2> QED
      BY <2>1, <2>8 DEF NamedInv, NamedIsApproved
<1>10. CASE Commit
  <2>1. /\ pc = "commit" /\ pc' = "push" /\ job \in Jobs
        /\ UNCHANGED <<index, tree, plan>>
      BY <1>10 DEF Commit, JobInv, store, PCs
  <2>2. /\ Len(history') = Len(history) + 1
        /\ Len(history) \in Nat \ {0}
        /\ \A k \in 1..Len(history) : history'[k] = history[k]
        /\ history'[Len(history')] = [tree |-> index, by |-> job]
      BY <1>10, CommitEffect
  <2>3. \A p \in NamedPaths(plan[job].diff) : <<HEAD[p], index[p]>> = plan[job].diff[p]
      BY <2>1 DEF NamedInv
  <2>4. plan[job] # NoPlan
      BY <2>1 DEF JobInv
  <2>5. ASSUME NEW k \in 2..Len(history')
        PROVE  /\ plan'[history'[k].by] # NoPlan
               /\ \A p \in NamedPaths(plan'[history'[k].by].diff) :
                     <<history'[k - 1].tree[p], history'[k].tree[p]>> = plan'[history'[k].by].diff[p]
    <3>1. CASE k \in 2..Len(history)
      <4>1. history'[k] = history[k] /\ history'[k - 1] = history[k - 1]
          BY <3>1, <2>2
      <4> QED
          BY <4>1, <3>1, <2>1 DEF NamedInv, NamedIsApproved
    <3>2. CASE k = Len(history) + 1
      <4>1. history'[k] = [tree |-> index, by |-> job] /\ history'[k - 1] = history[Len(history)]
          BY <3>2, <2>2
      <4> QED
          BY <4>1, <2>1, <2>3, <2>4 DEF HEAD
    <3> QED
        BY <3>1, <3>2, <2>2
  <2>6. NamedIsApproved'
      BY <2>5 DEF NamedIsApproved
  <2> QED
      BY <2>1, <2>6 DEF NamedInv
<1>11. CASE Push
    BY <1>11, NamedQuiet DEF Push, git, store
<1>12. CASE Create
    BY <1>12, NamedQuiet DEF Create, git, store
<1>13. CASE Check
    BY <1>13, NamedQuiet DEF Check, git, store
<1>14. CASE StepFails
    BY <1>14, NamedQuiet DEF StepFails, git, store
<1>15. CASE Revoke
    BY <1>15, NamedQuiet DEF Revoke, EndRun, git
<1>16. CASE Crash
    BY <1>16, NamedQuiet DEF Crash, git, store
<1>17. ASSUME NEW j \in Jobs, Claim(j) PROVE NamedInv'
    BY <1>17, NamedQuiet DEF Claim, git
<1>18. ASSUME NEW j \in Jobs, Decide(j) \/ Merge(j) \/ Expire(j) \/ Reclaim(j) PROVE NamedInv'
  <2>1. UNCHANGED <<history, index, tree, plan, pc, job>>
      BY <1>18 DEF Decide, Merge, Expire, Reclaim, git, store
  <2> QED
      BY <2>1 DEF NamedInv, HEAD, Verified, Untracked, CurrentDiff, NamedIsApproved
<1>19. CASE UNCHANGED vars
    BY <1>19 DEF vars, git, store, NamedInv, HEAD, Verified, Untracked,
                 CurrentDiff, NamedIsApproved
<1> QED
    BY <1>1, <1>2, <1>3, <1>4, <1>5, <1>6, <1>7, <1>8, <1>9, <1>10, <1>11,
       <1>12, <1>13, <1>14, <1>15, <1>16, <1>17, <1>18, <1>19
    DEF Next, PollNothing

\* Without any assumption on how a prepare leaves the index, every file that the
\* plan names is committed exactly as approved, whatever other jobs did to the shared
\* worktree in between (pr_execution.py:112: the comment says that nothing else can
\* ride along, which holds only for tidy prepares).
THEOREM NamedFilesAsApproved == Spec => []NamedIsApproved
<1>1. NamedInv => NamedIsApproved
    BY DEF NamedInv
<1> QED
    BY <1>1, InitNamed, StepNamed, JobAlways, PTL DEF Spec

-----------------------------------------------------------------------------
(* The rest of the state.                                                  *)

\* The pull requests refer to commits that exist, and what is reported was
\* pushed.  A credential goes astray only while it works, and a job that left one
\* behind is never in hand again.
RemoteInv ==
    /\ branches \subseteq {plan[j] : j \in Jobs} \ {NoPlan}
    /\ merged \in 1..Len(history)
    /\ opened \in [Jobs -> {<<>>} \cup [commit : 1..Len(history), base : 1..Len(history)]]
    /\ pushed \subseteq Jobs
    /\ pc \in {"create", "check"} => job \in pushed
    /\ reported \subseteq pushed
    /\ live \subseteq Jobs
    /\ astray \subseteq live
    /\ \A j \in astray : j # job /\ status[j] \in {"running", "done", "failed"}
    /\ touched \in Jobs \cup {NoJob}
    /\ crashes \in 0..MaxCrashes

LEMMA InitRemote == Init => RemoteInv
<1> SUFFICES ASSUME Init PROVE RemoteInv
    OBVIOUS
<1>1. Len(history) = 1
    BY DEF Init
<1> QED
    BY <1>1, PrAssumption DEF Init, RemoteInv

\* Steps that touch neither the remote nor branches, commits and plans.
LEMMA RemoteQuiet ==
    ASSUME RemoteInv, UNCHANGED <<history, branches, plan, merged, opened, pushed, reported, crashes>>,
           touched' \in Jobs \cup {NoJob}, live' \subseteq Jobs, astray' \subseteq live',
           \A j \in astray' : j # job' /\ status'[j] \in {"running", "done", "failed"},
           pc' \notin {"create", "check"}
    PROVE  RemoteInv'
  BY DEF RemoteInv

LEMMA StepRemote == JobInv /\ RemoteInv /\ [Next]_vars => RemoteInv'
<1> SUFFICES ASSUME JobInv, RemoteInv, [Next]_vars PROVE RemoteInv'
    OBVIOUS
<1>0. /\ job = NoJob <=> pc \in {"down", "poll"}
      /\ job \in Jobs \cup {NoJob} /\ NoJob \notin Jobs
      /\ job # NoJob => status[job] = "running"
      /\ status \in [Jobs -> Statuses]
      /\ live \subseteq Jobs /\ astray \subseteq live /\ touched \in Jobs \cup {NoJob}
      /\ \A j \in astray : j # job /\ status[j] \in {"running", "done", "failed"}
    BY PrAssumption DEF JobInv, RemoteInv, PrAssumption
<1>a. ASSUME NEW s \in Statuses, EndRun(s), job # NoJob
      PROVE  /\ pc' = "poll"
             /\ \A j \in astray : j # job' /\ status'[j] \in {"running", "done", "failed"}
    BY <1>0, <1>a DEF EndRun
<1>1. CASE Start \/ Edit \/ NotPrepared \/ Verify \/ Issue \/ NotIssued \/ Add \/ StepFails \/ Revoke
  <2>1. CASE Start \/ StepFails
      BY <1>0, <2>1, RemoteQuiet DEF Start, StepFails, git, store, remote, creds
  <2>2. CASE NotPrepared \/ NotIssued
      BY <1>0, <1>a, <2>2, RemoteQuiet DEF NotPrepared, NotIssued, Statuses, git, remote, creds
  <2>3. CASE Verify
      BY <1>0, <1>a, <2>3, RemoteQuiet DEF Verify, Statuses, git, remote, creds
  <2>4. CASE Edit \/ Add
      BY <1>0, <2>4, RemoteQuiet DEF Edit, Add, store, remote, creds
  <2>5. CASE Issue
      BY <1>0, <2>5, RemoteQuiet DEF Issue, git, store, remote
  <2>6. CASE Revoke
    <3>1. /\ pc = "revoke" /\ UNCHANGED <<git, plan, remote, crashes>>
          /\ \/ live' = live \ {job} /\ UNCHANGED astray
             \/ UNCHANGED live /\ astray' = astray \cup ({job} \cap live)
        BY <2>6 DEF Revoke
    <3>2. PICK s \in {"done", "failed"} : EndRun(s)
        BY <2>6 DEF Revoke
    <3>3. /\ pc' = "poll" /\ job \in Jobs /\ job' = NoJob
          /\ \A j \in astray \cup {job} : status'[j] \in {"running", "done", "failed"}
        BY <1>0, <3>1, <3>2 DEF EndRun
    <3>4. /\ live' \subseteq Jobs /\ astray' \subseteq live'
          /\ \A j \in astray' : j # job' /\ status'[j] \in {"running", "done", "failed"}
        BY <1>0, <3>1, <3>3
    <3> QED
        BY <1>0, <3>1, <3>3, <3>4, RemoteQuiet DEF git, remote
  <2> QED
      BY <1>1, <2>1, <2>2, <2>3, <2>4, <2>5, <2>6
<1>2. CASE Prepared
  <2>1. /\ pc = "edited" /\ job \in Jobs /\ pc' = "poll"
        /\ plan' = [plan EXCEPT ![job] = PlanOf(job, CurrentDiff)]
        /\ UNCHANGED <<git, remote, creds, crashes>>
      BY <1>2 DEF Prepared, EndRun, JobInv
  <2>2. plan[job] = NoPlan /\ plan \in [Jobs -> Plans \cup {NoPlan}]
      BY <2>1 DEF JobInv
  <2>3. ASSUME NEW b \in branches PROVE b \in {plan'[j] : j \in Jobs} \ {NoPlan}
    <3>1. PICK j \in Jobs : b = plan[j] /\ b # NoPlan
        BY <2>3 DEF RemoteInv
    <3> QED
        BY <2>1, <2>2, <3>1
  <2> QED
      BY <1>0, <1>a, <1>2, <2>1, <2>3 DEF Prepared, Statuses, RemoteInv, git, remote, creds
<1>3. CASE Checkout
    BY <1>3, <1>0 DEF Checkout, RemoteInv, JobInv, store, remote, creds
<1>4. CASE Commit
  <2>1. Len(history') = Len(history) + 1 /\ Len(history) \in Nat
      BY <1>4, CommitEffect
  <2>2. 1..Len(history) \subseteq 1..Len(history')
      BY <2>1
  <2> QED
      BY <1>4, <1>0, <2>2 DEF Commit, RemoteInv, store, remote, creds
<1>5. CASE Push
    BY <1>5, <1>0 DEF Push, RemoteInv, git, store, creds
<1>6. CASE Create
  <2>1. Len(history) \in 1..Len(history) /\ job \in Jobs
      BY <1>0, <1>6, EmptySeq DEF Create, JobInv
  <2>2. [commit |-> Len(history), base |-> merged] \in [commit : 1..Len(history), base : 1..Len(history)]
      BY <2>1 DEF RemoteInv
  <2> QED
      BY <1>6, <2>1, <2>2 DEF Create, RemoteInv, git, store, creds
<1>7. CASE Check
    BY <1>7 DEF Check, RemoteInv, git, store, creds
<1>8. CASE Crash
    BY <1>0, <1>8, PrAssumption DEF Crash, RemoteInv, PrAssumption, git, store, remote
<1>9. ASSUME NEW j \in Jobs, Claim(j) \/ Decide(j) \/ Expire(j) \/ Reclaim(j) PROVE RemoteInv'
    BY <1>0, <1>9 DEF Claim, Decide, Expire, Reclaim, RemoteInv, git, store, remote, creds
<1>10. ASSUME NEW j \in Jobs, Merge(j) PROVE RemoteInv'
  <2> DEFINE Pr == [commit : 1..Len(history), base : 1..Len(history)]
  <2>1. opened[j] \in Pr
      BY <1>10 DEF Merge, RemoteInv
  <2>2. ASSUME NEW k \in Jobs, opened[k] # <<>>
        PROVE  [opened[k] EXCEPT !.base = opened[j].commit] \in Pr
      BY <2>1, <2>2 DEF RemoteInv
  <2>3. opened' = [k \in Jobs |->
                     IF opened[k] # <<>> /\ opened[k].commit > opened[j].commit
                        THEN [opened[k] EXCEPT !.base = opened[j].commit] ELSE opened[k]]
      BY <1>10 DEF Merge
  <2>4. opened' \in [Jobs -> {<<>>} \cup Pr]
      BY <2>2, <2>3 DEF RemoteInv
  <2>5. merged' = opened[j].commit /\ UNCHANGED <<git, store, pushed, reported, creds, pc, job, crashes>>
      BY <1>10 DEF Merge
  <2> QED
      BY <2>1, <2>4, <2>5 DEF RemoteInv, git, store, creds
<1>11. CASE UNCHANGED vars
    BY <1>11 DEF vars, git, store, remote, creds, RemoteInv
<1> QED
    BY <1>1, <1>2, <1>3, <1>4, <1>5, <1>6, <1>7, <1>8, <1>9, <1>10, <1>11 DEF Next, PollNothing

\* Type correctness: a branch belongs to a plan, a pull request to commits that
\* exist, and a job is in hand exactly while the worker does something for it.
THEOREM TypeCorrect == Spec => []TypeOK
<1>1. JobInv /\ RemoteInv => TypeOK
  <2> SUFFICES ASSUME JobInv, RemoteInv PROVE TypeOK
      OBVIOUS
  <2>1. \A j \in Jobs : opened[j] # <<>> =>
          opened[j].commit \in 1..Len(history) /\ opened[j].base \in 1..Len(history)
      BY DEF RemoteInv
  <2> QED
      BY <2>1 DEF TypeOK, JobInv, RemoteInv
<1> QED
    BY <1>1, InitRemote, StepRemote, JobAlways, PTL DEF Spec

-----------------------------------------------------------------------------
(* The credential.                                                         *)

\* A credential that works outlives its step only when the worker was killed or
\* the revocation failed: every other way out of the step goes through it.
THEOREM CredentialIsBounded == Spec => []CredentialEndsWithTheStep
<1>1. Init => CredentialEndsWithTheStep
    BY DEF Init, CredentialEndsWithTheStep
<1>2. CredentialEndsWithTheStep /\ [Next]_vars => CredentialEndsWithTheStep'
  <2> SUFFICES ASSUME CredentialEndsWithTheStep, [Next]_vars PROVE CredentialEndsWithTheStep'
      OBVIOUS
  <2> USE DEF CredentialEndsWithTheStep, Steps
  <2>1. CASE Start \/ Edit \/ Prepared \/ NotPrepared \/ Verify \/ NotIssued
      BY <2>1 DEF Start, Edit, Prepared, NotPrepared, Verify, NotIssued, EndRun, creds
  <2>2. CASE Issue
      BY <2>2 DEF Issue
  <2>3. CASE Checkout \/ Add \/ Commit \/ Push \/ Create \/ Check \/ StepFails
      BY <2>3 DEF Checkout, Add, Commit, Push, Create, Check, StepFails, creds
  <2>4. CASE Revoke
      BY <2>4 DEF Revoke
  <2>5. CASE Crash
      BY <2>5 DEF Crash
  <2>6. ASSUME NEW j \in Jobs, Claim(j) \/ Decide(j) \/ Merge(j) \/ Expire(j) \/ Reclaim(j)
        PROVE  CredentialEndsWithTheStep'
      BY <2>6 DEF Claim, Decide, Merge, Expire, Reclaim, creds
  <2>7. CASE UNCHANGED vars
      BY <2>7 DEF vars, creds
  <2> QED
      BY <2>1, <2>2, <2>3, <2>4, <2>5, <2>6, <2>7 DEF Next, PollNothing
<1> QED
    BY <1>1, <1>2, PTL DEF Spec

-----------------------------------------------------------------------------
(* An approval whose worktree nobody touched.                              *)

\* Until it stages, an execution that was verified has no untracked file, so the
\* staging changes nothing that a diff shows.
FreshInv == /\ pc \in {"issue", "checkout", "add"} => Untracked = {}
            /\ FreshApprovalHolds

LEMMA InitFresh == Init => FreshInv
  BY DEF Init, FreshInv, FreshApprovalHolds

\* Steps after which no further job waits with its own edits.
LEMMA FreshQuiet ==
    ASSUME FreshInv, UNCHANGED <<history, index, tree, touched, plan>>,
           \A j \in Jobs : status'[j] \in {"awaiting_approval", "approved"} =>
                              status[j] \in {"awaiting_approval", "approved"},
           pc' \in {"issue", "checkout", "add"} => Untracked = {}
    PROVE  FreshInv'
<1>1. UNCHANGED <<CurrentDiff, Untracked>>
    BY DEF CurrentDiff, HEAD, Untracked
<1> QED
    BY <1>1 DEF FreshInv, FreshApprovalHolds

\* Steps that change files or commits for the job in hand, which does not wait.
LEMMA FreshTouched ==
    ASSUME JobInv, FreshInv, job \in Jobs, UNCHANGED <<status, plan>>, touched' = job,
           pc' \notin {"issue", "checkout", "add"}
    PROVE  FreshInv'
<1>1. status'[job] = "running"
    BY PrAssumption DEF JobInv, PrAssumption
<1> QED
    BY <1>1 DEF FreshInv, FreshApprovalHolds

LEMMA StepFresh == JobInv /\ FreshInv /\ [Next]_vars => FreshInv'
<1> SUFFICES ASSUME JobInv, FreshInv, [Next]_vars PROVE FreshInv'
    OBVIOUS
<1>0. pc \notin {"down", "poll"} => job \in Jobs
    BY DEF JobInv
<1>1. CASE Start \/ Push \/ Create \/ Check \/ StepFails \/ Crash
    BY <1>1, FreshQuiet DEF Start, Push, Create, Check, StepFails, Crash, git, store
<1>2. CASE Issue \/ Checkout
    BY <1>2, FreshQuiet DEF Issue, Checkout, FreshInv, git, store
<1>3. CASE NotPrepared \/ NotIssued \/ Revoke
    BY <1>3, <1>0, FreshQuiet DEF NotPrepared, NotIssued, Revoke, EndRun, JobInv, git
<1>4. CASE Verify
  <2>1. CASE Verified(job)
      BY <1>4, <2>1, FreshQuiet DEF Verify, Verified, git
  <2>2. CASE ~Verified(job)
      BY <1>4, <1>0, <2>2, FreshQuiet DEF Verify, EndRun, JobInv, git
  <2> QED
      BY <2>1, <2>2
<1>5. CASE Edit
    BY <1>5, <1>0, FreshTouched DEF Edit, store
<1>6. CASE Commit
    BY <1>6, <1>0, FreshTouched DEF Commit, store
<1>7. CASE Prepared
  <2>1. /\ job \in Jobs /\ pc' = "poll"
        /\ status' = [status EXCEPT ![job] = "awaiting_approval"]
        /\ plan' = [plan EXCEPT ![job] = PlanOf(job, CurrentDiff)]
        /\ UNCHANGED <<history, index, tree, touched>>
      BY <1>7, <1>0 DEF Prepared, EndRun, git
  <2>2. CurrentDiff' = CurrentDiff
      BY <2>1 DEF CurrentDiff, HEAD
  <2>3. plan'[job].diff = CurrentDiff
      BY <2>1 DEF PlanOf, JobInv
  <2>4. \A j \in Jobs \ {job} : plan'[j] = plan[j] /\ status'[j] = status[j]
      BY <2>1 DEF JobInv
  <2> QED
      BY <2>1, <2>2, <2>3, <2>4 DEF FreshInv, FreshApprovalHolds
<1>8. CASE Add
  <2>1. /\ pc = "add" /\ pc' = "commit"
        /\ index' = [p \in Paths |-> IF p \in NamedPaths(plan[job].diff) THEN tree[p] ELSE index[p]]
        /\ UNCHANGED <<history, tree, touched, status, plan>>
      BY <1>8 DEF Add, store
  <2>2. \A p \in Paths : index[p] = Absent => tree[p] = Absent
      BY <2>1 DEF FreshInv, Untracked
  <2>3. ASSUME NEW p \in Paths
        PROVE  (IF index'[p] = Absent THEN Absent ELSE tree[p])
                  = (IF index[p] = Absent THEN Absent ELSE tree[p])
      BY <2>1, <2>2
  <2>4. Tracked(tree, index)' = Tracked(tree, index)
      BY <2>1, <2>3 DEF Tracked
  <2>5. CurrentDiff' = CurrentDiff
      BY <2>1, <2>4 DEF CurrentDiff, HEAD
  <2> QED
      BY <2>1, <2>5 DEF FreshInv, FreshApprovalHolds
<1>9. ASSUME NEW j \in Jobs, Claim(j) \/ Decide(j) \/ Reclaim(j) PROVE FreshInv'
    BY <1>9, FreshQuiet DEF Claim, Decide, Reclaim, FreshInv, JobInv, git
<1>10. ASSUME NEW j \in Jobs, Merge(j) \/ Expire(j) PROVE FreshInv'
    BY <1>10, FreshQuiet DEF Merge, Expire, FreshInv, git, store
<1>11. CASE UNCHANGED vars
    BY <1>11, FreshQuiet DEF vars, git, store, FreshInv
<1> QED
    BY <1>1, <1>2, <1>3, <1>4, <1>5, <1>6, <1>7, <1>8, <1>9, <1>10, <1>11 DEF Next, PollNothing

\* An approval is not refused for its diff when no other job touched the worktree
\* since the prepare, tidy prepares or not.
THEOREM FreshIsAccepted == Spec => []FreshApprovalHolds
<1>1. FreshInv => FreshApprovalHolds
    BY DEF FreshInv
<1> QED
    BY <1>1, InitFresh, StepFresh, JobAlways, PTL DEF Spec

-----------------------------------------------------------------------------
(* The job store that the model keeps for itself.                          *)

\* The one worker executes the job in hand, until it is killed.
Holder == [j \in Jobs |-> IF j = job THEN "worker" ELSE "nobody"]

Lifecycle == INSTANCE JobLifecycle WITH Workers <- {"worker"}, NoWorker <- "nobody",
                                        holder <- Holder

\* Whatever becomes of a change, its job moves as the store promises.
MovesAsPromised == [][Lifecycle!Next]_(Lifecycle!vars)

LEMMA HandsOver ==
  ASSUME JobInv, NEW j \in Jobs, job = NoJob, job' = j
  PROVE  /\ \A k \in Jobs : Holder[k] # "worker"
         /\ Holder' = [Holder EXCEPT ![j] = "worker"]
  BY PrAssumption DEF PrAssumption, Holder

LEMMA LetsGo ==
  ASSUME JobInv, job \in Jobs, job' = NoJob
  PROVE  Holder[job] = "worker" /\ Holder' = [Holder EXCEPT ![job] = "nobody"]
  BY PrAssumption DEF PrAssumption, Holder

LEMMA EndRunReleases ==
  ASSUME JobInv, job \in Jobs, NEW s \in {"awaiting_approval", "done", "failed"}, EndRun(s)
  PROVE  Lifecycle!Next
<1>1. Lifecycle!Release("worker", job)
    BY LetsGo DEF EndRun, Lifecycle!Release
<1> QED
    BY <1>1 DEF Lifecycle!Next

LEMMA StepMoves == JobInv /\ [Next]_vars => [Lifecycle!Next]_(Lifecycle!vars)
<1> SUFFICES ASSUME JobInv, [Next]_vars, ~UNCHANGED Lifecycle!vars
             PROVE  Lifecycle!Next
    OBVIOUS
<1>h. UNCHANGED job => UNCHANGED Holder
    BY DEF Holder
<1>j. job \in Jobs \/ pc \in {"down", "poll"}
    BY DEF JobInv
<1>1. CASE \/ Start \/ PollNothing \/ Edit \/ Issue \/ Checkout \/ Add \/ Commit
           \/ Push \/ Create \/ Check \/ StepFails \/ UNCHANGED vars
  <2>1. UNCHANGED <<status, job>>
      BY <1>1 DEF Start, PollNothing, Edit, Issue, Checkout, Add, Commit, Push, Create,
                  Check, StepFails, vars, store
  <2> QED
      BY <2>1, <1>h DEF Lifecycle!vars
<1>2. CASE Prepared
    BY <1>2, <1>j, EndRunReleases DEF Prepared
<1>3. CASE NotPrepared
    BY <1>3, <1>j, EndRunReleases DEF NotPrepared
<1>4. CASE Verify
  <2>1. CASE Verified(job)
      BY <1>4, <2>1, <1>h DEF Verify, Lifecycle!vars
  <2>2. CASE ~Verified(job)
      BY <1>4, <2>2, <1>j, EndRunReleases DEF Verify
  <2> QED
      BY <2>1, <2>2
<1>5. CASE NotIssued
    BY <1>5, <1>j, EndRunReleases DEF NotIssued
<1>6. CASE Revoke
    BY <1>6, <1>j, EndRunReleases DEF Revoke
<1>7. CASE Crash
  <2>1. job' = NoJob /\ UNCHANGED status
      BY <1>7 DEF Crash, store
  <2>2. job \in Jobs
      BY <2>1, <1>h DEF JobInv, Lifecycle!vars
  <2>3. Lifecycle!Interrupt("worker", job)
      BY <2>1, <2>2, LetsGo DEF Lifecycle!Interrupt
  <2> QED
      BY <2>2, <2>3 DEF Lifecycle!Next
<1>8. ASSUME NEW j \in Jobs, Claim(j) PROVE Lifecycle!Next
  <2>1. job = NoJob /\ job' = j /\ status[j] \in Lifecycle!Claimable
      BY <1>8 DEF Claim, JobInv, Lifecycle!Claimable
  <2>2. Lifecycle!Claim("worker", j)
      BY <1>8, <2>1, HandsOver DEF Claim, Lifecycle!Claim
  <2> QED
      BY <2>2 DEF Lifecycle!Next
<1>9. ASSUME NEW j \in Jobs, Decide(j) PROVE Lifecycle!Next
    BY <1>9, <1>h DEF Decide, Lifecycle!Decide, Lifecycle!Next
<1>10. ASSUME NEW j \in Jobs, Reclaim(j) PROVE Lifecycle!Next
  <2>1. Holder[j] = "nobody"
      BY <1>10, PrAssumption DEF PrAssumption, Reclaim, JobInv, Holder
  <2>2. Lifecycle!Reclaim(j)
      BY <1>10, <1>h, <2>1 DEF Reclaim, Lifecycle!Reclaim
  <2> QED
      BY <2>2 DEF Lifecycle!Next
<1>11. ASSUME NEW j \in Jobs, Merge(j) \/ Expire(j) PROVE Lifecycle!Next
    BY <1>11, <1>h DEF Merge, Expire, store, Lifecycle!vars
<1> QED
    BY <1>1, <1>2, <1>3, <1>4, <1>5, <1>6, <1>7, <1>8, <1>9, <1>10, <1>11 DEF Next

\* Prepares, approvals, executions, kills and sweeps move a pr job only as the job
\* store promises, one worker holding it, although the credential, the git steps
\* and the status are written one after the other (base.py:127, worker.py:629).
THEOREM PrMovesAsPromised == Spec => MovesAsPromised
  BY StepMoves, JobAlways, PTL DEF Spec, MovesAsPromised
=============================================================================
