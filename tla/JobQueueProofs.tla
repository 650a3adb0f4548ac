--------------------------- MODULE JobQueueProofs ---------------------------
(***************************************************************************)
(* JobQueue for every number of jobs, workers, approvers and crashes: the  *)
(* safety properties, first without any assumption on how long executions  *)
(* take, then, for timely executions, that a reclaim never takes a job     *)
(* from the worker that executes it and that the store implements          *)
(* JobLifecycle.                                                           *)
(***************************************************************************)
EXTENDS JobQueue, TLAPS

\* What one execution leaves behind.  A job that a worker executes is running
\* or was failed under it; nobody has decided about a job that has not left
\* the gate; an executed job was approved, and is running or has ended, so it
\* is never claimed again.
ExecutionInv ==
    /\ \A w \in Workers : cur[w] # 0 => status[cur[w]] \in {"running", "failed"}
    /\ \A j \in Jobs : status[j] \in {"absent", "pending", "awaiting_approval"}
                          => approvedBy[j] = NoOne
    /\ \A j \in Jobs : status[j] \in {"approved", "rejected"}
                          => approvedBy[j] # NoOne /\ executed[j] = 0
    /\ \A j \in Jobs : executed[j] # 0
                          => /\ approvedBy[j] # NoOne
                             /\ status[j] \in {"running", "done", "failed"}

SafetyInv == /\ TypeOK
             /\ NoDoubleRun
             /\ ExecutionInv
             /\ AtMostOneExecution
             /\ DoneWasApproved

\* The state a step may start from.
LEMMA InitSafety == Init => SafetyInv
  BY QueueAssumption
  DEF QueueAssumption, Init, SafetyInv, TypeOK, NoDoubleRun, ExecutionInv,
      AtMostOneExecution, DoneWasApproved, Statuses, PCs, Jobs

\* A query returns jobs.
LEMMA OldestIn == \A S : \A n : Oldest(S, n) \subseteq S
  BY DEF Oldest

\* Every state is well typed after a step.
LEMMA TypeStep == TypeOK /\ [Next]_vars => TypeOK'
  <1> SUFFICES ASSUME TypeOK, [Next]_vars
               PROVE  TypeOK'
    OBVIOUS
  <1> USE QueueAssumption
      DEF QueueAssumption, TypeOK, Jobs, SetStatus, StillIn,
          Goto, LetGo, storeVars, workerVars
  <1>1. ASSUME NEW j \in Jobs, Enqueue(j) PROVE TypeOK'
    BY <1>1 DEF Enqueue, Statuses
  <1>2. ASSUME NEW a \in Approvers, NEW j \in Jobs, Approve(a, j) \/ Reject(a, j)
        PROVE TypeOK'
    <2>1. CASE Approve(a, j)
      BY <2>1 DEF Approve, Statuses
    <2>2. CASE Reject(a, j)
      BY <2>2 DEF Reject, Statuses
    <2>3. QED
      BY <1>2, <2>1, <2>2
  <1>3. ASSUME NEW j \in Jobs, Age(j) PROVE TypeOK'
    BY <1>3 DEF Age
  <1>4. ASSUME NEW w \in Workers, WorkerStep(w) PROVE TypeOK'
    <2>1. CASE Start(w) \/ ClaimNothing(w) \/ ReclaimEnds(w)
      BY <2>1 DEF Start, ClaimNothing, ReclaimEnds, PCs
    <2>2. CASE QueryApproved(w) \/ QueryPending(w)
      <3>1. \A s \in Statuses : Oldest(InStatus(s), ScanLimit) \subseteq Jobs
        BY OldestIn DEF InStatus
      <3>2. CASE QueryApproved(w)
        BY <3>1, <3>2 DEF QueryApproved, Statuses, PCs
      <3>3. CASE QueryPending(w)
        BY <3>1, <3>3 DEF QueryPending, Statuses, PCs
      <3>4. QED
        BY <2>2, <3>2, <3>3
    <2>3. CASE QueryStale(w)
      BY <2>3 DEF QueryStale, Overdue, InStatus, PCs
    <2>4. ASSUME NEW j \in Jobs, ClaimWins(w, j) PROVE TypeOK'
      BY <2>4 DEF ClaimWins, IsNext, Statuses, PCs
    <2>5. ASSUME NEW j \in Jobs, ClaimLoses(w, j) \/ Reclaim(w, j) PROVE TypeOK'
      BY <2>5 DEF ClaimLoses, Reclaim, Reclaimed, IsNext, Statuses, PCs
    <2>6. CASE Finish(w)
      <3>1. cur[w] \in Jobs
        BY <2>6 DEF Finish
      <3>2. status' \in [Jobs -> Statuses] /\ stale' \subseteq Jobs
        <4>1. CASE status[cur[w]] = "running"
          <5>1. PICK s \in Outcomes(cur[w]) : SetStatus(cur[w], s)
            BY <2>6, <4>1 DEF Finish
          <5>2. s \in Statuses
            BY DEF Outcomes, Statuses
          <5>3. QED
            BY <3>1, <5>1, <5>2
        <4>2. CASE status[cur[w]] # "running"
          BY <2>6, <4>2 DEF Finish
        <4>3. QED
          BY <4>1, <4>2
      <3>3. QED
        BY <2>6, <3>2 DEF Finish, PCs
    <2>7. QED
      BY <1>4, <2>1, <2>2, <2>3, <2>4, <2>5, <2>6 DEF WorkerStep
  <1>5. ASSUME NEW w \in Workers, Crash(w) PROVE TypeOK'
    BY <1>5 DEF Crash, PCs
  <1>6. CASE UNCHANGED vars
    BY <1>6 DEF vars
  <1>7. QED
    BY <1>1, <1>2, <1>3, <1>4, <1>5, <1>6 DEF Next

\* Every job has at most one live executor, executes at most once after its
\* approval, and is done only after an approval if it is a pr.
LEMMA SafetyStep == SafetyInv /\ [Next]_vars => SafetyInv'
  <1> SUFFICES ASSUME SafetyInv, [Next]_vars
               PROVE  SafetyInv'
    OBVIOUS
  <1>t. TypeOK /\ TypeOK'
    BY TypeStep DEF SafetyInv
  <1> USE <1>t, QueueAssumption
      DEF QueueAssumption, TypeOK, SafetyInv, NoDoubleRun, ExecutionInv,
          AtMostOneExecution, DoneWasApproved, Jobs, SetStatus, StillIn,
          Goto, LetGo, storeVars, workerVars
  <1>1. ASSUME NEW j \in Jobs, Enqueue(j) PROVE SafetyInv'
    BY <1>1 DEF Enqueue
  <1>2. ASSUME NEW a \in Approvers, NEW j \in Jobs, Approve(a, j) \/ Reject(a, j)
        PROVE SafetyInv'
    <2>1. CASE Approve(a, j)
      BY <2>1 DEF Approve
    <2>2. CASE Reject(a, j)
      BY <2>2 DEF Reject
    <2>3. QED
      BY <1>2, <2>1, <2>2
  <1>3. ASSUME NEW j \in Jobs, Age(j) PROVE SafetyInv'
    BY <1>3 DEF Age
  <1>4. ASSUME NEW w \in Workers, WorkerStep(w) PROVE SafetyInv'
    <2>1. CASE Start(w) \/ QueryApproved(w) \/ QueryPending(w) \/ ClaimNothing(w)
               \/ QueryStale(w) \/ ReclaimEnds(w)
      BY <2>1 DEF Start, QueryApproved, QueryPending, ClaimNothing, QueryStale, Overdue,
                  ReclaimEnds
    <2>2. ASSUME NEW j \in Jobs, ClaimWins(w, j) PROVE SafetyInv'
      <3>1. status[j] \in {"approved", "pending"} /\ status'[j] = "running"
        BY <2>2 DEF ClaimWins
      <3>2. \A v \in Workers : cur[v] # j
        <4>1. ASSUME NEW v \in Workers, cur[v] = j PROVE FALSE
          <5>1. cur[v] # 0
            BY <4>1
          <5>2. status[cur[v]] \in {"running", "failed"}
            BY <5>1
          <5>3. QED
            BY <3>1, <4>1, <5>2
        <4>2. QED
          BY <4>1
      <3>3. NoDoubleRun'
        <4>1. cur' = [cur EXCEPT ![w] = j]
          BY <2>2 DEF ClaimWins
        <4>2. QED
          BY <3>2, <4>1
      <3>4. \A k \in Jobs : executed'[k] # executed[k] =>
               k = j /\ approvedBy[j] # NoOne /\ executed'[j] = executed[j] + 1
        BY <2>2 DEF ClaimWins
      <3>5. approvedBy[j] # NoOne => executed[j] = 0
        BY <3>1
      <3>6. \A k \in Jobs \ {j} : status'[k] = status[k]
        BY <2>2 DEF ClaimWins
      <3>7. AtMostOneExecution'
        BY <3>4, <3>5
      <3>8. DoneWasApproved'
        BY <2>2, <3>1, <3>6 DEF ClaimWins
      <3>9. ExecutionInv'
        <4>1. \A v \in Workers : cur'[v] # 0 =>
                 status'[cur'[v]] \in {"running", "failed"}
          BY <2>2, <3>1, <3>6 DEF ClaimWins
        <4>2. \A k \in Jobs : executed'[k] # 0 =>
                 /\ approvedBy'[k] # NoOne
                 /\ status'[k] \in {"running", "done", "failed"}
          BY <2>2, <3>1, <3>4, <3>6 DEF ClaimWins
        <4>3. approvedBy' = approvedBy
          BY <2>2 DEF ClaimWins
        <4>4. \A k \in Jobs : status'[k] \in {"approved", "rejected"} =>
                 executed'[k] = 0
          BY <3>1, <3>4, <3>6
        <4>5. QED
          BY <3>1, <3>6, <4>1, <4>2, <4>3, <4>4
      <3>10. QED
        BY <1>t, <3>3, <3>7, <3>8, <3>9
    <2>3. ASSUME NEW j \in Jobs, ClaimLoses(w, j) PROVE SafetyInv'
      BY <2>3 DEF ClaimLoses
    <2>4. ASSUME NEW j \in Jobs, Reclaim(w, j) PROVE SafetyInv'
      BY <2>4 DEF Reclaim, Reclaimed
    <2>5. CASE Finish(w)
      <3>1. cur[w] \in Jobs
        BY <2>5 DEF Finish
      <3>2. CASE status[cur[w]] = "running"
        <4>1. PICK s \in Outcomes(cur[w]) : SetStatus(cur[w], s)
          BY <2>5, <3>2 DEF Finish
        <4>2. /\ s \in {"awaiting_approval", "done", "failed"}
              /\ s = "awaiting_approval" => approvedBy[cur[w]] = NoOne
              /\ s = "done" /\ cur[w] \in PrJobs => approvedBy[cur[w]] # NoOne
          BY DEF Outcomes
        <4>3. \A v \in Workers \ {w} : cur[v] # cur[w]
          BY <3>1
        <4>4. approvedBy' = approvedBy /\ executed' = executed
          BY <2>5 DEF Finish
        <4>5. approvedBy[cur[w]] = NoOne => executed[cur[w]] = 0
          BY <3>1
        <4>6. NoDoubleRun' /\ AtMostOneExecution'
          BY <2>5 DEF Finish
        <4>7. DoneWasApproved'
          BY <3>1, <4>1, <4>2, <4>4
        <4>8. \A v \in Workers : cur'[v] # 0 =>
                 status'[cur'[v]] \in {"running", "failed"}
          BY <2>5, <3>1, <4>1, <4>3 DEF Finish
        <4>9. ExecutionInv'
          BY <3>1, <3>2, <4>1, <4>2, <4>4, <4>5, <4>8
        <4>10. QED
          BY <1>t, <4>6, <4>7, <4>9
      <3>3. CASE status[cur[w]] # "running"
        BY <2>5, <3>3 DEF Finish
      <3>4. QED
        BY <3>2, <3>3
    <2>6. QED
      BY <1>4, <2>1, <2>2, <2>3, <2>4, <2>5 DEF WorkerStep
  <1>5. ASSUME NEW w \in Workers, Crash(w) PROVE SafetyInv'
    BY <1>5 DEF Crash
  <1>6. CASE UNCHANGED vars
    BY <1>6 DEF vars
  <1>7. QED
    BY <1>1, <1>2, <1>3, <1>4, <1>5, <1>6 DEF Next

\* Every behaviour of the store and its workers keeps the safety invariant.
THEOREM SafetyAlways == Spec => []SafetyInv
  BY InitSafety, SafetyStep, PTL DEF Spec

\* The variables of JobQueue always have the values TypeOK gives them.
THEOREM TypeCorrect == Spec => []TypeOK
  BY SafetyAlways, PTL DEF SafetyInv

\* No two live workers ever execute the same job (base.py: claim is atomic).
THEOREM ClaimIsExclusive == Spec => []NoDoubleRun
  BY SafetyAlways, PTL DEF SafetyInv

\* An approved pr is executed at most once, whatever crashes and is reclaimed.
THEOREM ExecutesOnce == Spec => []AtMostOneExecution
  BY SafetyAlways, PTL DEF SafetyInv

\* A pr job is reported as done only if a person approved it: the output gate
\* of process_one cannot be passed by crashes, reclaims or lost updates.
THEOREM GateIsRespected == Spec => []DoneWasApproved
  BY SafetyAlways, PTL DEF SafetyInv

\* The first decision about a job stands, and a rejected job stays rejected.
THEOREM DecisionStands == Spec => FirstDecisionStands
  <1>1. SafetyInv /\ [Next]_vars =>
          [\A j \in Jobs : approvedBy[j] # NoOne =>
              /\ approvedBy'[j] = approvedBy[j]
              /\ status[j] = "rejected" => status'[j] = "rejected"]_vars
    <2> SUFFICES ASSUME SafetyInv, Next, NEW k \in Jobs, approvedBy[k] # NoOne
                 PROVE  /\ approvedBy'[k] = approvedBy[k]
                        /\ status[k] = "rejected" => status'[k] = "rejected"
      OBVIOUS
    <2> USE QueueAssumption
        DEF QueueAssumption, TypeOK, SafetyInv, ExecutionInv, Jobs, SetStatus,
            StillIn, storeVars, workerVars
    <2>1. ASSUME NEW j \in Jobs, Enqueue(j) \/ Age(j)
          PROVE  /\ approvedBy'[k] = approvedBy[k]
                 /\ status[k] = "rejected" => status'[k] = "rejected"
      BY <2>1 DEF Enqueue, Age
    <2>2. ASSUME NEW a \in Approvers, NEW j \in Jobs, Approve(a, j) \/ Reject(a, j)
          PROVE  /\ approvedBy'[k] = approvedBy[k]
                 /\ status[k] = "rejected" => status'[k] = "rejected"
      BY <2>2 DEF Approve, Reject
    <2>3. ASSUME NEW w \in Workers, WorkerStep(w) \/ Crash(w)
          PROVE  /\ approvedBy'[k] = approvedBy[k]
                 /\ status[k] = "rejected" => status'[k] = "rejected"
      <3>1. approvedBy' = approvedBy
        BY <2>3 DEF WorkerStep, Crash, Start, QueryApproved, QueryPending,
                    ClaimWins, ClaimLoses, ClaimNothing, Finish, QueryStale, Overdue,
                    Reclaim, Reclaimed, ReclaimEnds
      <3>2. \A j \in Jobs : status'[j] # status[j] =>
               status[j] \in {"running", "approved", "pending"}
        BY <2>3 DEF WorkerStep, Crash, Start, QueryApproved, QueryPending,
                    ClaimWins, ClaimLoses, ClaimNothing, Finish, QueryStale, Overdue,
                    Reclaim, Reclaimed, ReclaimEnds
      <3>3. QED
        BY <3>1, <3>2
    <2>4. QED
      BY <2>1, <2>2, <2>3 DEF Next
  <1>2. QED
    BY <1>1, SafetyAlways, PTL DEF Spec, FirstDecisionStands

-----------------------------------------------------------------------------
(* Timely executions.                                                      *)

\* No executed job is older than the cut-off, so no reclaim query returns one;
\* and what a reclaim query did return is never claimed again.
TimelyInv ==
    /\ SafetyInv
    /\ RunKeepsItsJob
    /\ \A w \in Workers : cur[w] # 0 => cur[w] \notin stale
    /\ \A v \in Workers : pc[v] = "reclaim" => \A j \in found[v] :
          /\ status[j] \in {"running", "failed"}
          /\ \A w \in Workers : cur[w] # j

LEMMA InitTimely == Init => TimelyInv
  BY InitSafety
  DEF Init, TimelyInv, RunKeepsItsJob

\* One step of the store or of a worker keeps TimelyInv.
LEMMA TimelyStep ==
  ASSUME TimelyRuns, TimelyInv, [Next]_vars
  PROVE  TimelyInv'
  <1>t. TypeOK /\ TypeOK' /\ SafetyInv /\ SafetyInv'
    BY TypeStep, SafetyStep DEF TimelyInv, SafetyInv
  <1> DEFINE Fresh == \A w \in Workers : cur[w] # 0 => cur[w] \notin stale
             Orphans == \A v \in Workers : pc[v] = "reclaim" =>
                          \A j \in found[v] :
                             /\ status[j] \in {"running", "failed"}
                             /\ \A w \in Workers : cur[w] # j
  <1>i. RunKeepsItsJob /\ Fresh /\ Orphans
    BY DEF TimelyInv
  <1> SUFFICES RunKeepsItsJob' /\ Fresh' /\ Orphans'
    BY <1>t DEF TimelyInv
  <1> USE <1>t, <1>i, QueueAssumption
      DEF QueueAssumption, TypeOK, RunKeepsItsJob, Jobs, SetStatus, StillIn,
          Goto, LetGo, storeVars, workerVars
  <1>1. ASSUME NEW j \in Jobs, Enqueue(j) PROVE RunKeepsItsJob' /\ Fresh' /\ Orphans'
    BY <1>1 DEF Enqueue
  <1>2. ASSUME NEW a \in Approvers, NEW j \in Jobs, Approve(a, j) \/ Reject(a, j)
        PROVE RunKeepsItsJob' /\ Fresh' /\ Orphans'
    <2>1. PICK s \in {"approved", "rejected"} :
             status[j] = "awaiting_approval" /\ SetStatus(j, s)
      BY <1>2 DEF Approve, Reject
    <2>2. UNCHANGED workerVars
      BY <1>2 DEF Approve, Reject
    <2>3. RunKeepsItsJob' /\ Fresh'
      BY <2>1, <2>2
    <2>4. Orphans'
      BY <2>1, <2>2
    <2>5. QED
      BY <2>3, <2>4
  <1>3. ASSUME NEW j \in Jobs, Age(j) PROVE RunKeepsItsJob' /\ Fresh' /\ Orphans'
    <2>1. \A w \in Workers : cur[w] # 0 => cur[w] # j
      BY <1>3 DEF Age, Executors
    <2>2. QED
      BY <1>3, <2>1 DEF Age
  <1>4. ASSUME NEW w \in Workers, WorkerStep(w)
        PROVE RunKeepsItsJob' /\ Fresh' /\ Orphans'
    <2>1. CASE Start(w) \/ QueryApproved(w) \/ QueryPending(w) \/ ClaimNothing(w)
               \/ ReclaimEnds(w)
      <3>1. UNCHANGED <<storeVars, cur>> /\ pc'[w] # "reclaim"
        BY <2>1 DEF Start, QueryApproved, QueryPending, ClaimNothing, ReclaimEnds
      <3>2. \A v \in Workers \ {w} : pc'[v] = pc[v] /\ found'[v] = found[v]
        BY <2>1 DEF Start, QueryApproved, QueryPending, ClaimNothing, ReclaimEnds
      <3>3. QED
        BY <3>1, <3>2
    <2>2. ASSUME NEW j \in Jobs, ClaimWins(w, j)
          PROVE RunKeepsItsJob' /\ Fresh' /\ Orphans'
      <3>1. status[j] \in {"approved", "pending"} /\ status'[j] = "running"
        BY <2>2 DEF ClaimWins
      <3>2. \A v \in Workers : pc[v] = "reclaim" => j \notin found[v]
        BY <3>1
      <3>3. RunKeepsItsJob' /\ Fresh'
        BY <2>2 DEF ClaimWins
      <3>4. Orphans'
        BY <2>2, <3>2 DEF ClaimWins
      <3>5. QED
        BY <3>3, <3>4
    <2>3. ASSUME NEW j \in Jobs, ClaimLoses(w, j)
          PROVE RunKeepsItsJob' /\ Fresh' /\ Orphans'
      BY <2>3 DEF ClaimLoses
    <2>4. ASSUME NEW j \in Jobs, Reclaim(w, j)
          PROVE RunKeepsItsJob' /\ Fresh' /\ Orphans'
      <3>1. j \in found[w] /\ \A v \in Workers : cur[v] # j
        BY <2>4 DEF Reclaim, Reclaimed, IsNext
      <3>2. QED
        BY <2>4, <3>1 DEF Reclaim, Reclaimed
    <2>5. CASE QueryStale(w)
      <3>1. found'[w] = InStatus("running") \cap stale
        BY <2>5 DEF QueryStale, Overdue
      <3>2. \A j \in found'[w] :
               status[j] = "running" /\ \A v \in Workers : cur[v] # j
        BY <3>1 DEF InStatus
      <3>3. Orphans'
        BY <2>5, <3>2 DEF QueryStale, Overdue
      <3>4. QED
        BY <2>5, <3>3 DEF QueryStale, Overdue
    <2>6. CASE Finish(w)
      <3>1. cur[w] \in Jobs /\ status[cur[w]] = "running"
        BY <2>6 DEF Finish
      <3>2. PICK s \in Outcomes(cur[w]) : SetStatus(cur[w], s)
        BY <2>6, <3>1 DEF Finish
      <3>3. \A v \in Workers \ {w} : cur[v] # cur[w]
        BY <3>1 DEF SafetyInv, NoDoubleRun
      <3>4. \A v \in Workers : pc[v] = "reclaim" => cur[w] \notin found[v]
        BY <3>1
      <3>5. RunKeepsItsJob' /\ Fresh'
        BY <2>6, <3>1, <3>2, <3>3 DEF Finish
      <3>6. Orphans'
        BY <2>6, <3>1, <3>2, <3>4 DEF Finish
      <3>7. QED
        BY <3>5, <3>6
    <2>7. QED
      BY <1>4, <2>1, <2>2, <2>3, <2>4, <2>5, <2>6 DEF WorkerStep
  <1>5. ASSUME NEW w \in Workers, Crash(w)
        PROVE RunKeepsItsJob' /\ Fresh' /\ Orphans'
    BY <1>5 DEF Crash
  <1>6. CASE UNCHANGED vars
    BY <1>6 DEF vars
  <1>7. QED
    BY <1>1, <1>2, <1>3, <1>4, <1>5, <1>6 DEF Next

\* When executions end before the cut-off, TimelyInv always holds.
LEMMA TimelyAlways ==
  ASSUME TimelyRuns
  PROVE  Spec => []TimelyInv
  <1>1. TimelyInv /\ [Next]_vars => TimelyInv'
    BY TimelyStep
  <1>2. QED
    BY <1>1, InitTimely, PTL DEF Spec

\* A reclaim never fails a job that a live worker executes: the promise of
\* reclaim_stale_running (base.py), under the assumption it really rests on.
THEOREM ReclaimSparesLiveRuns ==
  ASSUME TimelyRuns
  PROVE  Spec => []RunKeepsItsJob
  <1>1. TimelyInv => RunKeepsItsJob
    BY DEF TimelyInv
  <1>2. QED
    BY <1>1, TimelyAlways, PTL

-----------------------------------------------------------------------------
(* Refinement.                                                             *)

\* The executor that the refinement mapping names is the one worker, if any,
\* whose current job it is.
LEMMA HolderIs ==
  ASSUME TypeOK, NoDoubleRun, NEW j \in Jobs
  PROVE  /\ \A w \in Workers : Holder[j] = w <=> cur[w] = j
         /\ Holder[j] = NoWorker <=> \A w \in Workers : cur[w] # j
  <1>1. CASE Executors(j) = {}
    BY <1>1, QueueAssumption DEF QueueAssumption, Holder, Executors
  <1>2. CASE Executors(j) # {}
    <2>1. TheOne(Executors(j)) \in Executors(j)
      BY <1>2 DEF TheOne
    <2>2. \A v, w \in Executors(j) : v = w
      BY DEF Executors, NoDoubleRun, Jobs
    <2>3. Holder[j] = TheOne(Executors(j))
      BY <1>2 DEF Holder
    <2>4. QED
      BY <2>1, <2>2, <2>3, QueueAssumption DEF QueueAssumption, Executors
  <1>3. QED
    BY <1>1, <1>2

\* A worker that lets go of its job leaves it without an executor.
LEMMA HolderStep ==
  ASSUME TypeOK, NoDoubleRun, NEW w \in Workers, NEW k \in Jobs, cur[w] = k,
         cur' = [cur EXCEPT ![w] = 0]
  PROVE  Holder' = [Holder EXCEPT ![k] = NoWorker]
  <1>1. Executors(k)' = {}
    BY QueueAssumption DEF QueueAssumption, TypeOK, NoDoubleRun, Jobs, Executors
  <1>2. ASSUME NEW j \in Jobs, j # k PROVE Executors(j)' = Executors(j)
    BY <1>2, QueueAssumption DEF QueueAssumption, TypeOK, Jobs, Executors
  <1>3. Holder'[k] = NoWorker
    BY <1>1 DEF Holder
  <1>4. ASSUME NEW j \in Jobs, j # k PROVE Holder'[j] = Holder[j]
    BY <1>2, <1>4 DEF Holder
  <1>5. Holder = [j \in Jobs |-> Holder[j]] /\ Holder' = [j \in Jobs |-> Holder'[j]]
    BY DEF Holder
  <1>6. QED
    BY <1>3, <1>4, <1>5

\* Initially nobody executes anything.
LEMMA InitRefines == Init => Lifecycle!Init
  BY QueueAssumption DEF QueueAssumption, Init, Lifecycle!Init, Holder, Executors, Jobs

\* Every step of the store is a step of the life cycle, or changes nothing in it.
LEMMA StepRefines ==
  ASSUME TimelyInv, TimelyInv', [Next]_vars
  PROVE  [Lifecycle!Next]_(Lifecycle!vars)
  <1>t. /\ TypeOK /\ NoDoubleRun /\ RunKeepsItsJob
        /\ TypeOK' /\ NoDoubleRun'
    BY DEF TimelyInv, SafetyInv
  <1>h. \A j \in Jobs :
           /\ \A w \in Workers : Holder[j] = w <=> cur[w] = j
           /\ Holder[j] = NoWorker <=> \A w \in Workers : cur[w] # j
    BY <1>t, HolderIs
  <1>u. \A j \in Jobs : Holder[j] \in Workers \cup {NoWorker}
    BY <1>t, <1>h
  <1>f. Holder = [j \in Jobs |-> Holder[j]] /\ Holder' = [j \in Jobs |-> Holder'[j]]
    BY DEF Holder
  <1>c. cur' = cur => Holder' = Holder
    BY DEF Holder, Executors
  <1>s. cur' = cur /\ status' = status => UNCHANGED Lifecycle!vars
    BY <1>c DEF Lifecycle!vars
  <1> USE <1>t DEF TypeOK, Jobs, SetStatus, StillIn, LetGo, storeVars, workerVars
  <1>1. ASSUME NEW j \in Jobs, Enqueue(j) PROVE Lifecycle!Next
    <2>1. Lifecycle!Enqueue(j)
      BY <1>1, <1>c DEF Enqueue, Lifecycle!Enqueue
    <2>2. QED
      BY <2>1 DEF Lifecycle!Next
  <1>2. ASSUME NEW a \in Approvers, NEW j \in Jobs, Approve(a, j) \/ Reject(a, j)
        PROVE Lifecycle!Next
    <2>1. Lifecycle!Decide(j)
      BY <1>2, <1>c DEF Approve, Reject, Lifecycle!Decide
    <2>2. QED
      BY <2>1 DEF Lifecycle!Next
  <1>3. ASSUME NEW j \in Jobs, Age(j) PROVE UNCHANGED Lifecycle!vars
    BY <1>3, <1>s DEF Age
  <1>4. ASSUME NEW w \in Workers, WorkerStep(w)
        PROVE Lifecycle!Next \/ UNCHANGED Lifecycle!vars
    <2>1. CASE Start(w) \/ QueryApproved(w) \/ QueryPending(w) \/ ClaimNothing(w)
               \/ QueryStale(w) \/ ReclaimEnds(w)
      BY <2>1, <1>s DEF Start, QueryApproved, QueryPending, ClaimNothing,
                        QueryStale, Overdue, ReclaimEnds
    <2>2. ASSUME NEW j \in Jobs, ClaimWins(w, j) PROVE Lifecycle!Next
      <3>1. cur[w] = 0 /\ cur' = [cur EXCEPT ![w] = j]
        BY <2>2 DEF ClaimWins
      <3>2. status[j] \in {"approved", "pending"}
        BY <2>2 DEF ClaimWins
      <3>3. \A k \in Jobs : Holder[k] # w
        BY <3>1, <1>h
      <3>4. \A v \in Workers : cur[v] # j
        <4>1. \A v \in Workers : cur[v] = j => cur[v] # 0
          OBVIOUS
        <4>2. QED
          BY <3>2, <4>1 DEF RunKeepsItsJob
      <3>5. Holder' = [Holder EXCEPT ![j] = w]
        <4>1. Holder'[j] = w
          <5>1. Executors(j)' = {w}
            BY <3>1, <3>4 DEF Executors
          <5>2. TheOne({w}) = w
            BY DEF TheOne
          <5>3. QED
            BY <5>1, <5>2 DEF Holder
        <4>2. ASSUME NEW k \in Jobs, k # j PROVE Holder'[k] = Holder[k]
          <5>1. Executors(k)' = Executors(k)
            BY <3>1, <4>2, QueueAssumption DEF QueueAssumption, Executors
          <5>2. QED
            BY <5>1 DEF Holder
        <4>3. QED
          BY <4>1, <4>2, <1>f
      <3>6. Lifecycle!Claim(w, j)
        BY <2>2, <3>2, <3>3, <3>5 DEF ClaimWins, Lifecycle!Claim, Lifecycle!Claimable
      <3>7. QED
        BY <3>6 DEF Lifecycle!Next
    <2>3. ASSUME NEW j \in Jobs, ClaimLoses(w, j) PROVE UNCHANGED Lifecycle!vars
      BY <2>3, <1>s DEF ClaimLoses
    <2>4. ASSUME NEW j \in Jobs, Reclaim(w, j)
          PROVE Lifecycle!Next \/ UNCHANGED Lifecycle!vars
      <3>1. CASE status[j] = "running"
        <4>1. Holder[j] = NoWorker
          BY <2>4, <1>h DEF Reclaim, Reclaimed, IsNext, TimelyInv
        <4>2. Lifecycle!Reclaim(j)
          BY <2>4, <3>1, <4>1, <1>c DEF Reclaim, Reclaimed, Lifecycle!Reclaim
        <4>3. QED
          BY <4>2 DEF Lifecycle!Next
      <3>2. CASE status[j] # "running"
        BY <2>4, <3>2, <1>s DEF Reclaim, Reclaimed
      <3>3. QED
        BY <3>1, <3>2
    <2>5. CASE Finish(w)
      <3>1. PICK k \in Jobs : cur[w] = k /\ status[k] = "running" /\ Holder[k] = w
        BY <2>5, <1>h DEF Finish, RunKeepsItsJob
      <3>2. PICK s \in {"awaiting_approval", "done", "failed"} : SetStatus(k, s)
        BY <2>5, <3>1 DEF Finish, Outcomes
      <3>3. cur' = [cur EXCEPT ![w] = 0]
        BY <2>5 DEF Finish
      <3>4. Holder' = [Holder EXCEPT ![k] = NoWorker]
        BY <3>1, <3>3, HolderStep
      <3>5. Lifecycle!Release(w, k)
        BY <3>1, <3>2, <3>4 DEF Lifecycle!Release
      <3>6. QED
        BY <3>1, <3>5 DEF Lifecycle!Next
    <2>6. QED
      BY <1>4, <2>1, <2>2, <2>3, <2>4, <2>5 DEF WorkerStep
  <1>5. ASSUME NEW w \in Workers, Crash(w)
        PROVE Lifecycle!Next \/ UNCHANGED Lifecycle!vars
    <2>1. CASE cur[w] = 0
      <3>1. cur' = cur /\ status' = status
        BY <1>5, <2>1 DEF Crash
      <3>2. QED
        BY <3>1, <1>s
    <2>2. CASE cur[w] # 0
      <3>1. PICK k \in Jobs : cur[w] = k /\ Holder[k] = w
        BY <2>2, <1>h
      <3>2. cur' = [cur EXCEPT ![w] = 0] /\ status' = status
        BY <1>5 DEF Crash
      <3>3. Holder' = [Holder EXCEPT ![k] = NoWorker]
        BY <3>1, <3>2, HolderStep
      <3>4. Lifecycle!Interrupt(w, k)
        BY <3>1, <3>2, <3>3 DEF Lifecycle!Interrupt
      <3>5. QED
        BY <3>1, <3>4 DEF Lifecycle!Next
    <2>3. QED
      BY <2>1, <2>2
  <1>6. CASE UNCHANGED vars
    BY <1>6, <1>s DEF vars
  <1>7. QED
    BY <1>1, <1>2, <1>3, <1>4, <1>5, <1>6 DEF Next

\* The store and its polling workers implement the abstract life cycle when
\* executions end before the reclaim cut-off.
THEOREM StoreImplementsLifecycle ==
  ASSUME TimelyRuns
  PROVE  Spec => ImplementsLifecycle
  <1>1. TimelyInv /\ TimelyInv' /\ [Next]_vars => [Lifecycle!Next]_(Lifecycle!vars)
    BY StepRefines
  <1>2. QED
    BY <1>1, InitRefines, TimelyAlways, PTL
    DEF Spec, ImplementsLifecycle, Lifecycle!Spec
=============================================================================
