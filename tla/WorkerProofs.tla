---------------------------- MODULE WorkerProofs ----------------------------
(***************************************************************************)
(* Theorems about Worker for any number of jobs, approvers, runs and kills *)
(* and for whatever set of jobs a sweep finds.  First what everything else *)
(* about the worker rests on: CoreInv, with the types, the agreement of    *)
(* the worker with the job store, and the truth of the trail; then what    *)
(* the trail and the metrics say of the runs, and that Worker implements   *)
(* JobLifecycle.                                                           *)
(*                                                                         *)
(* The argument is about todo, the writes that a run or a sweep has still  *)
(* to make: the move of a job precedes the event that tells it and the     *)
(* metric that measures it, each of them comes once for a job, and an      *)
(* event is not written before its move has been made.                     *)
(***************************************************************************)
EXTENDS Worker, SequenceTheorems, FiniteSetTheorems, TLAPS

-----------------------------------------------------------------------------
(* The invariant.                                                          *)

\* What todo may hold.
WriteSet == [write : {"event"}, job : Jobs, what : Actions, parent : Nat]
            \cup [write : {"status"}, job : Jobs,
                  what : {"done", "failed", "awaiting_approval"}, parent : {0}]
            \cup [write : {"metric"}, job : Jobs, what : {"run"}, parent : {0}]

\* Max in ApprovalStep has a value: the trail is finite.
LastStep(j) == \/ ApprovalSteps(j) = {}
               \/ \E m \in ApprovalSteps(j) : \A k \in ApprovalSteps(j) : k <= m

TypedInv == /\ TypeOK
            /\ todo \in Seq(WriteSet)
            /\ \A j \in Jobs : LastStep(j)

\* The events that tell where a run has left its job, and the status they tell.
Closing == {"done", "failed", "reclaimed_stale", "awaiting_approval"}
Outcome(a) == IF a = "reclaimed_stale" THEN "failed" ELSE a

IsMove(t, i)   == t[i].write = "status"
IsClose(t, i)  == t[i].write = "event" /\ t[i].what \in Closing
IsMetric(t, i) == t[i].write = "metric"

InRun == {"claimed", "check", "exec", "issued", "granted"}

\* The worker's place: in a run its job is "running", and a job that is still
\* "running" when the run has ended is about to be moved.
PlaceInv ==
    /\ pc \in InRun => job \in Jobs /\ status[job] = "running" /\ todo = <<>>
    /\ pc \in {"issued", "granted"} => Executing(job)
    /\ pc = "write" /\ job # NoJob /\ status[job] = "running" =>
          \E i \in DOMAIN todo : IsMove(todo, i)

\* The job store: what the status of a job says of its approver, its worker and
\* the approver who has still to record the decision.
StoreInv ==
    \A j \in Jobs :
      /\ status[j] \in {"absent", "pending", "awaiting_approval"} => ~Approved(j)
      /\ status[j] \in {"approved", "rejected"} => Approved(j)
      /\ status[j] = "running" => j = job \/ j \in cut
      /\ \A a \in Approvers : deciding[a] = j => approvedBy[j] = a
      /\ Said(j, "approved") => Approved(j)

\* A list of writes in which each move precedes the event and the metric of its
\* job, and no job has two of a kind.
Ordered(t) ==
    \A i \in DOMAIN t :
      /\ IsMove(t, i) =>
           /\ \E k \in DOMAIN t : /\ k > i /\ IsClose(t, k) /\ t[k].job = t[i].job
                                  /\ Outcome(t[k].what) = t[i].what
           /\ \E k \in DOMAIN t : k > i /\ IsMetric(t, k) /\ t[k].job = t[i].job
      /\ \A k \in DOMAIN t : t[k].job = t[i].job =>
           /\ IsMove(t, i) /\ IsMove(t, k) => i = k
           /\ IsClose(t, i) /\ IsClose(t, k) => i = k
           /\ IsMetric(t, i) /\ IsMetric(t, k) => i = k

\* A move to s of the job of the i-th write comes before it.
MoveBefore(t, i, s) ==
    \E k \in DOMAIN t : k < i /\ IsMove(t, k) /\ t[k].job = t[i].job /\ t[k].what = s

\* Whose the i-th write is, and how far its job is: an event that closes a run
\* finds the job moved, or the move is before it in the list.
TodoItem(i) ==
    LET j == todo[i].job IN
    /\ job # NoJob => j = job
    /\ job = NoJob => j \in cut
    /\ todo[i].write = "event" =>
         IF job = NoJob THEN todo[i].what = "reclaimed_stale"
                        ELSE todo[i].what \in RunSteps /\ todo[i].parent = root
    /\ IsMove(todo, i) =>
         status[j] = "running" /\ (todo[i].what = "awaiting_approval" => ~Approved(j))
    /\ IsClose(todo, i) =>
         \/ status[j] = "running" /\ MoveBefore(todo, i, Outcome(todo[i].what))
         \/ status[j] = Outcome(todo[i].what)
         \/ todo[i].what = "awaiting_approval" /\ status[j] \in {"approved", "rejected"}
    /\ IsMetric(todo, i) /\ status[j] = "running" => \E s \in Statuses : MoveBefore(todo, i, s)

TodoInv == Ordered(todo) /\ \A i \in DOMAIN todo : TodoItem(i)

CoreInv == TypedInv /\ PlaceInv /\ StoreInv /\ TodoInv /\ TrailIsTrue

-----------------------------------------------------------------------------
(* The lists of writes that a run and a sweep begin with.                  *)

\* Writes of a run that move nothing and close nothing.
Neutral == {Event(job, a, root) : a \in RunSteps \ Closing}

\* What the steps of TodoInv need of the list of writes that a run or a sweep
\* begins with.
GoodPlan(t) ==
    /\ t \in Seq(WriteSet)
    /\ Ordered(t)
    /\ \A i \in DOMAIN t :
         /\ status[t[i].job] = "running"
         /\ IsClose(t, i) => MoveBefore(t, i, Outcome(t[i].what))
         /\ IsMetric(t, i) => \E s \in Statuses : MoveBefore(t, i, s)

\* Where the writes of a run may move its job.
Reached == {"done", "failed", "awaiting_approval"}

\* A list in which one move, p, precedes the event that tells it and the metric
\* at the end, and everything else is neutral.
RunPlan(t, s) ==
    /\ GoodPlan(t)
    /\ \A i \in DOMAIN t :
         /\ t[i].job = job
         /\ t[i].write = "event" => t[i].what \in RunSteps /\ t[i].parent = root
         /\ IsMove(t, i) => t[i].what = s
         /\ IsClose(t, i) => t[i].what = s
    /\ \E i \in DOMAIN t : IsMove(t, i)

\* What the three lists of a run have in common.
LEMMA PlanShape ==
  ASSUME job \in Jobs, root \in Nat, status[job] = "running", NEW s \in Reached,
         NEW t \in Seq(WriteSet), NEW p \in 1..Len(t), NEW q \in 1..Len(t), NEW n \in 1..Len(t),
         p < q, q < n,
         t[p] = Move(job, s), t[q] = Event(job, s, root), t[n] = Metric(job),
         \A i \in 1..Len(t) : i \notin {p, q, n} => t[i] \in Neutral
  PROVE  RunPlan(t, s)
  <1>1. DOMAIN t = 1..Len(t) /\ p \in Int /\ q \in Int /\ n \in Int /\ p < n
    OBVIOUS
  <1>2. /\ IsMove(t, p) /\ t[p].job = job /\ t[p].what = s
        /\ ~IsClose(t, p) /\ ~IsMetric(t, p) /\ t[p].write # "event"
    BY DEF Move, IsMove, IsClose, IsMetric
  <1>3. /\ IsClose(t, q) /\ t[q].job = job /\ t[q].what = s
        /\ ~IsMove(t, q) /\ ~IsMetric(t, q)
        /\ t[q].parent = root /\ t[q].what \in RunSteps
    BY DEF Event, IsMove, IsClose, IsMetric, Reached, Closing, RunSteps
  <1>4. /\ IsMetric(t, n) /\ t[n].job = job
        /\ ~IsMove(t, n) /\ ~IsClose(t, n) /\ t[n].write # "event"
    BY DEF Metric, IsMove, IsClose, IsMetric
  <1>5. ASSUME NEW i \in 1..Len(t), i \notin {p, q, n}
        PROVE /\ ~IsMove(t, i) /\ ~IsClose(t, i) /\ ~IsMetric(t, i)
              /\ t[i].job = job /\ t[i].what \in RunSteps /\ t[i].parent = root
    BY <1>5 DEF Neutral, Event, IsMove, IsClose, IsMetric
  <1>6. Outcome(s) = s
    BY DEF Outcome, Reached
  <1>7. ASSUME NEW i \in DOMAIN t
        PROVE /\ t[i].job = job
              /\ t[i].write = "event" => t[i].what \in RunSteps /\ t[i].parent = root
              /\ IsMove(t, i) => i = p
              /\ IsClose(t, i) => i = q
              /\ IsMetric(t, i) => i = n
    BY <1>1, <1>2, <1>3, <1>4, <1>5
  <1>8. Ordered(t)
    <2>1. ASSUME NEW i \in DOMAIN t, IsMove(t, i)
          PROVE  /\ \E k \in DOMAIN t : /\ k > i /\ IsClose(t, k) /\ t[k].job = t[i].job
                                        /\ Outcome(t[k].what) = t[i].what
                 /\ \E k \in DOMAIN t : k > i /\ IsMetric(t, k) /\ t[k].job = t[i].job
      <3>1. i = p
        BY <2>1, <1>7
      <3>2. q > i /\ n > i
        BY <3>1, <1>1
      <3>3. q \in DOMAIN t /\ n \in DOMAIN t
        BY <1>1
      <3>4. QED
        BY <3>1, <3>2, <3>3, <1>2, <1>3, <1>4, <1>6
    <2>2. QED
      BY <2>1, <1>7 DEF Ordered
  <1>9. MoveBefore(t, q, s) /\ MoveBefore(t, n, s) /\ s \in Statuses
    BY <1>1, <1>2, <1>3, <1>4 DEF MoveBefore, Reached, Statuses
  <1>10. GoodPlan(t)
    BY <1>3, <1>6, <1>7, <1>8, <1>9 DEF GoodPlan
  <1>11. \E i \in DOMAIN t : IsMove(t, i)
    BY <1>1, <1>2
  <1>12. QED
    BY <1>2, <1>3, <1>7, <1>10, <1>11 DEF RunPlan

\* The elements of a concatenation.
LEMMA Joined ==
  ASSUME NEW S, NEW a \in Seq(S), NEW b \in Seq(S)
  PROVE  /\ a \o b \in Seq(S)
         /\ Len(a) \in Nat /\ Len(b) \in Nat
         /\ Len(a \o b) = Len(a) + Len(b)
         /\ \A i \in 1..Len(a) : (a \o b)[i] = a[i]
         /\ \A i \in 1..Len(b) : (a \o b)[Len(a) + i] = b[i]
         /\ \A i \in 1..Len(a \o b) :
               i \in 1..Len(a) \/ (i - Len(a) \in 1..Len(b) /\ (a \o b)[i] = b[i - Len(a)])
  BY ConcatProperties

\* The writes of a run are writes.
LEMMA RunWrites ==
  ASSUME job \in Jobs, root \in Nat
  PROVE  /\ \A a \in Actions : Event(job, a, root) \in WriteSet
         /\ \A s \in Reached : Move(job, s) \in WriteSet
         /\ Metric(job) \in WriteSet
         /\ \A a \in RunSteps : a \in Actions
  BY DEF Event, Move, Metric, WriteSet, Reached, RunSteps, Actions

\* The tool calls are neutral.
LEMMA ToolsType ==
  ASSUME job \in Jobs, root \in Nat, NEW n \in 0..1
  PROVE  /\ Tools(n) \in Seq(WriteSet) /\ Len(Tools(n)) = n
         /\ \A i \in 1..n : Tools(n)[i] \in Neutral
  <1>1. Event(job, "tool_call", root) \in WriteSet /\ Event(job, "tool_call", root) \in Neutral
    BY RunWrites DEF Neutral, Closing, RunSteps
  <1>2. QED
    BY <1>1 DEF Tools

\* The writes of a run that stops at the output gate.
LEMMA GatePlan ==
  ASSUME job \in Jobs, root \in Nat, status[job] = "running", NEW n \in 0..1
  PROVE  RunPlan(GateWrites(n), "awaiting_approval")
  <1> DEFINE a == <<Move(job, "awaiting_approval")>>
             b == a \o Tools(n)
             c == <<Event(job, "awaiting_approval", root), Metric(job)>>
             t == b \o c
  <1>1. /\ Event(job, "awaiting_approval", root) \in WriteSet /\ Metric(job) \in WriteSet
        /\ Move(job, "awaiting_approval") \in WriteSet
    BY RunWrites DEF Reached, RunSteps
  <1>2. a \in Seq(WriteSet) /\ Len(a) = 1 /\ a[1] = Move(job, "awaiting_approval")
    BY <1>1
  <1>3. /\ c \in Seq(WriteSet) /\ Len(c) = 2
        /\ c[1] = Event(job, "awaiting_approval", root) /\ c[2] = Metric(job)
    BY <1>1
  <1>4. /\ b \in Seq(WriteSet) /\ Len(b) = 1 + n /\ b[1] = Move(job, "awaiting_approval")
        /\ \A i \in 2..(1 + n) : b[i] \in Neutral
    <2> HIDE DEF a
    <2>1. QED
      BY <1>2, ToolsType, Joined
  <1>5. /\ t \in Seq(WriteSet) /\ Len(t) = 3 + n /\ t[1] = b[1]
        /\ t[2 + n] = c[1] /\ t[3 + n] = c[2]
        /\ \A i \in 2..(1 + n) : t[i] = b[i]
    <2> HIDE DEF b, c
    <2>1. b \in Seq(WriteSet) /\ c \in Seq(WriteSet) /\ 1 \in 1..Len(c) /\ 2 \in 1..Len(c)
      BY <1>3, <1>4
    <2>2. /\ b \o c \in Seq(WriteSet) /\ Len(b) \in Nat /\ Len(b \o c) = Len(b) + Len(c)
          /\ \A i \in 1..Len(b) : (b \o c)[i] = b[i]
          /\ \A i \in 1..Len(c) : (b \o c)[Len(b) + i] = c[i]
      BY <2>1, Joined
    <2>3. QED
      BY <1>3, <1>4, <2>1, <2>2
  <1>6. GateWrites(n) = t
    BY DEF GateWrites
  <1> HIDE DEF t, a, b, c
  <1>7. \A i \in 1..Len(t) : i \notin {1, 2 + n, 3 + n} => t[i] \in Neutral
    BY <1>4, <1>5
  <1>8. 1 \in 1..Len(t) /\ 2 + n \in 1..Len(t) /\ 3 + n \in 1..Len(t) /\ 1 < 2 + n /\ 2 + n < 3 + n
    BY <1>5
  <1>9. RunPlan(t, "awaiting_approval")
    <2>1. t[1] = Move(job, "awaiting_approval") /\ t[2 + n] = Event(job, "awaiting_approval", root) /\ t[3 + n] = Metric(job)
      BY <1>3, <1>4, <1>5
    <2>2. t \in Seq(WriteSet) /\ "awaiting_approval" \in Reached
      BY <1>5 DEF Reached
    <2>3. QED
      BY <1>7, <1>8, <2>1, <2>2, PlanShape
  <1>10. QED
    BY <1>6, <1>9

\* The writes of a run that is done.
LEMMA DonePlan ==
  ASSUME job \in Jobs, root \in Nat, status[job] = "running", NEW n \in 0..1
  PROVE  RunPlan(DoneWrites(n), "done")
  <1> DEFINE a == IF Executing(job) THEN <<Event(job, "postcondition_verified", root)>> ELSE <<>>
             b == a \o Tools(n)
             c == <<Move(job, "done"), Event(job, "done", root), Metric(job)>>
             t == b \o c
  <1>1. /\ Event(job, "done", root) \in WriteSet /\ Metric(job) \in WriteSet
        /\ Move(job, "done") \in WriteSet
        /\ Event(job, "postcondition_verified", root) \in WriteSet
        /\ Event(job, "postcondition_verified", root) \in Neutral
    BY RunWrites DEF Reached, RunSteps, Neutral, Closing
  <1>2. a \in Seq(WriteSet) /\ \A i \in 1..Len(a) : a[i] \in Neutral
    BY <1>1
  <1>3. /\ c \in Seq(WriteSet) /\ Len(c) = 3 /\ c[1] = Move(job, "done")
        /\ c[2] = Event(job, "done", root) /\ c[3] = Metric(job)
    BY <1>1
  <1>4. b \in Seq(WriteSet) /\ \A i \in 1..Len(b) : b[i] \in Neutral
    <2> HIDE DEF a
    <2>1. QED
      BY <1>2, ToolsType, Joined
  <1>5. /\ t \in Seq(WriteSet) /\ Len(t) = Len(b) + 3 /\ Len(b) \in Nat
        /\ t[Len(b) + 1] = c[1] /\ t[Len(b) + 2] = c[2] /\ t[Len(b) + 3] = c[3]
        /\ \A i \in 1..Len(b) : t[i] = b[i]
    <2> HIDE DEF b, c
    <2>1. b \in Seq(WriteSet) /\ c \in Seq(WriteSet) /\ 1 \in 1..Len(c) /\ 2 \in 1..Len(c) /\ 3 \in 1..Len(c)
      BY <1>3, <1>4
    <2>2. /\ b \o c \in Seq(WriteSet) /\ Len(b) \in Nat /\ Len(b \o c) = Len(b) + Len(c)
          /\ \A i \in 1..Len(b) : (b \o c)[i] = b[i]
          /\ \A i \in 1..Len(c) : (b \o c)[Len(b) + i] = c[i]
      BY <2>1, Joined
    <2>3. QED
      BY <1>3, <1>4, <2>1, <2>2
  <1>6. DoneWrites(n) = t
    BY DEF DoneWrites
  <1> HIDE DEF t, a, b, c
  <1>7. \A i \in 1..Len(t) : i \notin {Len(b) + 1, Len(b) + 2, Len(b) + 3} => t[i] \in Neutral
    BY <1>4, <1>5
  <1>8. /\ Len(b) + 1 \in 1..Len(t) /\ Len(b) + 2 \in 1..Len(t) /\ Len(b) + 3 \in 1..Len(t)
        /\ Len(b) + 1 < Len(b) + 2 /\ Len(b) + 2 < Len(b) + 3
    BY <1>5
  <1>9. RunPlan(t, "done")
    <2>1. /\ t[Len(b) + 1] = Move(job, "done") /\ t[Len(b) + 2] = Event(job, "done", root)
          /\ t[Len(b) + 3] = Metric(job)
      BY <1>3, <1>5
    <2>2. t \in Seq(WriteSet) /\ "done" \in Reached
      BY <1>5 DEF Reached
    <2>3. QED
      BY <1>7, <1>8, <2>1, <2>2, PlanShape
  <1>10. QED
    BY <1>6, <1>9

\* The kinds of error that _fail is called with.
Kinds == {"policy_denied", "plan_binding_rejected", "capability_drift", "no_diff", "other"}

\* The writes of a run that failed.
LEMMA FailPlan ==
  ASSUME job \in Jobs, root \in Nat, status[job] = "running", NEW n \in 0..1, NEW kind \in Kinds
  PROVE  RunPlan(FailWrites(kind, n), "failed")
  <1> DEFINE a == <<Move(job, "failed")>>
             b == a \o Tools(n)
             d == b \o KindWrites(kind)
             c == <<Event(job, "failed", root), Metric(job)>>
             t == d \o c
  <1>1. /\ Event(job, "failed", root) \in WriteSet /\ Metric(job) \in WriteSet
        /\ Move(job, "failed") \in WriteSet
    BY RunWrites DEF Reached, RunSteps
  <1>2. a \in Seq(WriteSet) /\ Len(a) = 1 /\ a[1] = Move(job, "failed")
    BY <1>1
  <1>3. /\ c \in Seq(WriteSet) /\ Len(c) = 2
        /\ c[1] = Event(job, "failed", root) /\ c[2] = Metric(job)
    BY <1>1
  <1>4. /\ b \in Seq(WriteSet) /\ Len(b) = 1 + n /\ b[1] = Move(job, "failed")
        /\ \A i \in 2..Len(b) : b[i] \in Neutral
    <2> HIDE DEF a
    <2>1. QED
      BY <1>2, ToolsType, Joined
  <1>5. KindWrites(kind) \in Seq(WriteSet) /\ \A i \in 1..Len(KindWrites(kind)) : KindWrites(kind)[i] \in Neutral
    <2>1. CASE kind \in Actions
      <3>1. kind \in RunSteps \ Closing
        BY <2>1 DEF Kinds, Actions, RunSteps, Closing
      <3>2. Event(job, kind, root) \in WriteSet /\ Event(job, kind, root) \in Neutral
        BY <2>1, <3>1, RunWrites DEF Neutral
      <3>3. QED
        BY <2>1, <3>2 DEF KindWrites
    <2>2. CASE kind \notin Actions
      BY <2>2 DEF KindWrites
    <2>3. QED
      BY <2>1, <2>2
  <1>6. /\ d \in Seq(WriteSet) /\ Len(d) \in Nat /\ Len(d) >= 1 /\ d[1] = Move(job, "failed")
        /\ \A i \in 2..Len(d) : d[i] \in Neutral
    <2> HIDE DEF b
    <2>1. QED
      BY <1>4, <1>5, Joined
  <1>7. /\ t \in Seq(WriteSet) /\ Len(t) = Len(d) + 2 /\ t[1] = d[1]
        /\ t[Len(d) + 1] = c[1] /\ t[Len(d) + 2] = c[2]
        /\ \A i \in 2..Len(d) : t[i] = d[i]
    <2> HIDE DEF c, d
    <2>1. d \in Seq(WriteSet) /\ c \in Seq(WriteSet) /\ 1 \in 1..Len(c) /\ 2 \in 1..Len(c)
      BY <1>3, <1>6
    <2>2. /\ d \o c \in Seq(WriteSet) /\ Len(d) \in Nat /\ Len(d \o c) = Len(d) + Len(c)
          /\ \A i \in 1..Len(d) : (d \o c)[i] = d[i]
          /\ \A i \in 1..Len(c) : (d \o c)[Len(d) + i] = c[i]
      BY <2>1, Joined
    <2>3. QED
      BY <1>3, <1>6, <2>1, <2>2
  <1>8. FailWrites(kind, n) = t
    BY DEF FailWrites
  <1> HIDE DEF t, a, b, c, d
  <1>9. \A i \in 1..Len(t) : i \notin {1, Len(d) + 1, Len(d) + 2} => t[i] \in Neutral
    BY <1>6, <1>7
  <1>10. /\ 1 \in 1..Len(t) /\ Len(d) + 1 \in 1..Len(t) /\ Len(d) + 2 \in 1..Len(t)
         /\ 1 < Len(d) + 1 /\ Len(d) + 1 < Len(d) + 2
    BY <1>6, <1>7
  <1>11. RunPlan(t, "failed")
    <2>1. /\ t[1] = Move(job, "failed") /\ t[Len(d) + 1] = Event(job, "failed", root)
          /\ t[Len(d) + 2] = Metric(job)
      BY <1>3, <1>6, <1>7
    <2>2. t \in Seq(WriteSet) /\ "failed" \in Reached
      BY <1>7 DEF Reached
    <2>3. QED
      BY <1>9, <1>10, <2>1, <2>2, PlanShape
  <1>12. QED
    BY <1>8, <1>11

-----------------------------------------------------------------------------
(* The sweep's list, the rest of a list, and the trail after one more event. *)

\* SetToSeq lists the elements of a finite set, each once.
LEMMA SequenceOf ==
  ASSUME NEW S \in SUBSET Jobs
  PROVE  LET s == SetToSeq(S)
         IN  /\ Len(s) \in Nat
             /\ s \in [1..Len(s) -> S]
             /\ \A i, k \in 1..Len(s) : s[i] = s[k] => i = k
  <1> DEFINE N == Cardinality(S)
             s == SetToSeq(S)
  <1>1. IsFiniteSet(S)
    BY FS_Subset, WorkerAssumption DEF WorkerAssumption
  <1>2. N \in Nat /\ ExistsBijection(1..N, S)
    BY <1>1, FS_CardinalityType
  <1>3. \E f \in [1..N -> S] : IsInjective(f)
    BY <1>2 DEF ExistsBijection, Bijection, Injection
  <1>4. s \in [1..N -> S] /\ IsInjective(s)
    BY <1>3 DEF SetToSeq
  <1>5. Len(s) = N
    BY <1>2, <1>4
  <1>6. QED
    BY <1>2, <1>4, <1>5 DEF IsInjective

\* The writes of a sweep that found the orphans of s.
SweepList(s) == [i \in 1..Len(s) |-> Move(s[i], "failed")]
                  \o [i \in 1..Len(s) |-> Event(s[i], "reclaimed_stale", 0)]
                  \o [i \in 1..Len(s) |-> Metric(s[i])]

\* Its moves come first, then its events, then its metrics.
LEMMA SweepElements ==
  ASSUME NEW s, NEW n \in Nat, n = Len(s), s \in [1..n -> Jobs]
  PROVE  /\ SweepList(s) \in Seq(WriteSet)
         /\ Len(SweepList(s)) = n + n + n
         /\ \A i \in 1..n : /\ SweepList(s)[i] = Move(s[i], "failed")
                            /\ SweepList(s)[n + i] = Event(s[i], "reclaimed_stale", 0)
                            /\ SweepList(s)[n + n + i] = Metric(s[i])
  <1> DEFINE a == [i \in 1..n |-> Move(s[i], "failed")]
             b == [i \in 1..n |-> Event(s[i], "reclaimed_stale", 0)]
             c == [i \in 1..n |-> Metric(s[i])]
             d == a \o b
  <1>1. ASSUME NEW j \in Jobs
        PROVE  /\ Move(j, "failed") \in WriteSet
               /\ Event(j, "reclaimed_stale", 0) \in WriteSet
               /\ Metric(j) \in WriteSet
    BY DEF Move, Event, Metric, WriteSet, Actions
  <1>2. \A i \in 1..n : s[i] \in Jobs
    OBVIOUS
  <1>3. a \in Seq(WriteSet) /\ Len(a) = n /\ \A i \in 1..n : a[i] = Move(s[i], "failed")
    BY <1>1, <1>2
  <1>4. b \in Seq(WriteSet) /\ Len(b) = n /\ \A i \in 1..n : b[i] = Event(s[i], "reclaimed_stale", 0)
    BY <1>1, <1>2
  <1>5. c \in Seq(WriteSet) /\ Len(c) = n /\ \A i \in 1..n : c[i] = Metric(s[i])
    BY <1>1, <1>2
  <1>6. SweepList(s) = d \o c
    BY DEF SweepList
  <1> HIDE DEF a, b, c
  <1>7. /\ d \in Seq(WriteSet) /\ Len(d) = n + n
        /\ \A i \in 1..n : d[i] = a[i] /\ d[n + i] = b[i]
    <2>1. a \in Seq(WriteSet) /\ b \in Seq(WriteSet)
      BY <1>3, <1>4
    <2>2. /\ a \o b \in Seq(WriteSet) /\ Len(a \o b) = Len(a) + Len(b)
          /\ \A i \in 1..Len(a) : (a \o b)[i] = a[i]
          /\ \A i \in 1..Len(b) : (a \o b)[Len(a) + i] = b[i]
      BY ONLY <2>1, Joined
    <2>3. QED
      BY <1>3, <1>4, <2>2
  <1> HIDE DEF d
  <1>8. /\ d \o c \in Seq(WriteSet) /\ Len(d \o c) = n + n + n
        /\ \A i \in 1..(n + n) : (d \o c)[i] = d[i]
        /\ \A i \in 1..n : (d \o c)[n + n + i] = c[i]
    <2>1. d \in Seq(WriteSet) /\ c \in Seq(WriteSet)
      BY <1>5, <1>7
    <2>2. /\ d \o c \in Seq(WriteSet) /\ Len(d \o c) = Len(d) + Len(c)
          /\ \A i \in 1..Len(d) : (d \o c)[i] = d[i]
          /\ \A i \in 1..Len(c) : (d \o c)[Len(d) + i] = c[i]
      BY ONLY <2>1, Joined
    <2>3. QED
      BY <1>5, <1>7, <2>2
  <1>9. \A i \in 1..n : i \in 1..(n + n) /\ n + i \in 1..(n + n)
    OBVIOUS
  <1>10. QED
    BY <1>3, <1>4, <1>5, <1>6, <1>7, <1>8, <1>9

\* They are in order.
LEMMA SweepPlan ==
  ASSUME NEW S \in SUBSET Orphans
  PROVE  LET t == SweepList(SetToSeq(S))
         IN  /\ GoodPlan(t)
             /\ \A i \in DOMAIN t : /\ t[i].job \in S
                                    /\ t[i].write = "event" => t[i].what = "reclaimed_stale"
                                    /\ IsMove(t, i) => t[i].what = "failed"
  <1> DEFINE s == SetToSeq(S)
             n == Len(s)
             t == SweepList(s)
  <1>1. S \in SUBSET Jobs /\ \A j \in S : status[j] = "running"
    BY DEF Orphans
  <1>2. /\ n \in Nat /\ s \in [1..n -> S]
        /\ \A i, k \in 1..n : s[i] = s[k] => i = k
    BY <1>1, SequenceOf
  <1> HIDE DEF s
  <1>3. /\ t \in Seq(WriteSet)
        /\ Len(t) = n + n + n
        /\ \A i \in 1..n : /\ t[i] = Move(s[i], "failed")
                           /\ t[n + i] = Event(s[i], "reclaimed_stale", 0)
                           /\ t[n + n + i] = Metric(s[i])
    <2>1. n \in Nat /\ n = Len(s) /\ s \in [1..n -> Jobs]
      BY <1>1, <1>2
    <2> HIDE DEF n
    <2>2. QED
      BY <2>1, SweepElements
  <1> HIDE DEF t
  <1> HIDE DEF n
  <1>4. DOMAIN t = 1..(n + n + n)
    BY <1>2, <1>3
  <1>5. ASSUME NEW i \in 1..n
        PROVE /\ i \in DOMAIN t /\ n + i \in DOMAIN t /\ n + n + i \in DOMAIN t
              /\ s[i] \in S
              /\ t[i].job = s[i] /\ t[n + i].job = s[i] /\ t[n + n + i].job = s[i]
              /\ IsMove(t, i) /\ t[i].what = "failed" /\ ~IsClose(t, i) /\ ~IsMetric(t, i)
              /\ t[i].write # "event"
              /\ IsClose(t, n + i) /\ t[n + i].what = "reclaimed_stale"
              /\ ~IsMove(t, n + i) /\ ~IsMetric(t, n + i)
              /\ IsMetric(t, n + n + i) /\ ~IsMove(t, n + n + i) /\ ~IsClose(t, n + n + i)
              /\ t[n + n + i].write # "event"
    <2>1. i \in DOMAIN t /\ n + i \in DOMAIN t /\ n + n + i \in DOMAIN t /\ s[i] \in S
      BY <1>2, <1>4
    <2>2. /\ t[i] = Move(s[i], "failed")
          /\ t[n + i] = Event(s[i], "reclaimed_stale", 0)
          /\ t[n + n + i] = Metric(s[i])
      BY <1>3
    <2>3. /\ t[i].job = s[i] /\ IsMove(t, i) /\ t[i].what = "failed" /\ ~IsClose(t, i)
          /\ ~IsMetric(t, i) /\ t[i].write # "event"
      BY <2>2 DEF Move, IsMove, IsClose, IsMetric
    <2>4. /\ t[n + i].job = s[i] /\ IsClose(t, n + i) /\ t[n + i].what = "reclaimed_stale"
          /\ ~IsMove(t, n + i) /\ ~IsMetric(t, n + i)
      BY <2>2 DEF Event, IsMove, IsClose, IsMetric, Closing
    <2>5. /\ t[n + n + i].job = s[i] /\ IsMetric(t, n + n + i) /\ ~IsMove(t, n + n + i)
          /\ ~IsClose(t, n + n + i) /\ t[n + n + i].write # "event"
      BY <2>2 DEF Metric, IsMove, IsClose, IsMetric
    <2>6. QED
      BY <2>1, <2>3, <2>4, <2>5
  <1>6. ASSUME NEW i \in DOMAIN t
        PROVE  \E k \in 1..n : i = k \/ i = n + k \/ i = n + n + k
    <2>1. CASE i <= n
      BY <2>1, <1>2, <1>4
    <2>2. CASE n < i /\ i <= n + n
      <3>1. i - n \in 1..n /\ i = n + (i - n)
        BY <2>2, <1>2, <1>4
      <3>2. QED
        BY <3>1
    <2>3. CASE n + n < i
      <3>1. i - (n + n) \in 1..n /\ i = n + n + (i - (n + n))
        BY <2>3, <1>2, <1>4
      <3>2. QED
        BY <3>1
    <2>4. QED
      BY <2>1, <2>2, <2>3, <1>2, <1>4
  <1>7. ASSUME NEW i \in DOMAIN t
        PROVE  \E k \in 1..n : /\ t[i].job = s[k]
                               /\ IsMove(t, i) => i = k
                               /\ IsClose(t, i) => i = n + k
                               /\ IsMetric(t, i) => i = n + n + k
                               /\ t[i].write = "event" => t[i].what = "reclaimed_stale"
    <2>1. PICK k \in 1..n : i = k \/ i = n + k \/ i = n + n + k
      BY <1>6
    <2>2. \/ t[i].job = s[k] /\ i = k /\ ~IsClose(t, i) /\ ~IsMetric(t, i) /\ t[i].write # "event"
          \/ t[i].job = s[k] /\ i = n + k /\ ~IsMove(t, i) /\ ~IsMetric(t, i) /\ t[i].what = "reclaimed_stale"
          \/ t[i].job = s[k] /\ i = n + n + k /\ ~IsMove(t, i) /\ ~IsClose(t, i) /\ t[i].write # "event"
      BY <2>1, <1>5
    <2>3. QED
      BY <2>2
  <1>8. Ordered(t)
    <2>1. ASSUME NEW i \in DOMAIN t, IsMove(t, i)
          PROVE  /\ \E k \in DOMAIN t : /\ k > i /\ IsClose(t, k) /\ t[k].job = t[i].job
                                        /\ Outcome(t[k].what) = t[i].what
                 /\ \E k \in DOMAIN t : k > i /\ IsMetric(t, k) /\ t[k].job = t[i].job
      <3>1. i \in 1..n
        BY <2>1, <1>7
      <3>2. n + i > i /\ n + n + i > i
        BY <3>1, <1>2
      <3>3. Outcome("reclaimed_stale") = "failed"
        BY DEF Outcome
      <3>4. QED
        BY <3>1, <3>2, <3>3, <1>5
    <2>2. ASSUME NEW i \in DOMAIN t, NEW k \in DOMAIN t, t[k].job = t[i].job
          PROVE  /\ IsMove(t, i) /\ IsMove(t, k) => i = k
                 /\ IsClose(t, i) /\ IsClose(t, k) => i = k
                 /\ IsMetric(t, i) /\ IsMetric(t, k) => i = k
      <3>1. PICK p \in 1..n : /\ t[i].job = s[p]
                              /\ IsMove(t, i) => i = p
                              /\ IsClose(t, i) => i = n + p
                              /\ IsMetric(t, i) => i = n + n + p
        BY <1>7
      <3>2. PICK q \in 1..n : /\ t[k].job = s[q]
                              /\ IsMove(t, k) => k = q
                              /\ IsClose(t, k) => k = n + q
                              /\ IsMetric(t, k) => k = n + n + q
        BY <1>7
      <3>3. p = q
        BY <2>2, <3>1, <3>2, <1>2
      <3>4. QED
        BY <3>1, <3>2, <3>3
    <2>3. QED
      BY <2>1, <2>2 DEF Ordered
  <1>9. ASSUME NEW i \in DOMAIN t
        PROVE  /\ status[t[i].job] = "running" /\ t[i].job \in S
               /\ IsClose(t, i) => MoveBefore(t, i, Outcome(t[i].what))
               /\ IsMetric(t, i) => MoveBefore(t, i, "failed")
    <2>1. PICK k \in 1..n : /\ t[i].job = s[k]
                            /\ IsClose(t, i) => i = n + k
                            /\ IsMetric(t, i) => i = n + n + k
      BY <1>7
    <2>2. k < n + k /\ k < n + n + k
      BY <1>2
    <2>3. Outcome("reclaimed_stale") = "failed"
      BY DEF Outcome
    <2>4. QED
      BY <2>1, <2>2, <2>3, <1>1, <1>5 DEF MoveBefore
  <1>10. "failed" \in Statuses
    BY DEF Statuses
  <1>11. GoodPlan(t)
    BY <1>3, <1>8, <1>9, <1>10 DEF GoodPlan
  <1>12. ASSUME NEW i \in DOMAIN t
         PROVE /\ t[i].write = "event" => t[i].what = "reclaimed_stale"
               /\ IsMove(t, i) => t[i].what = "failed"
    BY <1>5, <1>7
  <1>13. QED
    BY <1>9, <1>11, <1>12 DEF t, s

\* The rest of a list.
LEMMA Tails ==
  ASSUME NEW t \in Seq(WriteSet), t # <<>>
  PROVE  /\ 1 \in DOMAIN t /\ Head(t) = t[1] /\ t[1] \in WriteSet
         /\ Tail(t) \in Seq(WriteSet)
         /\ \A i \in DOMAIN Tail(t) : i \in Nat /\ i + 1 \in DOMAIN t /\ Tail(t)[i] = t[i + 1]
         /\ \A i \in DOMAIN t : i # 1 => /\ i \in Nat /\ i - 1 \in DOMAIN Tail(t)
                                         /\ Tail(t)[i - 1] = t[i]
  <1>1. Tail(t) \in Seq(WriteSet) /\ Len(Tail(t)) = Len(t) - 1
        /\ \A i \in 1..Len(Tail(t)) : Tail(t)[i] = t[i + 1]
    BY HeadTailProperties
  <1>2. Len(t) \in Nat /\ Len(t) > 0 /\ DOMAIN t = 1..Len(t) /\ DOMAIN Tail(t) = 1..(Len(t) - 1)
    BY <1>1
  <1>3. ASSUME NEW i \in DOMAIN t, i # 1
        PROVE i \in Nat /\ i - 1 \in DOMAIN Tail(t) /\ Tail(t)[i - 1] = t[i]
    <2>1. i - 1 \in 1..Len(Tail(t)) /\ (i - 1) + 1 = i
      BY <1>1, <1>2, <1>3
    <2>2. QED
      BY <1>1, <1>2, <2>1
  <1>4. QED
    BY <1>1, <1>2, <1>3

\* What is left after a write is still in order.
LEMMA TailOrdered ==
  ASSUME NEW t \in Seq(WriteSet), t # <<>>, Ordered(t)
  PROVE  Ordered(Tail(t))
  <1> DEFINE u == Tail(t)
  <1>1. \A i \in DOMAIN u : /\ i \in Nat /\ i + 1 \in DOMAIN t
                            /\ u[i].job = t[i + 1].job /\ u[i].what = t[i + 1].what
                            /\ IsMove(u, i) <=> IsMove(t, i + 1)
                            /\ IsClose(u, i) <=> IsClose(t, i + 1)
                            /\ IsMetric(u, i) <=> IsMetric(t, i + 1)
    BY Tails DEF IsMove, IsClose, IsMetric
  <1>2. \A i \in DOMAIN t : i # 1 => /\ i \in Nat /\ i - 1 \in DOMAIN u
                                     /\ u[i - 1].job = t[i].job /\ u[i - 1].what = t[i].what
                                     /\ IsClose(u, i - 1) <=> IsClose(t, i)
                                     /\ IsMetric(u, i - 1) <=> IsMetric(t, i)
    BY Tails DEF IsClose, IsMetric
  <1> HIDE DEF u
  <1>3. ASSUME NEW i \in DOMAIN u, IsMove(u, i)
        PROVE  /\ \E k \in DOMAIN u : /\ k > i /\ IsClose(u, k) /\ u[k].job = u[i].job
                                      /\ Outcome(u[k].what) = u[i].what
               /\ \E k \in DOMAIN u : k > i /\ IsMetric(u, k) /\ u[k].job = u[i].job
    <2>1. i \in Nat /\ i + 1 \in DOMAIN t /\ IsMove(t, i + 1)
      BY <1>1, <1>3
    <2>2. PICK k \in DOMAIN t : /\ k > i + 1 /\ IsClose(t, k) /\ t[k].job = t[i + 1].job
                                /\ Outcome(t[k].what) = t[i + 1].what
      BY <2>1 DEF Ordered
    <2>3. PICK m \in DOMAIN t : m > i + 1 /\ IsMetric(t, m) /\ t[m].job = t[i + 1].job
      BY <2>1 DEF Ordered
    <2>4. k \in Nat /\ k # 1 /\ k - 1 > i /\ m \in Nat /\ m # 1 /\ m - 1 > i
      BY <2>1, <2>2, <2>3
    <2>5. /\ k - 1 \in DOMAIN u /\ u[k - 1].job = u[i].job /\ IsClose(u, k - 1)
          /\ Outcome(u[k - 1].what) = u[i].what
      BY <1>1, <1>2, <2>2, <2>4
    <2>6. m - 1 \in DOMAIN u /\ u[m - 1].job = u[i].job /\ IsMetric(u, m - 1)
      BY <1>1, <1>2, <2>3, <2>4
    <2>7. QED
      BY <2>4, <2>5, <2>6
  <1>4. ASSUME NEW i \in DOMAIN u, NEW k \in DOMAIN u, u[k].job = u[i].job
        PROVE  /\ IsMove(u, i) /\ IsMove(u, k) => i = k
               /\ IsClose(u, i) /\ IsClose(u, k) => i = k
               /\ IsMetric(u, i) /\ IsMetric(u, k) => i = k
    <2>1. i \in Nat /\ k \in Nat /\ i + 1 \in DOMAIN t /\ k + 1 \in DOMAIN t /\ t[k + 1].job = t[i + 1].job
      BY <1>1, <1>4
    <2>2. /\ IsMove(t, i + 1) /\ IsMove(t, k + 1) => i + 1 = k + 1
          /\ IsClose(t, i + 1) /\ IsClose(t, k + 1) => i + 1 = k + 1
          /\ IsMetric(t, i + 1) /\ IsMetric(t, k + 1) => i + 1 = k + 1
      BY <2>1 DEF Ordered
    <2>3. QED
      BY <1>1, <2>1, <2>2
  <1>5. Ordered(u)
    BY <1>3, <1>4 DEF Ordered
  <1>6. QED
    BY <1>5 DEF u

\* A move stays before the write it belongs to until it is made.
LEMMA TailMoveBefore ==
  ASSUME NEW t \in Seq(WriteSet), t # <<>>, NEW i \in DOMAIN Tail(t), NEW s,
         MoveBefore(t, i + 1, s), ~(IsMove(t, 1) /\ t[1].job = t[i + 1].job /\ t[1].what = s)
  PROVE  MoveBefore(Tail(t), i, s)
  <1>1. PICK k \in DOMAIN t : k < i + 1 /\ IsMove(t, k) /\ t[k].job = t[i + 1].job /\ t[k].what = s
    BY DEF MoveBefore
  <1>2. /\ k # 1 /\ k \in Nat /\ k - 1 \in DOMAIN Tail(t) /\ Tail(t)[k - 1] = t[k]
        /\ i \in Nat /\ Tail(t)[i] = t[i + 1]
    BY <1>1, Tails
  <1>3. k - 1 < i /\ IsMove(Tail(t), k - 1)
    BY <1>1, <1>2 DEF IsMove
  <1>4. QED
    BY <1>1, <1>2, <1>3 DEF MoveBefore

\* The events of the trail.
EventSet == [action : Actions, parent : Nat, step : BOOLEAN]

\* The trails after one more event.
LEMMA Recorded ==
  ASSUME trail \in [Jobs -> Seq(EventSet)], NEW j \in Jobs, NEW e \in EventSet,
         trail' = [trail EXCEPT ![j] = Append(@, e)]
  PROVE  /\ trail' \in [Jobs -> Seq(EventSet)]
         /\ \A k \in Jobs : DOMAIN trail[k] = 1..Len(trail[k]) /\ Len(trail[k]) \in Nat
         /\ DOMAIN trail'[j] = 1..(Len(trail[j]) + 1) /\ Len(trail'[j]) = Len(trail[j]) + 1
         /\ trail'[j][Len(trail[j]) + 1] = e
         /\ \A i \in 1..Len(trail[j]) : trail'[j][i] = trail[j][i]
         /\ \A k \in Jobs : k # j => trail'[k] = trail[k]
  OBVIOUS

\* What the trail says after one more event.
LEMMA NowSaid ==
  ASSUME trail \in [Jobs -> Seq(EventSet)], NEW j \in Jobs, NEW e \in EventSet,
         trail' = [trail EXCEPT ![j] = Append(@, e)], NEW k \in Jobs, NEW a
  PROVE  Said(k, a)' <=> Said(k, a) \/ (k = j /\ e.action = a)
  <1>1. CASE k = j
    <2>1. /\ DOMAIN trail[j] = 1..Len(trail[j]) /\ Len(trail[j]) \in Nat
          /\ DOMAIN trail'[j] = 1..(Len(trail[j]) + 1)
          /\ trail'[j][Len(trail[j]) + 1] = e
          /\ \A i \in 1..Len(trail[j]) : trail'[j][i] = trail[j][i]
      BY Recorded
    <2>2. \A i \in DOMAIN trail'[j] : i \in DOMAIN trail[j] \/ i = Len(trail[j]) + 1
      BY <2>1
    <2>3. \A i \in DOMAIN trail[j] : i \in DOMAIN trail'[j]
      BY <2>1
    <2>4. Len(trail[j]) + 1 \in DOMAIN trail'[j]
      BY <2>1
    <2>5. QED
      BY <1>1, <2>1, <2>2, <2>3, <2>4 DEF Said
  <1>2. CASE k # j
    BY <1>2, Recorded DEF Said
  <1>3. QED
    BY <1>1, <1>2

-----------------------------------------------------------------------------
(* What the steps do, told by what the invariants need of them.            *)

\* The run ends.
EndStep ==
    /\ pc \in InRun \ {"claimed"} /\ pc' = "write" /\ ran' \in 0..1
    /\ \E s \in Reached : RunPlan(todo', s) /\ (s = "awaiting_approval" => ~Approved(job))
    /\ opened' = opened \/ (pc = "granted" /\ opened' = opened \cup {job})
    /\ UNCHANGED <<status, approvedBy, trail, metrics, job, root, deciding, runs, cut, crashes>>

\* All ends of a run are such a step.
LEMMA EndsOfRuns ==
  ASSUME TypedInv, PlaceInv,
         \/ Refuse \/ Raise \/ Drift \/ ReadOnly \/ Prepared \/ NotPrepared
         \/ Unverified \/ NoCredential \/ OpenPr
  PROVE  EndStep
  <1>1. /\ pc \in InRun \ {"claimed"}
        /\ opened' = opened \/ (pc = "granted" /\ opened' = opened \cup {job})
    BY DEF Refuse, Raise, Drift, ReadOnly, Prepared, NotPrepared, Unverified, NoCredential,
           OpenPr, InRun
  <1>2. job \in Jobs /\ root \in Nat /\ status[job] = "running"
    BY <1>1 DEF TypedInv, TypeOK, PlaceInv
  <1>3. PICK n, t : n \in 0..1 /\ EndRun(n, t) /\
          (\/ t = GateWrites(n) /\ ~Approved(job)
           \/ t = DoneWrites(n)
           \/ \E m \in 0..1, kind \in Kinds : t = FailWrites(kind, m))
    <2>1. CASE Refuse
      BY <2>1 DEF Refuse, Kinds
    <2>2. CASE Raise
      BY <2>2 DEF Raise, Kinds
    <2>3. CASE Drift
      BY <2>3 DEF Drift, Kinds
    <2>4. CASE ReadOnly
      BY <2>4 DEF ReadOnly
    <2>5. CASE Prepared
      BY <2>5 DEF Prepared, Preparing
    <2>6. CASE NotPrepared
      BY <2>6 DEF NotPrepared, Kinds
    <2>7. CASE Unverified
      BY <2>7 DEF Unverified, Kinds
    <2>8. CASE NoCredential
      BY <2>8 DEF NoCredential
    <2>9. CASE OpenPr
      BY <2>9 DEF OpenPr
    <2>10. QED
      BY <2>1, <2>2, <2>3, <2>4, <2>5, <2>6, <2>7, <2>8, <2>9
  <1>4. \E s \in Reached : RunPlan(t, s) /\ (s = "awaiting_approval" => ~Approved(job))
    <2>1. CASE t = GateWrites(n) /\ ~Approved(job)
      BY <1>3, <2>1, <1>2, GatePlan DEF Reached
    <2>2. CASE t = DoneWrites(n)
      <3>1. RunPlan(t, "done")
        BY <1>3, <2>2, <1>2, DonePlan
      <3>2. QED
        BY <3>1 DEF Reached
    <2>3. CASE \E m \in 0..1, kind \in Kinds : t = FailWrites(kind, m)
      <3>1. RunPlan(t, "failed")
        BY <2>3, <1>2, FailPlan
      <3>2. QED
        BY <3>1 DEF Reached
    <2>4. QED
      BY <1>3, <2>1, <2>2, <2>3
  <1>5. /\ ran' = n /\ todo' = t /\ pc' = "write"
        /\ UNCHANGED <<status, approvedBy, trail, metrics, job, root, deciding, runs, cut, crashes>>
    BY <1>3 DEF EndRun, jobVars
  <1>6. QED
    BY <1>1, <1>3, <1>4, <1>5 DEF EndStep

\* The worker begins to sweep.
SweepStep ==
    /\ pc \in {"start", "poll"} /\ pc' = "write"
    /\ GoodPlan(todo')
    /\ \A i \in DOMAIN todo' : /\ todo'[i].job \in Orphans
                               /\ todo'[i].write = "event" => todo'[i].what = "reclaimed_stale"
                               /\ IsMove(todo', i) => todo'[i].what = "failed"
    /\ UNCHANGED <<status, approvedBy, trail, metrics, opened, job, root, ran, deciding, runs,
                   cut, crashes>>

\* Sweep is such a step.
LEMMA Sweeps ==
  ASSUME Sweep
  PROVE  SweepStep
  <1>1. PICK S \in SUBSET Orphans : todo' = SweepList(SetToSeq(S))
    BY DEF Sweep, SweepList
  <1>2. /\ GoodPlan(todo')
        /\ \A i \in DOMAIN todo' : /\ todo'[i].job \in S
                                   /\ todo'[i].write = "event" => todo'[i].what = "reclaimed_stale"
                                   /\ IsMove(todo', i) => todo'[i].what = "failed"
    BY <1>1, SweepPlan
  <1>3. QED
    BY <1>2 DEF Sweep, SweepStep, Idle, jobVars

\* The next write, w.  A move finds its job running.
WriteStep(w) ==
    /\ pc = "write" /\ todo # <<>> /\ w = todo[1] /\ todo' = Tail(todo)
    /\ UNCHANGED <<approvedBy, opened, pc, job, root, ran, deciding, runs, cut, crashes>>

WriteEvent(w) == /\ w.write = "event" /\ w.what \in Actions /\ w.parent \in Nat
                 /\ trail' = [trail EXCEPT ![w.job] = Append(@, EventRec(w.what, w.parent, TRUE))]
                 /\ UNCHANGED <<status, metrics>>

WriteMove(w) == /\ w.write = "status" /\ w.what \in Reached /\ status[w.job] = "running"
                /\ status' = [status EXCEPT ![w.job] = w.what]
                /\ UNCHANGED <<trail, metrics>>

WriteMetric(w) == /\ w.write = "metric"
                  /\ metrics' = [metrics EXCEPT ![w.job] = @ + 1]
                  /\ UNCHANGED <<status, trail>>

\* Write makes one of the three writes.
LEMMA Writes ==
  ASSUME TypedInv, TodoInv, Write
  PROVE  \E w \in WriteSet : /\ w.job \in Jobs
                             /\ WriteStep(w)
                             /\ WriteEvent(w) \/ WriteMove(w) \/ WriteMetric(w)
  <1>1. todo \in Seq(WriteSet) /\ todo # <<>>
    BY DEF TypedInv, Write
  <1>2. 1 \in DOMAIN todo /\ Head(todo) = todo[1] /\ todo[1] \in WriteSet
    BY <1>1, Tails
  <1>3. WriteStep(todo[1])
    BY <1>1, <1>2 DEF Write, WriteStep
  <1>4. todo[1].job \in Jobs /\ todo[1].write \in {"event", "status", "metric"}
    BY <1>2 DEF WriteSet
  <1>5. CASE todo[1].write = "event"
    <2>1. todo[1].what \in Actions /\ todo[1].parent \in Nat
      BY <1>2, <1>5 DEF WriteSet
    <2>2. WriteEvent(todo[1])
      BY <1>2, <1>5, <2>1 DEF Write, WriteEvent, Record
    <2>3. QED
      BY <1>2, <1>3, <1>4, <2>2
  <1>6. CASE todo[1].write = "status"
    <2>1. todo[1].what \in Reached
      BY <1>2, <1>6 DEF WriteSet, Reached
    <2>2. status[todo[1].job] = "running"
      BY <1>2, <1>6 DEF TodoInv, TodoItem, IsMove
    <2>3. WriteMove(todo[1])
      BY <1>2, <1>6, <2>1, <2>2 DEF Write, WriteMove
    <2>4. QED
      BY <1>2, <1>3, <1>4, <2>3
  <1>7. CASE todo[1].write = "metric"
    <2>1. WriteMetric(todo[1])
      BY <1>2, <1>7 DEF Write, WriteMetric
    <2>2. QED
      BY <1>2, <1>3, <1>4, <2>1
  <1>8. QED
    BY <1>4, <1>5, <1>6, <1>7

\* The steps that move the worker and write nothing.
QuietStep ==
    /\ \/ pc = "down" /\ pc' = "start" /\ UNCHANGED <<job, root, ran>>
       \/ pc = "check" /\ pc' = "exec" /\ UNCHANGED <<job, root, ran>>
       \/ pc = "exec" /\ Executing(job) /\ pc' = "issued" /\ UNCHANGED <<job, root, ran>>
       \/ /\ pc = "write" /\ todo = <<>> /\ pc' = "poll"
          /\ job' = NoJob /\ root' = 0 /\ ran' = 0
       \/ UNCHANGED <<pc, job, root, ran>>
    /\ UNCHANGED <<status, approvedBy, trail, metrics, opened, todo, deciding, runs, cut, crashes>>

\* Those steps.
LEMMA QuietSteps ==
  ASSUME Start \/ Admit \/ IssueGrant \/ Return \/ PollNothing \/ UNCHANGED vars
  PROVE  QuietStep
  BY DEF Start, Admit, IssueGrant, Return, PollNothing, vars, jobVars, workerVars, QuietStep

\* Every step is of one of these kinds.
LEMMA StepKinds ==
  ASSUME TypedInv, PlaceInv, TodoInv, [Next]_vars
  PROVE  \/ QuietStep \/ EndStep \/ SweepStep \/ AuditClaimed \/ AuditGrant \/ Crash
         \/ \E w \in WriteSet : /\ w.job \in Jobs /\ WriteStep(w)
                                /\ WriteEvent(w) \/ WriteMove(w) \/ WriteMetric(w)
         \/ \E j \in Jobs : Claim(j) \/ Enqueue(j)
         \/ \E a \in Approvers : \/ AuditDecision(a) \/ DecisionLost(a)
                                 \/ \E j \in Jobs : Decide(a, j)
  BY EndsOfRuns, Sweeps, Writes, QuietSteps DEF Next, WorkerStep

\* The step that a grant hangs on is one of the gate.
LEMMA ApprovalStepIs ==
  ASSUME NEW j, LastStep(j), ApprovalSteps(j) # {}
  PROVE  ApprovalStep(j) \in ApprovalSteps(j)
  <1>1. \A k \in ApprovalSteps(j) : k \in DOMAIN trail[j]
    BY DEF ApprovalSteps
  <1>2. PICK m \in ApprovalSteps(j) : \A k \in ApprovalSteps(j) : k <= m
    BY DEF LastStep
  <1>3. \A k \in ApprovalSteps(j) : m >= k
    BY <1>2
  <1>4. QED
    BY <1>2, <1>3 DEF ApprovalStep, Max

\* The trail stays finite.
LEMMA LastStepKept ==
  ASSUME trail \in [Jobs -> Seq(EventSet)], NEW j \in Jobs, NEW e \in EventSet,
         trail' = [trail EXCEPT ![j] = Append(@, e)], NEW k \in Jobs, LastStep(k)
  PROVE  LastStep(k)'
  <1>1. CASE k = j
    <2> DEFINE n == Len(trail[j])
    <2>1. /\ DOMAIN trail[j] = 1..n /\ n \in Nat /\ DOMAIN trail'[j] = 1..(n + 1)
          /\ trail'[j][n + 1] = e
          /\ \A i \in 1..n : trail'[j][i] = trail[j][i]
      BY Recorded
    <2> HIDE DEF n
    <2>2. ApprovalSteps(j)' \ {n + 1} = ApprovalSteps(j)
      BY <2>1 DEF ApprovalSteps
    <2>3. \A i \in ApprovalSteps(j)' : i \in 1..(n + 1)
      BY <2>1 DEF ApprovalSteps
    <2>4. CASE n + 1 \in ApprovalSteps(j)'
      BY <1>1, <2>1, <2>3, <2>4 DEF LastStep
    <2>5. CASE n + 1 \notin ApprovalSteps(j)'
      BY <1>1, <2>2, <2>5 DEF LastStep
    <2>6. QED
      BY <2>4, <2>5
  <1>2. CASE k # j
    <2>1. ApprovalSteps(k)' = ApprovalSteps(k)
      BY <1>2, Recorded DEF ApprovalSteps
    <2>2. QED
      BY <2>1 DEF LastStep
  <1>3. QED
    BY <1>1, <1>2

\* Without a change of the trail nothing is said.
LEMMA NothingSaid ==
  ASSUME NEW k \in Jobs, trail' = trail
  PROVE  /\ ApprovalSteps(k)' = ApprovalSteps(k) /\ (LastStep(k)' <=> LastStep(k))
         /\ Endings(k)' = Endings(k)
         /\ \A a : Said(k, a)' <=> Said(k, a)
  BY DEF ApprovalSteps, LastStep, Endings, Said

-----------------------------------------------------------------------------
(* Types, places and statuses.                                             *)

\* What most steps need of the types.
LEMMA TypeParts ==
  ASSUME TypedInv
  PROVE  /\ trail \in [Jobs -> Seq(EventSet)]
         /\ status \in [Jobs -> Statuses]
         /\ todo \in Seq(WriteSet)
         /\ job \in Jobs \cup {NoJob} /\ root \in Nat
         /\ NoJob \notin Jobs
         /\ pc \in {"down", "start", "poll"} => job = NoJob /\ root = 0 /\ ran = 0 /\ todo = <<>>
  BY WorkerAssumption DEF TypedInv, TypeOK, EventSet, WorkerAssumption

\* TypeOK, the trail apart.
Fields ==
    /\ status \in [Jobs -> Statuses]
    /\ approvedBy \in [Jobs -> Approvers \cup {NoOne}]
    /\ metrics \in [Jobs -> Nat]
    /\ opened \subseteq PrJobs
    /\ pc \in PCs
    /\ job \in Jobs \cup {NoJob}
    /\ root \in Nat
    /\ ran \in 0..1
    /\ deciding \in [Approvers -> Jobs \cup {NoJob}]
    /\ runs \in [Jobs -> Nat]
    /\ cut \subseteq Jobs
    /\ crashes \in 0..MaxCrashes
    /\ todo \in Seq(WriteSet)

\* The worker between two runs.
Resting == pc \in {"down", "start", "poll"} => job = NoJob /\ root = 0 /\ ran = 0 /\ todo = <<>>

\* The rest of TypedInv.
TrailTyped == trail \in [Jobs -> Seq(EventSet)] /\ \A j \in Jobs : LastStep(j)

LEMMA TypedSplit == TypedInv <=> Fields /\ Resting /\ TrailTyped
  BY DEF TypedInv, TypeOK, Fields, Resting, TrailTyped, EventSet

\* An event keeps the trail typed.
LEMMA TrailStep ==
  ASSUME TypedInv,
         \/ UNCHANGED trail
         \/ \E j \in Jobs, e \in EventSet : trail' = [trail EXCEPT ![j] = Append(@, e)]
  PROVE  TrailTyped'
  <1>1. trail \in [Jobs -> Seq(EventSet)] /\ \A k \in Jobs : LastStep(k)
    BY TypedSplit DEF TrailTyped
  <1>2. CASE UNCHANGED trail
    BY <1>1, <1>2, NothingSaid DEF TrailTyped
  <1>3. ASSUME NEW j \in Jobs, NEW e \in EventSet, trail' = [trail EXCEPT ![j] = Append(@, e)]
        PROVE  TrailTyped'
    <2>1. trail' \in [Jobs -> Seq(EventSet)]
      BY <1>1, <1>3, Recorded
    <2>2. \A k \in Jobs : LastStep(k)'
      BY <1>1, <1>3, LastStepKept
    <2>3. QED
      BY <2>1, <2>2 DEF TrailTyped
  <1>4. QED
    BY <1>2, <1>3

\* The step appends e to the trail of j.
Says(j, e) == /\ j \in Jobs /\ e \in EventSet
              /\ trail' = [trail EXCEPT ![j] = Append(@, e)]

\* The steps that record an event, and which.
LEMMA TrailGrows ==
  ASSUME TypedInv, PlaceInv, TodoInv, [Next]_vars
  PROVE  \/ UNCHANGED trail
         \/ AuditClaimed /\ Says(job, EventRec("claimed", 0, TRUE))
         \/ AuditGrant /\ Says(job, EventRec("write_credentials_issued", ApprovalStep(job), TRUE))
         \/ \E a \in Approvers :
               /\ AuditDecision(a)
               /\ Says(deciding[a], EventRec(Decision(deciding[a]), 0, a \notin WebApprovers))
         \/ \E w \in WriteSet : /\ WriteStep(w) /\ WriteEvent(w)
                                /\ Says(w.job, EventRec(w.what, w.parent, TRUE))
  <1>1. CASE AuditClaimed
    <2>1. job \in Jobs
      BY <1>1 DEF AuditClaimed, PlaceInv, InRun
    <2>2. EventRec("claimed", 0, TRUE) \in EventSet
      BY DEF EventRec, EventSet, Actions
    <2>3. QED
      BY <1>1, <2>1, <2>2 DEF AuditClaimed, Record, Says
  <1>2. CASE AuditGrant
    <2>1. job \in Jobs
      BY <1>2 DEF AuditGrant, PlaceInv, InRun
    <2>2. ApprovalStep(job) \in Nat
      <3>1. CASE ApprovalSteps(job) = {}
        BY <3>1 DEF ApprovalStep
      <3>2. CASE ApprovalSteps(job) # {}
        <4>1. ApprovalStep(job) \in ApprovalSteps(job)
          BY <2>1, <3>2, ApprovalStepIs DEF TypedInv
        <4>2. ApprovalStep(job) \in DOMAIN trail[job]
          BY <4>1 DEF ApprovalSteps
        <4>3. DOMAIN trail[job] = 1..Len(trail[job])
          BY <2>1, TypeParts
        <4>4. QED
          BY <4>2, <4>3
      <3>3. QED
        BY <3>1, <3>2
    <2>3. EventRec("write_credentials_issued", ApprovalStep(job), TRUE) \in EventSet
      BY <2>2 DEF EventRec, EventSet, Actions
    <2>4. QED
      BY <1>2, <2>1, <2>3 DEF AuditGrant, Record, Says
  <1>3. ASSUME NEW a \in Approvers, AuditDecision(a)
        PROVE  Says(deciding[a], EventRec(Decision(deciding[a]), 0, a \notin WebApprovers))
    <2>1. deciding[a] \in Jobs
      BY <1>3 DEF AuditDecision, TypedInv, TypeOK
    <2>2. EventRec(Decision(deciding[a]), 0, a \notin WebApprovers) \in EventSet
      BY DEF EventRec, EventSet, Decision, Actions
    <2>3. QED
      BY <1>3, <2>1, <2>2 DEF AuditDecision, Says
  <1>4. ASSUME NEW w \in WriteSet, w.job \in Jobs, WriteEvent(w)
        PROVE  Says(w.job, EventRec(w.what, w.parent, TRUE))
    <2>1. EventRec(w.what, w.parent, TRUE) \in EventSet
      BY <1>4 DEF EventRec, EventSet, WriteEvent
    <2>2. QED
      BY <1>4, <2>1 DEF WriteEvent, Says
  <1>5. \/ UNCHANGED trail \/ AuditClaimed \/ AuditGrant
        \/ \E a \in Approvers : AuditDecision(a)
        \/ \E w \in WriteSet : w.job \in Jobs /\ WriteStep(w) /\ WriteEvent(w)
    BY StepKinds DEF QuietStep, EndStep, SweepStep, Crash, WriteMove, WriteMetric, Claim,
       Enqueue, DecisionLost, Decide
  <1>6. QED
    BY <1>1, <1>2, <1>3, <1>4, <1>5

\* Every step keeps the types.
LEMMA TypedStep ==
  ASSUME CoreInv, [Next]_vars
  PROVE  TypedInv'
  <1> USE WorkerAssumption DEF WorkerAssumption
  <1>1. TypedInv /\ PlaceInv /\ TodoInv
    BY DEF CoreInv
  <1>2. TrailTyped'
    <2>1. UNCHANGED trail \/ \E j, e : Says(j, e)
      BY <1>1, TrailGrows
    <2>2. QED
      BY <1>1, <2>1, TrailStep DEF Says
  <1>3. Fields /\ Resting
    BY <1>1, TypedSplit
  <1>4. Fields' /\ Resting'
    <2>1. CASE QuietStep
      BY <1>3, <2>1 DEF QuietStep, Fields, Resting, PCs
    <2>2. CASE EndStep
      <3>1. job \in Jobs /\ todo' \in Seq(WriteSet) /\ opened' \subseteq PrJobs
        BY <1>1, <1>3, <2>2 DEF EndStep, RunPlan, GoodPlan, PlaceInv, InRun, Fields, Executing
      <3>2. QED
        BY <1>3, <2>2, <3>1 DEF EndStep, Fields, Resting, PCs
    <2>3. CASE SweepStep
      BY <1>3, <2>3 DEF SweepStep, GoodPlan, Fields, Resting, PCs
    <2>4. CASE AuditClaimed
      <3>1. Len(trail[job]) + 1 \in Nat
        BY <1>1, <2>4, TypeParts DEF AuditClaimed, PlaceInv, InRun
      <3>2. QED
        BY <1>3, <2>4, <3>1 DEF AuditClaimed, jobVars, Fields, Resting, PCs
    <2>5. CASE AuditGrant
      BY <1>3, <2>5 DEF AuditGrant, jobVars, Fields, Resting, PCs
    <2>6. CASE Crash
      <3>1. \A i \in DOMAIN todo : todo[i].job \in Jobs
        BY <1>3 DEF Fields, WriteSet
      <3>2. cut' \subseteq Jobs
        BY <1>3, <2>6, <3>1 DEF Crash, Fields
      <3>3. QED
        BY <1>3, <2>6, <3>2 DEF Crash, jobVars, Fields, Resting, PCs
    <2>7. ASSUME NEW w \in WriteSet, w.job \in Jobs, WriteStep(w),
                 WriteEvent(w) \/ WriteMove(w) \/ WriteMetric(w)
          PROVE  Fields' /\ Resting'
      <3>1. todo' \in Seq(WriteSet)
        BY <1>3, <2>7, Tails DEF WriteStep, Fields
      <3>2. status' \in [Jobs -> Statuses]
        BY <1>3, <2>7 DEF WriteEvent, WriteMove, WriteMetric, Fields, Reached, Statuses
      <3>3. metrics' \in [Jobs -> Nat]
        <4>1. metrics' = metrics \/ metrics' = [metrics EXCEPT ![w.job] = @ + 1]
          BY <2>7 DEF WriteEvent, WriteMove, WriteMetric
        <4>2. metrics \in [Jobs -> Nat] /\ metrics[w.job] + 1 \in Nat
          BY <1>3, <2>7 DEF Fields
        <4>3. QED
          BY <4>1, <4>2
      <3>4. QED
        BY <1>3, <2>7, <3>1, <3>2, <3>3 DEF WriteStep, Fields, Resting
    <2>8. ASSUME NEW j \in Jobs, Claim(j)
          PROVE  Fields' /\ Resting'
      BY <1>3, <2>8 DEF Claim, Fields, Resting, PCs, Statuses
    <2>9. ASSUME NEW j \in Jobs, Enqueue(j)
          PROVE  Fields' /\ Resting'
      BY <1>3, <2>9 DEF Enqueue, workerVars, Fields, Resting, Statuses
    <2>10. ASSUME NEW a \in Approvers, NEW j \in Jobs, Decide(a, j)
           PROVE  Fields' /\ Resting'
      BY <1>3, <2>10 DEF Decide, workerVars, Fields, Resting, Statuses
    <2>11. ASSUME NEW a \in Approvers, AuditDecision(a)
           PROVE  Fields' /\ Resting'
      BY <1>3, <2>11 DEF AuditDecision, jobVars, workerVars, Fields, Resting
    <2>12. ASSUME NEW a \in Approvers, DecisionLost(a)
           PROVE  Fields' /\ Resting'
      BY <1>3, <2>12 DEF DecisionLost, jobVars, workerVars, Fields, Resting
    <2>13. QED
      BY <1>1, StepKinds, <2>1, <2>2, <2>3, <2>4, <2>5, <2>6, <2>7, <2>8, <2>9, <2>10, <2>11,
         <2>12
  <1>5. TypedInv'
    BY <1>2, <1>4, TypedSplit DEF TypedInv, TypeOK, Fields, Resting, TrailTyped, EventSet
  <1>6. QED
    BY <1>5

\* Every step keeps the worker in its place.
LEMMA PlaceStep ==
  ASSUME CoreInv, [Next]_vars
  PROVE  PlaceInv'
  <1>1. TypedInv /\ PlaceInv /\ StoreInv /\ TodoInv
    BY DEF CoreInv
  <1>2. NoJob \notin Jobs /\ status \in [Jobs -> Statuses]
    BY <1>1, TypeParts
  <1>3. CASE QuietStep
    BY <1>1, <1>2, <1>3, TypeParts DEF QuietStep, PlaceInv, InRun, Executing, Approved
  <1>4. CASE EndStep
    <2>1. \E i \in DOMAIN todo' : IsMove(todo', i)
      BY <1>4 DEF EndStep, RunPlan
    <2>2. QED
      BY <1>4, <2>1 DEF EndStep, PlaceInv, InRun
  <1>5. CASE SweepStep
    BY <1>1, <1>5, TypeParts DEF SweepStep, PlaceInv, InRun
  <1>6. CASE AuditClaimed
    BY <1>1, <1>6 DEF AuditClaimed, jobVars, PlaceInv, InRun
  <1>7. CASE AuditGrant
    BY <1>1, <1>7 DEF AuditGrant, jobVars, PlaceInv, InRun, Executing, Approved
  <1>8. CASE Crash
    BY <1>8 DEF Crash, PlaceInv, InRun
  <1>9. ASSUME NEW w \in WriteSet, w.job \in Jobs, WriteStep(w),
               WriteEvent(w) \/ WriteMove(w) \/ WriteMetric(w)
        PROVE  PlaceInv'
    <2>1. pc = "write" /\ pc' = "write" /\ job' = job
      BY <1>9 DEF WriteStep
    <2>2. ASSUME job # NoJob, status'[job] = "running"
          PROVE  \E i \in DOMAIN todo' : IsMove(todo', i)
      <3>1. job \in Jobs
        BY <1>1, <2>2, TypeParts
      <3>2. w = todo[1] /\ 1 \in DOMAIN todo /\ w.job = job
        BY <1>1, <1>9, <2>2, TypeParts, Tails DEF WriteStep, TodoInv, TodoItem
      <3>3. w.write # "status" /\ status' = status
        BY <1>2, <1>9, <2>2, <3>1, <3>2 DEF WriteEvent, WriteMove, WriteMetric, Reached
      <3>4. PICK i \in DOMAIN todo : IsMove(todo, i)
        BY <1>1, <2>1, <2>2, <3>3 DEF PlaceInv
      <3>5. i # 1
        BY <3>2, <3>3, <3>4 DEF IsMove
      <3>6. i - 1 \in DOMAIN todo' /\ todo'[i - 1] = todo[i]
        BY <1>1, <1>9, <3>5, TypeParts, Tails DEF WriteStep
      <3>7. QED
        BY <3>4, <3>6 DEF IsMove
    <2>3. QED
      BY <2>1, <2>2 DEF PlaceInv, InRun
  <1>10. ASSUME NEW j \in Jobs, Claim(j)
         PROVE  PlaceInv'
    <2>1. job' = j /\ pc' = "claimed" /\ todo' = todo /\ todo = <<>> /\ status'[j] = "running"
      BY <1>1, <1>2, <1>10, TypeParts DEF Claim
    <2>2. QED
      BY <2>1 DEF PlaceInv, InRun
  <1>11. ASSUME NEW j \in Jobs, Enqueue(j)
         PROVE  PlaceInv'
    BY <1>1, <1>2, <1>11 DEF Enqueue, workerVars, PlaceInv, InRun, Executing, Approved
  <1>12. ASSUME NEW a \in Approvers, NEW j \in Jobs, Decide(a, j)
         PROVE  PlaceInv'
    <2>1. /\ status[j] = "awaiting_approval"
          /\ \A k \in Jobs : k # j => status'[k] = status[k] /\ approvedBy'[k] = approvedBy[k]
          /\ status'[j] # "running"
      BY <1>1, <1>2, <1>12 DEF Decide, TypedInv, TypeOK
    <2>2. QED
      BY <1>1, <1>12, <2>1, TypeParts DEF Decide, workerVars, PlaceInv, InRun, Executing, Approved
  <1>13. ASSUME NEW a \in Approvers, AuditDecision(a) \/ DecisionLost(a)
         PROVE  PlaceInv'
    BY <1>1, <1>13 DEF AuditDecision, DecisionLost, jobVars, workerVars, PlaceInv, InRun, Executing,
       Approved
  <1>14. QED
    BY <1>1, StepKinds, <1>3, <1>4, <1>5, <1>6, <1>7, <1>8, <1>9, <1>10, <1>11, <1>12, <1>13

\* How the status of a job changes, and by whose hand.
LEMMA StatusSteps ==
  ASSUME CoreInv, [Next]_vars, NEW j \in Jobs
  PROVE  \/ status'[j] = status[j] /\ approvedBy'[j] = approvedBy[j]
         \/ /\ status[j] = "absent" /\ status'[j] = "pending" /\ approvedBy'[j] = approvedBy[j]
            /\ Enqueue(j)
         \/ /\ status[j] \in Claimable /\ status'[j] = "running" /\ approvedBy'[j] = approvedBy[j]
            /\ Claim(j)
         \/ \E w \in WriteSet : /\ WriteStep(w) /\ WriteMove(w) /\ w.job = j
                                /\ status[j] = "running" /\ status'[j] = w.what
                                /\ approvedBy'[j] = approvedBy[j]
         \/ \E a \in Approvers : /\ Decide(a, j) /\ status[j] = "awaiting_approval"
                                 /\ status'[j] \in {"approved", "rejected"} /\ approvedBy'[j] = a
  <1>1. /\ TypedInv /\ PlaceInv /\ TodoInv
        /\ status \in [Jobs -> Statuses] /\ approvedBy \in [Jobs -> Approvers \cup {NoOne}]
    BY DEF CoreInv, TypedInv, TypeOK
  <1>2. ASSUME NEW k \in Jobs, Claim(k)
        PROVE  \/ status'[j] = status[j] /\ approvedBy'[j] = approvedBy[j]
               \/ /\ status[j] \in Claimable /\ status'[j] = "running" /\ approvedBy'[j] = approvedBy[j]
                  /\ Claim(j)
    BY <1>1, <1>2 DEF Claim
  <1>3. ASSUME NEW k \in Jobs, Enqueue(k)
        PROVE  \/ status'[j] = status[j] /\ approvedBy'[j] = approvedBy[j]
               \/ /\ status[j] = "absent" /\ status'[j] = "pending" /\ approvedBy'[j] = approvedBy[j]
                  /\ Enqueue(j)
    BY <1>1, <1>3 DEF Enqueue
  <1>4. ASSUME NEW a \in Approvers, NEW k \in Jobs, Decide(a, k)
        PROVE  \/ status'[j] = status[j] /\ approvedBy'[j] = approvedBy[j]
               \/ /\ Decide(a, j) /\ status[j] = "awaiting_approval"
                  /\ status'[j] \in {"approved", "rejected"} /\ approvedBy'[j] = a
    <2>1. PICK s \in {"approved", "rejected"} : status' = [status EXCEPT ![k] = s]
      BY <1>4 DEF Decide
    <2>2. approvedBy' = [approvedBy EXCEPT ![k] = a] /\ status[k] = "awaiting_approval"
      BY <1>4 DEF Decide
    <2>3. QED
      BY <1>1, <1>4, <2>1, <2>2
  <1>5. ASSUME NEW w \in WriteSet, w.job \in Jobs, WriteStep(w),
               WriteEvent(w) \/ WriteMove(w) \/ WriteMetric(w)
        PROVE  \/ status'[j] = status[j] /\ approvedBy'[j] = approvedBy[j]
               \/ /\ WriteMove(w) /\ w.job = j
                  /\ status[j] = "running" /\ status'[j] = w.what
                  /\ approvedBy'[j] = approvedBy[j]
    BY <1>1, <1>5 DEF WriteStep, WriteEvent, WriteMove, WriteMetric
  <1>6. ASSUME \/ QuietStep \/ EndStep \/ SweepStep \/ AuditClaimed \/ AuditGrant \/ Crash
               \/ \E a \in Approvers : AuditDecision(a) \/ DecisionLost(a)
        PROVE  status'[j] = status[j] /\ approvedBy'[j] = approvedBy[j]
    BY <1>6 DEF QuietStep, EndStep, SweepStep, AuditClaimed, AuditGrant, Crash, AuditDecision,
                DecisionLost, jobVars
  <1>7. QED
    BY <1>1, StepKinds, <1>2, <1>3, <1>4, <1>5, <1>6

\* How an approver comes to owe an event, and is rid of it.
LEMMA DecidingSteps ==
  ASSUME CoreInv, [Next]_vars, NEW a \in Approvers
  PROVE  \/ deciding'[a] = deciding[a]
         \/ deciding'[a] = NoJob /\ (AuditDecision(a) \/ DecisionLost(a))
         \/ \E j \in Jobs : deciding'[a] = j /\ Decide(a, j)
  <1>1. /\ TypedInv /\ PlaceInv /\ TodoInv
        /\ deciding \in [Approvers -> Jobs \cup {NoJob}]
    BY DEF CoreInv, TypedInv, TypeOK
  <1>2. ASSUME NEW b \in Approvers, AuditDecision(b) \/ DecisionLost(b)
        PROVE  \/ deciding'[a] = deciding[a]
               \/ deciding'[a] = NoJob /\ (AuditDecision(a) \/ DecisionLost(a))
    BY <1>1, <1>2 DEF AuditDecision, DecisionLost
  <1>3. ASSUME NEW b \in Approvers, NEW k \in Jobs, Decide(b, k)
        PROVE  deciding'[a] = deciding[a] \/ \E j \in Jobs : deciding'[a] = j /\ Decide(a, j)
    BY <1>1, <1>3 DEF Decide
  <1>4. ASSUME \/ QuietStep \/ EndStep \/ SweepStep \/ AuditClaimed \/ AuditGrant \/ Crash
               \/ \E w \in WriteSet : WriteStep(w)
               \/ \E j \in Jobs : Claim(j) \/ Enqueue(j)
        PROVE  deciding'[a] = deciding[a]
    BY <1>4 DEF QuietStep, EndStep, SweepStep, AuditClaimed, AuditGrant, Crash, WriteStep, Claim,
                Enqueue
  <1>5. QED
    BY <1>1, StepKinds, <1>2, <1>3, <1>4

\* A running job that the worker lets go is one that a kill cut off.
LEMMA RunningKept ==
  ASSUME CoreInv, [Next]_vars, NEW j \in Jobs, status[j] = "running", status'[j] = "running"
  PROVE  j = job' \/ j \in cut'
  <1>1. /\ TypedInv /\ PlaceInv /\ StoreInv /\ TodoInv
        /\ j = job \/ j \in cut
        /\ NoJob \notin Jobs
    BY TypeParts DEF CoreInv, StoreInv
  <1>2. CASE QuietStep
    <2>1. CASE pc = "write" /\ todo = <<>>
      <3>1. job # j
        BY <1>1, <2>1 DEF PlaceInv
      <3>2. QED
        BY <1>1, <1>2, <3>1 DEF QuietStep
    <2>2. CASE ~(pc = "write" /\ todo = <<>>)
      BY <1>1, <1>2, <2>2 DEF QuietStep
    <2>3. QED
      BY <2>1, <2>2
  <1>3. CASE Crash
    BY <1>1, <1>3 DEF Crash
  <1>4. CASE EndStep \/ SweepStep
    BY <1>1, <1>4 DEF EndStep, SweepStep
  <1>5. CASE \E w \in WriteSet : WriteStep(w)
    BY <1>1, <1>5 DEF WriteStep
  <1>6. CASE AuditClaimed \/ AuditGrant
    BY <1>1, <1>6 DEF AuditClaimed, AuditGrant
  <1>7. ASSUME NEW k \in Jobs, Claim(k)
        PROVE  j = job' \/ j \in cut'
    <2>1. job = NoJob /\ cut' = cut
      BY <1>1, <1>7, TypeParts DEF Claim
    <2>2. QED
      BY <1>1, <2>1
  <1>8. CASE \E k \in Jobs : Enqueue(k)
    BY <1>1, <1>8 DEF Enqueue, workerVars
  <1>9. CASE \E a \in Approvers : AuditDecision(a) \/ DecisionLost(a) \/ \E k \in Jobs : Decide(a, k)
    BY <1>1, <1>9 DEF AuditDecision, DecisionLost, Decide, workerVars
  <1>10. QED
    BY <1>1, StepKinds, <1>2, <1>3, <1>4, <1>5, <1>6, <1>7, <1>8, <1>9

\* What the trail says now, it said before or says in this step.
LEMMA SaidSteps ==
  ASSUME CoreInv, [Next]_vars, NEW j \in Jobs, NEW s, Said(j, s)'
  PROVE  \/ Said(j, s)
         \/ s \in {"claimed", "write_credentials_issued"}
         \/ \E a \in Approvers : AuditDecision(a) /\ deciding[a] = j /\ Decision(j) = s
         \/ \E w \in WriteSet : WriteStep(w) /\ WriteEvent(w) /\ w.job = j /\ w.what = s
  <1>1. TypedInv /\ PlaceInv /\ TodoInv /\ trail \in [Jobs -> Seq(EventSet)]
    BY TypeParts DEF CoreInv
  <1>2. ASSUME NEW k, NEW e, Says(k, e)
        PROVE  Said(j, s) \/ (j = k /\ e.action = s)
    BY <1>1, <1>2, NowSaid DEF Says
  <1>3. CASE UNCHANGED trail
    BY <1>3, NothingSaid
  <1>4. CASE Says(job, EventRec("claimed", 0, TRUE))
    BY <1>2, <1>4 DEF EventRec
  <1>5. CASE Says(job, EventRec("write_credentials_issued", ApprovalStep(job), TRUE))
    BY <1>2, <1>5 DEF EventRec
  <1>6. ASSUME NEW a \in Approvers, AuditDecision(a),
               Says(deciding[a], EventRec(Decision(deciding[a]), 0, a \notin WebApprovers))
        PROVE  Said(j, s) \/ (AuditDecision(a) /\ deciding[a] = j /\ Decision(j) = s)
    BY <1>2, <1>6 DEF EventRec
  <1>7. ASSUME NEW w \in WriteSet, WriteStep(w), WriteEvent(w),
               Says(w.job, EventRec(w.what, w.parent, TRUE))
        PROVE  Said(j, s) \/ (WriteStep(w) /\ WriteEvent(w) /\ w.job = j /\ w.what = s)
    BY <1>2, <1>7 DEF EventRec
  <1>8. QED
    BY <1>1, <1>3, <1>4, <1>5, <1>6, <1>7, TrailGrows

\* The head of todo is what TodoInv says of it.
LEMMA NextWrite ==
  ASSUME CoreInv, NEW w \in WriteSet, WriteStep(w)
  PROVE  /\ 1 \in DOMAIN todo /\ w = todo[1] /\ w.job \in Jobs
         /\ job # NoJob => w.job = job
         /\ job = NoJob => w.job \in cut
         /\ w.write = "event" => IF job = NoJob THEN w.what = "reclaimed_stale"
                                                ELSE w.what \in RunSteps /\ w.parent = root
         /\ w.write = "status" /\ w.what = "awaiting_approval" => ~Approved(w.job)
         /\ w.write = "event" /\ w.what \in Closing =>
              \/ status[w.job] = Outcome(w.what)
              \/ w.what = "awaiting_approval" /\ status[w.job] \in {"approved", "rejected"}
         /\ w.write = "metric" => status[w.job] # "running"
  <1>1. TypedInv /\ TodoInv /\ todo \in Seq(WriteSet)
    BY TypeParts DEF CoreInv
  <1>2. 1 \in DOMAIN todo /\ w = todo[1] /\ w.job \in Jobs
    BY <1>1, Tails DEF WriteStep, WriteSet
  <1>3. \A s : ~MoveBefore(todo, 1, s)
    BY <1>1 DEF MoveBefore
  <1>4. QED
    BY <1>1, <1>2, <1>3 DEF TodoInv, TodoItem, IsMove, IsClose, IsMetric

\* The store knows of each decision and of who made it.
LEMMA StoreStep ==
  ASSUME CoreInv, [Next]_vars
  PROVE  StoreInv'
  <1>1. StoreInv /\ NoOne \notin Approvers /\ NoJob \notin Jobs
    BY WorkerAssumption DEF CoreInv, WorkerAssumption
  <1>2. ASSUME NEW j \in Jobs, Approved(j)
        PROVE  Approved(j)'
    BY <1>1, <1>2, StatusSteps DEF Approved
  <1>3. ASSUME NEW j \in Jobs
        PROVE  /\ status'[j] \in {"absent", "pending", "awaiting_approval"} => ~Approved(j)'
               /\ status'[j] \in {"approved", "rejected"} => Approved(j)'
               /\ status'[j] = "running" => j = job' \/ j \in cut'
    <2>1. CASE status'[j] = status[j] /\ approvedBy'[j] = approvedBy[j]
      BY <1>1, <2>1, RunningKept DEF StoreInv, Approved
    <2>2. CASE status[j] = "absent" /\ status'[j] = "pending" /\ approvedBy'[j] = approvedBy[j]
      BY <1>1, <2>2 DEF StoreInv, Approved
    <2>3. CASE status'[j] = "running" /\ Claim(j)
      BY <2>3 DEF Claim
    <2>4. ASSUME NEW w \in WriteSet, WriteStep(w), WriteMove(w), w.job = j,
                 status'[j] = w.what, approvedBy'[j] = approvedBy[j]
          PROVE  /\ status'[j] \in {"absent", "pending", "awaiting_approval"} => ~Approved(j)'
                 /\ status'[j] \notin {"approved", "rejected", "running"}
      BY <2>4, NextWrite DEF WriteMove, Reached, Approved
    <2>5. CASE \E a \in Approvers : status'[j] \in {"approved", "rejected"} /\ approvedBy'[j] = a
      BY <1>1, <2>5 DEF Approved
    <2>6. QED
      BY StatusSteps, <2>1, <2>2, <2>3, <2>4, <2>5
  <1>4. ASSUME NEW j \in Jobs, NEW a \in Approvers, deciding'[a] = j
        PROVE  approvedBy'[j] = a
    <2>1. CASE deciding[a] = j
      <3>1. approvedBy[j] = a /\ status[j] # "awaiting_approval"
        BY <1>1, <2>1 DEF StoreInv, Approved
      <3>2. QED
        BY <3>1, StatusSteps
    <2>2. CASE Decide(a, j)
      BY <2>2, <1>1 DEF Decide, CoreInv, TypedInv, TypeOK
    <2>3. QED
      BY <1>1, <1>4, <2>1, <2>2, DecidingSteps
  <1>5. ASSUME NEW j \in Jobs, Said(j, "approved")'
        PROVE  Approved(j)'
    <2>1. CASE Said(j, "approved")
      BY <1>1, <1>2, <2>1 DEF StoreInv
    <2>2. ASSUME NEW a \in Approvers, deciding[a] = j
          PROVE  Approved(j)
      BY <1>1, <2>2 DEF StoreInv, Approved
    <2>3. ASSUME NEW w \in WriteSet, WriteStep(w), WriteEvent(w), w.job = j, w.what = "approved"
          PROVE  FALSE
      BY <2>3, NextWrite DEF WriteEvent, RunSteps
    <2>4. QED
      BY <1>2, <1>5, <2>1, <2>2, <2>3, SaidSteps
  <1>6. QED
    BY <1>3, <1>4, <1>5 DEF StoreInv

\* Every step keeps the trail true: the move has been made by then.
LEMMA TruthStep ==
  ASSUME CoreInv, [Next]_vars
  PROVE  TrailIsTrue'
  <1>1. StoreInv /\ TrailIsTrue /\ StoreInv' /\ status \in [Jobs -> Statuses]
    BY StoreStep, TypeParts DEF CoreInv
  <1>2. SUFFICES ASSUME NEW j \in Jobs
                 PROVE  /\ Said(j, "done")' => status'[j] = "done"
                        /\ Said(j, "failed")' \/ Said(j, "reclaimed_stale")' => status'[j] = "failed"
                        /\ Said(j, "rejected")' => status'[j] = "rejected"
                        /\ Said(j, "awaiting_approval")' =>
                              /\ status'[j] \notin {"absent", "pending"}
                              /\ status'[j] = "running" => Approved(j)'
                        /\ Said(j, "approved")' =>
                              status'[j] \in {"approved", "running", "done", "failed"}
    BY DEF TrailIsTrue
  \* What was said stays true.
  <1>3. /\ Said(j, "done") => status'[j] = "done"
        /\ Said(j, "failed") \/ Said(j, "reclaimed_stale") => status'[j] = "failed"
        /\ Said(j, "rejected") => status'[j] = "rejected"
        /\ Said(j, "awaiting_approval") =>
              /\ status'[j] \notin {"absent", "pending"}
              /\ status'[j] = "running" => Approved(j)'
        /\ Said(j, "approved") => status'[j] \in {"approved", "running", "done", "failed"}
    <2>1. CASE status'[j] = status[j] /\ approvedBy'[j] = approvedBy[j]
      BY <1>1, <2>1 DEF TrailIsTrue, Approved
    <2>2. CASE status[j] = "absent"
      BY <1>1, <2>2 DEF TrailIsTrue
    <2>3. CASE status[j] \in Claimable /\ status'[j] = "running" /\ approvedBy'[j] = approvedBy[j]
      BY <1>1, <2>3 DEF TrailIsTrue, StoreInv, Claimable, Approved
    <2>4. ASSUME NEW w \in WriteSet, WriteStep(w), WriteMove(w), w.job = j, status[j] = "running",
                 status'[j] = w.what
          PROVE  /\ status'[j] \in {"done", "failed", "awaiting_approval"}
                 /\ Said(j, "approved") => status'[j] # "awaiting_approval"
      BY <1>1, <2>4, NextWrite DEF WriteMove, Reached, StoreInv
    <2>5. CASE status[j] = "awaiting_approval" /\ status'[j] \in {"approved", "rejected"}
      BY <1>1, <2>5 DEF TrailIsTrue
    <2>6. QED
      BY <1>1, StatusSteps, <2>1, <2>2, <2>3, <2>4, <2>5 DEF TrailIsTrue
  \* What a decision and the worker say now is true.
  <1>4. ASSUME NEW a \in Approvers, AuditDecision(a), deciding[a] = j
        PROVE  /\ status'[j] = status[j]
               /\ Decision(j) = "rejected" => status[j] = "rejected"
               /\ Decision(j) = "approved" => status[j] \in {"approved", "running", "done", "failed"}
               /\ Decision(j) \in {"approved", "rejected"}
    <2>1. Approved(j) /\ status' = status
      BY <1>1, <1>4, WorkerAssumption DEF StoreInv, Approved, AuditDecision, jobVars, WorkerAssumption
    <2>2. status[j] \notin {"absent", "pending", "awaiting_approval"}
      BY <1>1, <2>1 DEF StoreInv
    <2>3. QED
      BY <1>1, <2>1, <2>2 DEF Decision, Statuses
  <1>5. ASSUME NEW w \in WriteSet, WriteStep(w), WriteEvent(w), w.job = j
        PROVE  /\ status'[j] = status[j]
               /\ w.what \notin {"approved", "rejected"}
               /\ w.what = "done" => status[j] = "done"
               /\ w.what \in {"failed", "reclaimed_stale"} => status[j] = "failed"
               /\ w.what = "awaiting_approval" =>
                     status[j] \in {"awaiting_approval", "approved", "rejected"}
    BY <1>5, NextWrite DEF WriteEvent, RunSteps, Closing, Outcome
  <1>6. /\ Said(j, "done")' => status'[j] = "done"
        /\ Said(j, "failed")' => status'[j] = "failed"
        /\ Said(j, "reclaimed_stale")' => status'[j] = "failed"
    BY <1>3, <1>4, <1>5, SaidSteps
  <1>7. /\ Said(j, "rejected")' => status'[j] = "rejected"
        /\ Said(j, "approved")' => status'[j] \in {"approved", "running", "done", "failed"}
    BY <1>3, <1>4, <1>5, SaidSteps
  <1>8. Said(j, "awaiting_approval")' => /\ status'[j] \notin {"absent", "pending"}
                                         /\ status'[j] = "running" => Approved(j)'
    BY <1>3, <1>4, <1>5, SaidSteps
  <1>9. QED
    BY <1>6, <1>7, <1>8

-----------------------------------------------------------------------------
(* The writes still to come.                                               *)

\* NoJob is not a job.
LEMMA Jobless ==
  ASSUME CoreInv, pc \in {"down", "start", "poll"}
  PROVE  job = NoJob /\ todo = <<>>
  BY TypeParts DEF CoreInv

\* Nothing to write, nothing to say of it.
LEMMA EmptyTodo ==
  ASSUME todo' = <<>>
  PROVE  TodoInv'
  <1>1. DOMAIN todo' = {}
    OBVIOUS
  <1>2. QED
    BY <1>1 DEF TodoInv, Ordered

\* The steps that neither add to todo nor take from it.
LEMMA TodoKept ==
  ASSUME CoreInv, [Next]_vars, todo' = todo, job' = job, root' = root
  PROVE  TodoInv'
  <1>1. TodoInv /\ StoreInv /\ todo \in Seq(WriteSet)
    BY TypeParts DEF CoreInv
  <1>2. ASSUME NEW j \in Jobs, NEW w \in WriteSet, WriteStep(w)
        PROVE  FALSE
    <2>1. Len(Tail(todo)) = Len(todo) - 1 /\ Len(todo) \in Nat /\ todo # <<>> /\ todo' = Tail(todo)
      BY <1>1, <1>2 DEF WriteStep
    <2>2. QED
      BY <2>1
  <1>3. cut \subseteq cut'
    BY <1>1, <1>2, StepKinds DEF CoreInv, QuietStep, EndStep, SweepStep, AuditClaimed, AuditGrant, Crash,
       Claim, Enqueue, AuditDecision, DecisionLost, Decide, WriteStep
  <1>4. ASSUME NEW i \in DOMAIN todo
        PROVE  TodoItem(i)'
    <2> DEFINE j == todo[i].job
    <2>1. j \in Jobs /\ TodoItem(i)
      BY <1>1 DEF TodoInv, WriteSet
    <2>2. /\ IsMove(todo, i)' <=> IsMove(todo, i)
          /\ IsClose(todo, i)' <=> IsClose(todo, i)
          /\ IsMetric(todo, i)' <=> IsMetric(todo, i)
          /\ \A s : MoveBefore(todo, i, s)' <=> MoveBefore(todo, i, s)
      BY DEF IsMove, IsClose, IsMetric, MoveBefore
    <2>3. todo'[i] = todo[i]
      OBVIOUS
    <2> HIDE DEF j
    <2>4. \/ status'[j] = status[j] /\ approvedBy'[j] = approvedBy[j]
          \/ status'[j] # status[j] /\ status[j] \in {"absent", "pending", "approved"}
          \/ status[j] = "awaiting_approval" /\ status'[j] \in {"approved", "rejected"}
      BY <1>2, <2>1, StatusSteps DEF Claimable
    <2>5. CASE status'[j] = status[j] /\ approvedBy'[j] = approvedBy[j]
      BY <1>3, <2>1, <2>2, <2>3, <2>5 DEF TodoItem, Approved, j
    <2>6. CASE status[j] = "awaiting_approval" /\ status'[j] \in {"approved", "rejected"}
      <3>1. Outcome(todo[i].what) = "awaiting_approval" => todo[i].what = "awaiting_approval"
        BY DEF Outcome
      <3>2. QED
        BY <1>3, <2>1, <2>2, <2>3, <2>6, <3>1 DEF TodoItem, j
    <2>7. CASE status'[j] # status[j] /\ status[j] \in {"absent", "pending", "approved"}
      <3>1. CASE IsClose(todo, i)
        <4>1. status[j] = "approved"
          BY <2>1, <2>7, <3>1 DEF TodoItem, IsClose, Closing, Outcome, j
        <4>2. Claim(j)
          BY <2>1, <2>7, <4>1, <1>2, StatusSteps
        <4>3. todo = <<>>
          BY <4>2, Jobless DEF Claim
        <4>4. QED
          BY <4>3
      <3>2. CASE ~IsClose(todo, i)
        <4>1. ~IsMove(todo, i)
          BY <2>1, <2>7 DEF TodoItem, j
        <4>2. CASE status'[j] = "running"
          <5>1. Claim(j)
            BY <1>2, <2>1, <2>7, <4>2, StatusSteps
          <5>2. todo = <<>>
            BY <5>1, Jobless DEF Claim
          <5>3. QED
            BY <5>2
        <4>3. CASE status'[j] # "running"
          BY <1>3, <2>1, <2>2, <2>3, <3>2, <4>1, <4>3 DEF TodoItem, j
        <4>4. QED
          BY <4>2, <4>3
      <3>3. QED
        BY <3>1, <3>2
    <2>8. QED
      BY <2>4, <2>5, <2>6, <2>7
  <1>5. Ordered(todo)'
    BY <1>1 DEF TodoInv, Ordered, IsMove, IsClose, IsMetric
  <1>6. QED
    BY <1>4, <1>5 DEF TodoInv

\* A write leaves the rest as it has to be.
LEMMA TodoWritten ==
  ASSUME CoreInv, NEW w \in WriteSet, WriteStep(w), WriteEvent(w) \/ WriteMove(w) \/ WriteMetric(w)
  PROVE  TodoInv'
  <1>1. /\ TodoInv /\ todo \in Seq(WriteSet) /\ todo # <<>> /\ todo' = Tail(todo)
        /\ status \in [Jobs -> Statuses] /\ w = todo[1] /\ 1 \in DOMAIN todo /\ w.job \in Jobs
        /\ job' = job /\ root' = root /\ cut' = cut /\ approvedBy' = approvedBy
    BY TypeParts, NextWrite DEF CoreInv, WriteStep
  <1>2. Ordered(todo')
    BY <1>1, TailOrdered DEF TodoInv
  <1>3. ASSUME NEW i \in DOMAIN todo'
        PROVE  TodoItem(i)'
    <2> DEFINE x == todo[i + 1]
               j == x.job
    <2>1. i \in Nat /\ i + 1 \in DOMAIN todo /\ todo'[i] = x /\ i + 1 # 1
      BY <1>1, Tails
    <2>2. TodoItem(i + 1) /\ j \in Jobs
      BY <1>1, <2>1 DEF TodoInv, WriteSet
    <2>3. /\ IsMove(todo', i) <=> IsMove(todo, i + 1)
          /\ IsClose(todo', i) <=> IsClose(todo, i + 1)
          /\ IsMetric(todo', i) <=> IsMetric(todo, i + 1)
      BY <2>1 DEF IsMove, IsClose, IsMetric
    <2>4. \/ status'[j] = status[j] /\ ~(IsMove(todo, 1) /\ w.job = j)
          \/ /\ IsMove(todo, 1) /\ w.job = j /\ status[j] = "running" /\ status'[j] = w.what
             /\ w.what \in Reached
      BY <1>1, <2>2 DEF WriteEvent, WriteMove, WriteMetric, IsMove
    <2>5. IsMove(todo, 1) /\ w.job = j => ~IsMove(todo, i + 1)
      BY <1>1, <2>1 DEF TodoInv, Ordered
    <2>6. ASSUME NEW s, MoveBefore(todo, i + 1, s)
          PROVE  \/ MoveBefore(todo', i, s)
                 \/ IsMove(todo, 1) /\ w.job = j /\ w.what = s
      BY <1>1, <2>6, TailMoveBefore
    <2>7. ASSUME NEW s, MoveBefore(todo, i + 1, s), IsMove(todo, 1), w.job = j
          PROVE  w.what = s
      <3>1. PICK k \in DOMAIN todo : IsMove(todo, k) /\ todo[k].job = j /\ todo[k].what = s
        BY <2>7 DEF MoveBefore
      <3>2. k = 1
        BY <1>1, <2>7, <3>1 DEF TodoInv, Ordered
      <3>3. QED
        BY <1>1, <3>1, <3>2
    <2>8. /\ job # NoJob => j = job
          /\ job = NoJob => j \in cut
          /\ x.write = "event" =>
               IF job = NoJob THEN x.what = "reclaimed_stale"
                              ELSE x.what \in RunSteps /\ x.parent = root
      BY <2>2 DEF TodoItem
    <2>9. IsMove(todo, i + 1) =>
            status'[j] = "running" /\ (x.what = "awaiting_approval" => ~Approved(j))
      BY <2>2, <2>4, <2>5 DEF TodoItem
    <2>10. IsClose(todo, i + 1) =>
             \/ status'[j] = "running" /\ MoveBefore(todo', i, Outcome(x.what))
             \/ status'[j] = Outcome(x.what)
             \/ x.what = "awaiting_approval" /\ status'[j] \in {"approved", "rejected"}
      <3>1. SUFFICES ASSUME IsClose(todo, i + 1)
                     PROVE  \/ status'[j] = "running" /\ MoveBefore(todo', i, Outcome(x.what))
                            \/ status'[j] = Outcome(x.what)
                            \/ x.what = "awaiting_approval" /\ status'[j] \in {"approved", "rejected"}
        OBVIOUS
      <3>2. Outcome(x.what) # "running"
        BY <3>1 DEF IsClose, Closing, Outcome
      <3>3. CASE status[j] = "running" /\ MoveBefore(todo, i + 1, Outcome(x.what))
        BY <2>4, <2>6, <2>7, <3>3
      <3>4. CASE status[j] # "running"
        BY <2>2, <2>4, <3>1, <3>4 DEF TodoItem
      <3>5. QED
        BY <2>2, <3>1, <3>2, <3>3, <3>4 DEF TodoItem
    <2>11. IsMetric(todo, i + 1) /\ status'[j] = "running" =>
             \E s \in Statuses : MoveBefore(todo', i, s)
      <3>1. SUFFICES ASSUME IsMetric(todo, i + 1), status'[j] = "running"
                     PROVE  \E s \in Statuses : MoveBefore(todo', i, s)
        OBVIOUS
      <3>2. status[j] = "running" /\ ~(IsMove(todo, 1) /\ w.job = j)
        BY <2>4, <3>1 DEF Reached
      <3>3. PICK s \in Statuses : MoveBefore(todo, i + 1, s)
        BY <2>2, <3>1, <3>2 DEF TodoItem
      <3>4. QED
        BY <2>6, <3>2, <3>3
    <2> HIDE DEF x
    <2>12. QED
      BY <1>1, <2>1, <2>3, <2>8, <2>9, <2>10, <2>11 DEF TodoItem, Approved
  <1>4. QED
    BY <1>2, <1>3 DEF TodoInv

\* Every step keeps todo.
LEMMA TodoStep ==
  ASSUME CoreInv, [Next]_vars
  PROVE  TodoInv'
  <1>1. TypedInv /\ PlaceInv /\ StoreInv /\ TodoInv
    BY DEF CoreInv
  <1>2. CASE QuietStep
    BY <1>2, TodoKept, EmptyTodo DEF QuietStep
  <1>3. CASE EndStep
    <2>1. PICK s \in Reached : RunPlan(todo', s) /\ (s = "awaiting_approval" => ~Approved(job))
      BY <1>3 DEF EndStep
    <2>2. /\ job \in Jobs /\ job # NoJob /\ job' = job /\ root' = root
          /\ status' = status /\ approvedBy' = approvedBy
      BY <1>1, <1>3, TypeParts DEF EndStep, PlaceInv, InRun
    <2>3. ASSUME NEW i \in DOMAIN todo'
          PROVE  TodoItem(i)'
      BY <2>1, <2>2 DEF TodoItem, RunPlan, GoodPlan, Approved
    <2>4. QED
      BY <2>1, <2>3 DEF RunPlan, GoodPlan, TodoInv
  <1>4. CASE SweepStep
    <2>1. /\ job = NoJob /\ job' = NoJob /\ status' = status /\ cut' = cut
          /\ GoodPlan(todo')
      BY <1>4, Jobless DEF SweepStep
    <2>2. ASSUME NEW i \in DOMAIN todo'
          PROVE  TodoItem(i)'
      <3>1. todo'[i].job \in Jobs /\ status[todo'[i].job] = "running"
        BY <1>4, <2>2 DEF SweepStep, Orphans
      <3>2. todo'[i].job \in cut
        BY <1>1, <2>1, <3>1, TypeParts DEF StoreInv
      <3>3. IsMove(todo', i) => todo'[i].what = "failed"
        BY <1>4, <2>2 DEF SweepStep
      <3>4. todo'[i].write = "event" => todo'[i].what = "reclaimed_stale"
        BY <1>4, <2>2 DEF SweepStep
      <3>5. QED
        BY <2>1, <2>2, <3>1, <3>2, <3>3, <3>4 DEF TodoItem, GoodPlan
    <2>3. QED
      BY <2>1, <2>2 DEF GoodPlan, TodoInv
  <1>5. CASE AuditClaimed \/ AuditGrant
    BY <1>1, <1>5, EmptyTodo DEF AuditClaimed, AuditGrant, PlaceInv, InRun
  <1>6. CASE Crash
    BY <1>6, EmptyTodo DEF Crash
  <1>7. ASSUME NEW j \in Jobs, Claim(j)
        PROVE  TodoInv'
    BY <1>7, Jobless, EmptyTodo DEF Claim
  <1>8. CASE \E j \in Jobs : Enqueue(j)
    BY <1>8, TodoKept DEF Enqueue, workerVars
  <1>9. CASE \E a \in Approvers : AuditDecision(a) \/ DecisionLost(a) \/ \E j \in Jobs : Decide(a, j)
    BY <1>9, TodoKept DEF AuditDecision, DecisionLost, Decide, workerVars
  <1>10. QED
    BY <1>1, StepKinds, TodoWritten, <1>2, <1>3, <1>4, <1>5, <1>6, <1>7, <1>8, <1>9

\* The invariant holds at the start.
LEMMA InitCore == Init => CoreInv
  <1> SUFFICES ASSUME Init PROVE CoreInv
    OBVIOUS
  <1>1. /\ \A j \in Jobs : trail[j] = <<>> /\ DOMAIN trail[j] = {}
        /\ todo = <<>> /\ DOMAIN todo = {}
    BY DEF Init
  <1>2. Fields /\ Resting /\ trail \in [Jobs -> Seq(EventSet)]
    BY WorkerAssumption DEF Init, Fields, Resting, Statuses, PCs, WorkerAssumption
  <1>3. \A j \in Jobs : LastStep(j) /\ \A s : ~Said(j, s)
    BY <1>1 DEF LastStep, ApprovalSteps, Said
  <1>4. TypedInv
    BY <1>2, <1>3, TypedSplit DEF TrailTyped
  <1>5. PlaceInv
    BY DEF Init, PlaceInv, InRun
  <1>6. StoreInv
    BY <1>3, WorkerAssumption DEF Init, StoreInv, Approved, WorkerAssumption
  <1>7. TodoInv
    BY <1>1 DEF TodoInv, Ordered
  <1>8. TrailIsTrue
    BY <1>3 DEF TrailIsTrue
  <1>9. QED
    BY <1>4, <1>5, <1>6, <1>7, <1>8 DEF CoreInv

\* What the invariant says of the worker, of the job store and of the writes
\* that process_one and reclaim_stale have still to make holds in every state.
THEOREM CoreAlways == Spec => []CoreInv
  <1>1. CoreInv /\ [Next]_vars => CoreInv'
    BY TypedStep, PlaceStep, StoreStep, TodoStep, TruthStep DEF CoreInv
  <1>2. QED
    BY <1>1, InitCore, PTL DEF Spec

\* The trail never reports a transition that the job store has not made: complete
\* and await_approval come before the event, whatever is killed in between.
THEOREM TrailAlwaysTrue == Spec => []TrailIsTrue
  BY CoreAlways, PTL DEF CoreInv

\* Every variable keeps its type, and a worker between two runs has no job, no
\* root step and nothing to write.
THEOREM TypeCorrect == Spec => []TypeOK
  BY CoreAlways, PTL DEF CoreInv, TypedInv

-----------------------------------------------------------------------------
(* The trail of a run: the invariants.                                     *)

\* The last "claimed" event of the first i events is the p-th.
LastClaimAt(t, i, p) ==
    /\ p \in 1..i
    /\ t[p].action = "claimed"
    /\ \A k \in 1..i : k > p => t[k].action # "claimed"

\* The worker is in a run whose claim it has recorded.
InTheRun == pc \in {"check", "exec", "issued", "granted"} \/ (pc = "write" /\ job # NoJob)

\* The root of the run is the last claim in the trail, and each step of a run
\* hangs on the last claim before it.
DescendInv ==
    /\ InTheRun => LastClaimAt(trail[job], Len(trail[job]), root)
    /\ \A j \in Jobs : \A i \in DOMAIN trail[j] :
         trail[j][i].action \in RunSteps => LastClaimAt(trail[j], i, trail[j][i].parent)

\* A job that has ended has nothing left to say that would end it again.
EndingInv ==
    \A j \in Jobs :
      /\ \A i, k \in Endings(j) : i = k
      /\ \A i \in DOMAIN todo :
           IsClose(todo, i) /\ todo[i].job = j /\ todo[i].what # "awaiting_approval" => Endings(j) = {}
      /\ \A a \in Approvers : deciding[a] = j /\ status[j] = "rejected" => Endings(j) = {}

\* The event is among the writes still to come.
ToTell(j, a) == \E i \in DOMAIN todo : /\ todo[i].write = "event" /\ todo[i].job = j
                                       /\ todo[i].what = a

\* TrailIsComplete, by whom the event is still owed: the worker or an approver.
CompleteInv ==
    \A j \in Jobs \ cut :
      /\ \A s \in {"done", "failed", "awaiting_approval"} :
            status[j] = s => Said(j, s) \/ ToTell(j, s)
      /\ status[j] = "rejected" => Said(j, "rejected") \/ \E a \in Approvers : deciding[a] = j
      /\ Approved(j) /\ status[j] # "rejected" =>
            Said(j, "approved") \/ \E a \in Approvers : deciding[a] = j

\* The trail has such an event with a step id of its own.
Stepped(j, a) == \E i \in DOMAIN trail[j] : trail[j][i].action = a /\ trail[j][i].step

\* The trail names the credential, as a step of the gate unless a kill cut it.
Granted(j) == \E i \in DOMAIN trail[j] : /\ trail[j][i].action = "write_credentials_issued"
                                         /\ j \notin cut => trail[j][i].parent # 0

\* What is pushed was granted, and what was at the gate has a step to hang it on.
TraceInv ==
    /\ \A j \in Jobs : j \in opened \/ (pc = "granted" /\ j = job) => Granted(j)
    /\ \A j \in Jobs \ cut : Approved(j) \/ status[j] = "awaiting_approval" =>
         Stepped(j, "awaiting_approval") \/ ToTell(j, "awaiting_approval")

\* A run of the job is still to be measured.
Unmeasured(j) == \/ status[j] = "running"
                 \/ \E i \in DOMAIN todo : IsMetric(todo, i) /\ todo[i].job = j

\* The metrics count the runs, but for one that is not measured yet.
MeasureInv ==
    \A j \in Jobs :
      /\ metrics[j] <= runs[j]
      /\ Unmeasured(j) => metrics[j] < runs[j]
      /\ j \notin cut => metrics[j] + (IF Unmeasured(j) THEN 1 ELSE 0) = runs[j]

-----------------------------------------------------------------------------
(* The steps of a run in the trail.                                        *)

\* One more event and the last claim.
LEMMA LastClaimGrows ==
  ASSUME NEW t \in Seq(EventSet), NEW e \in EventSet
  PROVE  /\ \A i \in 0..Len(t), p \in Nat : LastClaimAt(t, i, p) => LastClaimAt(Append(t, e), i, p)
         /\ \A p \in Nat : e.action # "claimed" /\ LastClaimAt(t, Len(t), p) =>
                          LastClaimAt(Append(t, e), Len(t) + 1, p)
         /\ e.action = "claimed" => LastClaimAt(Append(t, e), Len(t) + 1, Len(t) + 1)
  <1> DEFINE u == Append(t, e)
             n == Len(t)
  <1>1. n \in Nat /\ u[n + 1] = e /\ \A m \in 1..n : u[m] = t[m]
    OBVIOUS
  <1> HIDE DEF u, n
  <1>2. ASSUME NEW i \in 0..n, NEW p \in Nat, LastClaimAt(t, i, p)
        PROVE  LastClaimAt(u, i, p)
    BY <1>1, <1>2 DEF LastClaimAt
  <1>3. ASSUME NEW p \in Nat, e.action # "claimed", LastClaimAt(t, n, p)
        PROVE  LastClaimAt(u, n + 1, p)
    <2>1. p \in 1..(n + 1) /\ u[p].action = "claimed"
      BY <1>1, <1>3 DEF LastClaimAt
    <2>2. ASSUME NEW m \in 1..(n + 1), m > p
          PROVE  u[m].action # "claimed"
      BY <1>1, <1>3, <2>2 DEF LastClaimAt
    <2>3. QED
      BY <2>1, <2>2 DEF LastClaimAt
  <1>4. e.action = "claimed" => LastClaimAt(u, n + 1, n + 1)
    BY <1>1 DEF LastClaimAt
  <1>5. QED
    BY <1>2, <1>3, <1>4 DEF u, n

\* A step inside a run leaves its job and its root alone.
LEMMA RunStays ==
  ASSUME CoreInv, [Next]_vars, InTheRun'
  PROVE  \/ AuditClaimed
         \/ InTheRun /\ job \in Jobs /\ job' = job /\ root' = root
  <1>1. CoreInv /\ TypedInv /\ PlaceInv /\ TodoInv /\ job \in Jobs \cup {NoJob}
    BY TypeParts DEF CoreInv
  <1>2. pc \in {"check", "exec", "issued", "granted"} => job \in Jobs
    BY <1>1 DEF PlaceInv, InRun
  <1>3. CASE QuietStep
    BY <1>1, <1>2, <1>3 DEF QuietStep, InTheRun
  <1>4. CASE EndStep
    BY <1>1, <1>2, <1>4 DEF EndStep, InRun, InTheRun
  <1>5. CASE SweepStep
    BY <1>1, <1>5, Jobless DEF SweepStep, InTheRun
  <1>6. CASE AuditGrant
    BY <1>1, <1>2, <1>6 DEF AuditGrant, InTheRun
  <1>7. CASE Crash
    BY <1>7 DEF Crash, InTheRun
  <1>8. CASE \E w \in WriteSet : WriteStep(w)
    BY <1>1, <1>8 DEF WriteStep, InTheRun
  <1>9. CASE \E j \in Jobs : Claim(j) \/ Enqueue(j)
    BY <1>1, <1>2, <1>9 DEF Claim, Enqueue, workerVars, InTheRun
  <1>10. CASE \E a \in Approvers : AuditDecision(a) \/ DecisionLost(a) \/ \E j \in Jobs : Decide(a, j)
    BY <1>1, <1>2, <1>10 DEF AuditDecision, DecisionLost, Decide, workerVars, InTheRun
  <1>11. QED
    BY <1>1, StepKinds, <1>3, <1>4, <1>5, <1>6, <1>7, <1>8, <1>9, <1>10

\* Every step keeps DescendInv.
LEMMA DescendStep ==
  ASSUME CoreInv, DescendInv, [Next]_vars
  PROVE  DescendInv'
  <1>1. /\ CoreInv /\ TypedInv /\ PlaceInv /\ TodoInv /\ trail \in [Jobs -> Seq(EventSet)]
        /\ NoJob \notin Jobs /\ root \in Nat
    BY TypeParts DEF CoreInv
  <1>2. ASSUME NEW j, NEW e, Says(j, e),
               e.action \in RunSteps => LastClaimAt(trail[j], Len(trail[j]), e.parent)
        PROVE  \A k \in Jobs : \A i \in DOMAIN trail'[k] :
                 trail'[k][i].action \in RunSteps => LastClaimAt(trail'[k], i, trail'[k][i].parent)
    <2>1. SUFFICES ASSUME NEW k \in Jobs, NEW i \in DOMAIN trail'[k], trail'[k][i].action \in RunSteps
                   PROVE  LastClaimAt(trail'[k], i, trail'[k][i].parent)
      OBVIOUS
    <2>2. j \in Jobs /\ e \in EventSet /\ trail' = [trail EXCEPT ![j] = Append(@, e)]
      BY <1>2 DEF Says
    <2>3. k # j => trail'[k] = trail[k]
      BY <1>1, <2>2
    <2>4. CASE k # j
      BY <2>1, <2>3, <2>4 DEF DescendInv
    <2>5. CASE k = j
      <3> DEFINE t == trail[j]
                 u == Append(t, e)
                 n == Len(t)
      <3>1. t \in Seq(EventSet) /\ trail'[k] = u
        BY <1>1, <2>2, <2>5
      <3>2. /\ n \in Nat /\ DOMAIN t = 1..n /\ DOMAIN u = 1..(n + 1) /\ u[n + 1] = e
            /\ \A m \in 1..n : u[m] = t[m]
        BY <3>1
      <3>3. \A m \in DOMAIN t : t[m].action \in RunSteps => LastClaimAt(t, m, t[m].parent)
        BY <2>2 DEF DescendInv
      <3>4. e.action \in RunSteps => LastClaimAt(t, n, e.parent)
        BY <1>2
      <3>5. e.parent \in Nat /\ \A m \in DOMAIN t : t[m].parent \in Nat
        <4>1. e \in EventSet /\ \A m \in 1..n : t[m] \in EventSet
          BY <2>2, <3>1
        <4>2. QED
          BY <3>2, <4>1 DEF EventSet
      <3>6. /\ \A m \in 0..n, p \in Nat : LastClaimAt(t, m, p) => LastClaimAt(u, m, p)
            /\ \A p \in Nat : e.action # "claimed" /\ LastClaimAt(t, n, p) => LastClaimAt(u, n + 1, p)
        BY <2>2, <3>1, LastClaimGrows
      <3> HIDE DEF t, u, n
      <3>7. CASE i \in 1..n
        <4>1. u[i] = t[i] /\ i \in DOMAIN t /\ i \in 0..n
          BY <3>2, <3>7
        <4>2. LastClaimAt(t, i, t[i].parent)
          BY <2>1, <3>1, <3>3, <4>1
        <4>3. LastClaimAt(u, i, t[i].parent)
          BY <3>5, <3>6, <4>1, <4>2
        <4>4. QED
          BY <3>1, <4>1, <4>3
      <3>8. CASE i = n + 1
        <4>1. e.action \in RunSteps /\ u[i] = e
          BY <2>1, <3>1, <3>2, <3>8
        <4>2. e.action # "claimed"
          BY <4>1 DEF RunSteps
        <4>3. LastClaimAt(u, i, e.parent)
          BY <3>4, <3>5, <3>6, <3>8, <4>1, <4>2
        <4>4. QED
          BY <3>1, <4>1, <4>3
      <3>9. QED
        BY <3>1, <3>2, <3>7, <3>8
    <2>6. QED
      BY <2>4, <2>5
  <1>3. ASSUME UNCHANGED trail
        PROVE  DescendInv'
    <2>1. ~AuditClaimed
      <3>1. ASSUME AuditClaimed PROVE FALSE
        <4>1. job \in Jobs /\ Len(trail[job]) \in Nat
          BY <1>1, <3>1 DEF AuditClaimed, PlaceInv, InRun
        <4>2. PICK e : trail' = [trail EXCEPT ![job] = Append(@, e)]
          BY <3>1 DEF AuditClaimed, Record
        <4>3. Len(trail'[job]) = Len(trail[job]) + 1
          BY <1>1, <4>1, <4>2
        <4>4. QED
          BY <1>3, <4>1, <4>3
      <3>2. QED
        BY <3>1
    <2>2. InTheRun' => LastClaimAt(trail'[job'], Len(trail'[job']), root')
      BY <1>1, <1>3, <2>1, RunStays DEF DescendInv
    <2>3. QED
      BY <1>3, <2>2 DEF DescendInv
  <1>4. ASSUME NEW j, NEW e, Says(j, e), ~AuditClaimed, e.action # "claimed",
               InTheRun /\ j = job /\ e.action \in RunSteps => e.parent = root,
               ~(InTheRun /\ j = job) => e.action \notin RunSteps
        PROVE  DescendInv'
    <2>1. j \in Jobs /\ e \in EventSet /\ trail' = [trail EXCEPT ![j] = Append(@, e)]
      BY <1>4 DEF Says
    <2>2. e.action \in RunSteps => LastClaimAt(trail[j], Len(trail[j]), e.parent)
      BY <1>4 DEF DescendInv
    <2>3. InTheRun' => LastClaimAt(trail'[job'], Len(trail'[job']), root')
      <3>1. SUFFICES ASSUME InTheRun'
                     PROVE  LastClaimAt(trail'[job'], Len(trail'[job']), root')
        OBVIOUS
      <3>2. InTheRun /\ job \in Jobs /\ job' = job /\ root' = root
        BY <1>1, <1>4, <3>1, RunStays
      <3>3. LastClaimAt(trail[job], Len(trail[job]), root)
        BY <3>2 DEF DescendInv
      <3>4. CASE job # j
        BY <1>1, <2>1, <3>2, <3>3, <3>4
      <3>5. CASE job = j
        <4>1. trail'[j] = Append(trail[j], e) /\ Len(trail'[j]) = Len(trail[j]) + 1 /\ trail[j] \in Seq(EventSet)
          BY <1>1, <2>1
        <4>2. LastClaimAt(Append(trail[j], e), Len(trail[j]) + 1, root)
          BY <1>1, <1>4, <2>1, <3>3, <3>5, <4>1, LastClaimGrows
        <4>3. QED
          BY <3>2, <3>5, <4>1, <4>2
      <3>6. QED
        BY <3>4, <3>5
    <2>4. \A k \in Jobs : \A i \in DOMAIN trail'[k] :
            trail'[k][i].action \in RunSteps => LastClaimAt(trail'[k], i, trail'[k][i].parent)
      BY <1>2, <1>4, <2>2
    <2>5. QED
      BY <2>3, <2>4 DEF DescendInv
  <1>5. CASE AuditClaimed /\ Says(job, EventRec("claimed", 0, TRUE))
    <2> DEFINE e == EventRec("claimed", 0, TRUE)
    <2>1. /\ job \in Jobs /\ e \in EventSet /\ trail' = [trail EXCEPT ![job] = Append(@, e)]
          /\ job' = job /\ root' = Len(trail[job]) + 1
      BY <1>5 DEF Says, AuditClaimed
    <2>2. e.action = "claimed" /\ e.action \notin RunSteps
      BY DEF EventRec, RunSteps
    <2> HIDE DEF e
    <2>3. trail'[job] = Append(trail[job], e) /\ Len(trail'[job]) = Len(trail[job]) + 1 /\ trail[job] \in Seq(EventSet)
      BY <1>1, <2>1
    <2>4. LastClaimAt(trail'[job], Len(trail'[job]), root')
      BY <2>1, <2>2, <2>3, LastClaimGrows
    <2>5. \A k \in Jobs : \A i \in DOMAIN trail'[k] :
            trail'[k][i].action \in RunSteps => LastClaimAt(trail'[k], i, trail'[k][i].parent)
      BY <1>2, <1>5, <2>2 DEF e
    <2>6. QED
      BY <2>1, <2>4, <2>5 DEF DescendInv
  <1>6. CASE AuditGrant /\ Says(job, EventRec("write_credentials_issued", ApprovalStep(job), TRUE))
    BY <1>4, <1>6 DEF EventRec, RunSteps, AuditGrant, AuditClaimed
  <1>7. ASSUME NEW a \in Approvers, AuditDecision(a),
               Says(deciding[a], EventRec(Decision(deciding[a]), 0, a \notin WebApprovers))
        PROVE  DescendInv'
    <2>1. ~AuditClaimed
      <3>1. pc' = pc
        BY <1>7 DEF AuditDecision, workerVars
      <3>2. QED
        BY <3>1 DEF AuditClaimed
    <2>2. QED
      BY <1>4, <1>7, <2>1 DEF EventRec, RunSteps, Decision
  <1>8. ASSUME NEW w \in WriteSet, WriteStep(w), WriteEvent(w),
               Says(w.job, EventRec(w.what, w.parent, TRUE))
        PROVE  DescendInv'
    <2>1. IF job = NoJob THEN w.what = "reclaimed_stale"
                         ELSE w.what \in RunSteps /\ w.parent = root /\ w.job = job /\ InTheRun
      BY <1>1, <1>8, NextWrite DEF WriteEvent, WriteStep, InTheRun
    <2>2. ~AuditClaimed
      BY <1>8 DEF WriteStep, AuditClaimed
    <2>3. w.what # "claimed" /\ "reclaimed_stale" \notin RunSteps
      BY <2>1 DEF RunSteps
    <2>4. InTheRun /\ w.job = job => job # NoJob
      BY <1>1, <1>8 DEF Says
    <2>5. QED
      BY <1>4, <1>8, <2>1, <2>2, <2>3, <2>4 DEF EventRec
  <1>9. QED
    BY <1>1, TrailGrows, <1>3, <1>5, <1>6, <1>7, <1>8

\* Every step of a run (tool calls, gate, failure, completion) hangs on the claim
\* of that same run, also after an earlier run of the job was killed or approved.
THEOREM StepsAlwaysDescend == Spec => []StepsDescendFromTheirRun
  <1>1. Init => DescendInv
    BY DEF Init, DescendInv, InTheRun
  <1>2. CoreInv /\ DescendInv /\ [Next]_vars => DescendInv'
    BY DescendStep
  <1>3. ASSUME TypedInv, DescendInv
        PROVE  StepsDescendFromTheirRun
    <2>1. SUFFICES ASSUME NEW j \in Jobs, NEW i \in DOMAIN trail[j], trail[j][i].action \in RunSteps
                   PROVE  trail[j][i].parent = LastClaim(j, i)
      BY DEF StepsDescendFromTheirRun
    <2> DEFINE S == {k \in 1..i : trail[j][k].action = "claimed"}
               p == trail[j][i].parent
    <2>2. LastClaimAt(trail[j], i, p)
      BY <1>3, <2>1 DEF DescendInv
    <2>3. i \in Nat
      BY <1>3, TypeParts
    <2>4. p \in S /\ \A k \in S : p >= k
      BY <2>2, <2>3 DEF LastClaimAt
    <2>5. \A q \in S : (\A k \in S : q >= k) => q = p
      BY <2>3, <2>4
    <2> HIDE DEF S, p
    <2>6. Max(S) = p
      BY <2>4, <2>5 DEF Max
    <2>7. QED
      BY <2>6 DEF LastClaim, S, p
  <1>4. QED
    BY <1>1, <1>2, <1>3, CoreAlways, PTL DEF Spec, CoreInv

-----------------------------------------------------------------------------
(* Endings, completeness and the trace of a push.                          *)

\* A write still to come was so before, or a run or a sweep planned it.
LEMMA TodoOrigin ==
  ASSUME CoreInv, [Next]_vars, NEW i \in DOMAIN todo'
  PROVE  \/ \E k \in DOMAIN todo : /\ todo'[i] = todo[k]
                                   /\ (k # 1 \/ ~\E w \in WriteSet : WriteStep(w))
         \/ status[todo'[i].job] = "running" /\ (EndStep \/ SweepStep)
  <1>1. TypedInv /\ PlaceInv /\ TodoInv /\ todo \in Seq(WriteSet)
    BY TypeParts DEF CoreInv
  <1>2. CASE EndStep \/ SweepStep
    BY <1>2 DEF EndStep, SweepStep, RunPlan, GoodPlan
  <1>3. ASSUME NEW w \in WriteSet, WriteStep(w)
        PROVE  \E k \in DOMAIN todo : todo'[i] = todo[k] /\ k # 1
    <2>1. todo # <<>> /\ todo' = Tail(todo)
      BY <1>3 DEF WriteStep
    <2>2. i \in Nat /\ i + 1 \in DOMAIN todo /\ todo'[i] = todo[i + 1] /\ 1 \in DOMAIN todo
      BY <1>1, <2>1, Tails
    <2>3. i # 0
      BY <1>1, <2>1
    <2>4. QED
      BY <2>2, <2>3
  <1>4. ASSUME todo' = <<>>
        PROVE  FALSE
    BY <1>4
  <1>5. ASSUME todo' = todo, ~\E w \in WriteSet : WriteStep(w)
        PROVE  \E k \in DOMAIN todo : /\ todo'[i] = todo[k]
                                      /\ (k # 1 \/ ~\E w \in WriteSet : WriteStep(w))
    BY <1>5
  <1>6. \/ EndStep \/ SweepStep \/ todo' = todo \/ todo' = <<>> \/ \E w \in WriteSet : WriteStep(w)
    BY <1>1, StepKinds DEF QuietStep, AuditClaimed, AuditGrant, Crash, Claim, Enqueue, workerVars,
       AuditDecision, DecisionLost, Decide
  <1>7. QED
    BY <1>2, <1>3, <1>4, <1>5, <1>6

\* A write still to come stays so, is made, or is cut by a kill.
LEMMA TodoFate ==
  ASSUME CoreInv, [Next]_vars, NEW k \in DOMAIN todo
  PROVE  \/ \E i \in DOMAIN todo' : todo'[i] = todo[k]
         \/ /\ k = 1 /\ todo[k] \in WriteSet /\ WriteStep(todo[k])
            /\ WriteEvent(todo[k]) \/ WriteMove(todo[k]) \/ WriteMetric(todo[k])
         \/ todo[k].job \in cut'
  <1>1. TypedInv /\ PlaceInv /\ TodoInv /\ todo \in Seq(WriteSet) /\ todo # <<>>
    BY TypeParts DEF CoreInv
  <1>2. CASE todo' = todo
    BY <1>2
  <1>3. ASSUME NEW w \in WriteSet, WriteStep(w), WriteEvent(w) \/ WriteMove(w) \/ WriteMetric(w)
        PROVE  \/ \E i \in DOMAIN todo' : todo'[i] = todo[k]
               \/ /\ k = 1 /\ todo[k] \in WriteSet /\ WriteStep(todo[k])
                  /\ WriteEvent(todo[k]) \/ WriteMove(todo[k]) \/ WriteMetric(todo[k])
    <2>1. todo' = Tail(todo) /\ w = todo[1]
      BY <1>3 DEF WriteStep
    <2>2. CASE k = 1
      BY <1>3, <2>1, <2>2
    <2>3. CASE k # 1
      BY <1>1, <2>1, <2>3, Tails
    <2>4. QED
      BY <2>2, <2>3
  <1>4. CASE Crash
    BY <1>4 DEF Crash
  <1>5. \/ todo' = todo \/ Crash
        \/ \E w \in WriteSet : WriteStep(w) /\ (WriteEvent(w) \/ WriteMove(w) \/ WriteMetric(w))
    <2>1. ~EndStep /\ ~SweepStep
      BY <1>1, Jobless DEF EndStep, SweepStep, PlaceInv, InRun
    <2>2. QED
      BY <1>1, <2>1, StepKinds DEF QuietStep, AuditClaimed, AuditGrant, Claim, Enqueue, workerVars,
         AuditDecision, DecisionLost, Decide
  <1>6. QED
    BY <1>2, <1>3, <1>4, <1>5

\* A cut is not healed.
LEMMA CutGrows ==
  ASSUME CoreInv, [Next]_vars
  PROVE  cut \subseteq cut'
  BY StepKinds DEF CoreInv, QuietStep, EndStep, SweepStep, AuditClaimed, AuditGrant, Crash,
     Claim, Enqueue, AuditDecision, DecisionLost, Decide, WriteStep

\* No event is changed or removed.
LEMMA EventsStay ==
  ASSUME CoreInv, [Next]_vars, NEW j \in Jobs
  PROVE  \A i \in DOMAIN trail[j] : i \in DOMAIN trail'[j] /\ trail'[j][i] = trail[j][i]
  <1>1. TypedInv /\ PlaceInv /\ TodoInv /\ trail \in [Jobs -> Seq(EventSet)]
    BY TypeParts DEF CoreInv
  <1>2. UNCHANGED trail \/ \E k, e : Says(k, e)
    BY <1>1, TrailGrows
  <1>3. ASSUME NEW k, NEW e, Says(k, e)
        PROVE  \A i \in DOMAIN trail[j] : i \in DOMAIN trail'[j] /\ trail'[j][i] = trail[j][i]
    <2>1. k \in Jobs /\ e \in EventSet /\ trail' = [trail EXCEPT ![k] = Append(@, e)]
      BY <1>3 DEF Says
    <2>2. CASE k = j
      BY <1>1, <2>1, <2>2, Recorded
    <2>3. CASE k # j
      BY <1>1, <2>1, <2>3, Recorded
    <2>4. QED
      BY <2>2, <2>3
  <1>4. QED
    BY <1>2, <1>3

\* The event is in the trail.
LEMMA EventAdded ==
  ASSUME CoreInv, NEW j, NEW e, Says(j, e)
  PROVE  \E i \in DOMAIN trail'[j] : trail'[j][i] = e
  <1>1. trail \in [Jobs -> Seq(EventSet)]
    BY TypeParts DEF CoreInv
  <1>2. DOMAIN trail'[j] = 1..(Len(trail[j]) + 1) /\ trail'[j][Len(trail[j]) + 1] = e /\ Len(trail[j]) \in Nat
    BY <1>1, Recorded DEF Says
  <1>3. QED
    BY <1>2

\* An event that is written is said, as a step.
LEMMA WriteTold ==
  ASSUME CoreInv, [Next]_vars, NEW w \in WriteSet, WriteStep(w), WriteEvent(w)
  PROVE  Said(w.job, w.what)' /\ Stepped(w.job, w.what)'
  <1>1. w.job \in Jobs
    BY NextWrite
  <1>2. Says(w.job, EventRec(w.what, w.parent, TRUE))
    BY <1>1 DEF WriteEvent, Says, EventRec, EventSet
  <1>3. PICK i \in DOMAIN trail'[w.job] : trail'[w.job][i] = EventRec(w.what, w.parent, TRUE)
    BY <1>2, EventAdded
  <1>4. QED
    BY <1>3 DEF Said, Stepped, EventRec

\* A decision that is recorded is said.
LEMMA DecisionTold ==
  ASSUME CoreInv, [Next]_vars, NEW a \in Approvers, NEW j \in Jobs, AuditDecision(a), deciding[a] = j,
         NEW s, s = Decision(j)
  PROVE  Said(j, s)'
  <1> DEFINE e == EventRec(Decision(j), 0, a \notin WebApprovers)
  <1>1. e \in EventSet /\ e.action = Decision(j)
    BY DEF EventRec, EventSet, Decision, Actions
  <1>2. Says(j, e)
    BY <1>1 DEF AuditDecision, Says
  <1> HIDE DEF e
  <1>3. PICK i \in DOMAIN trail'[j] : trail'[j][i] = e
    BY <1>2, EventAdded
  <1>4. QED
    BY <1>1, <1>3 DEF Said

\* The endings after one more event.
LEMMA EndingsGrow ==
  ASSUME CoreInv, NEW j, NEW e, Says(j, e), NEW k \in Jobs
  PROVE  /\ e.action \in {"done", "failed", "reclaimed_stale", "rejected"} /\ k = j =>
              Endings(k)' = Endings(k) \cup {Len(trail[j]) + 1}
         /\ e.action \notin {"done", "failed", "reclaimed_stale", "rejected"} \/ k # j =>
              Endings(k)' = Endings(k)
  <1>1. /\ trail \in [Jobs -> Seq(EventSet)] /\ j \in Jobs /\ e \in EventSet
        /\ trail' = [trail EXCEPT ![j] = Append(@, e)]
    BY TypeParts DEF CoreInv, Says
  <1>2. CASE k # j
    BY <1>1, <1>2, Recorded DEF Endings
  <1>3. CASE k = j
    <2> DEFINE n == Len(trail[j])
    <2>1. /\ DOMAIN trail[j] = 1..n /\ n \in Nat /\ DOMAIN trail'[j] = 1..(n + 1)
          /\ trail'[j][n + 1] = e
          /\ \A i \in 1..n : trail'[j][i] = trail[j][i]
      BY <1>1, Recorded
    <2> HIDE DEF n
    <2>2. \A i \in 1..(n + 1) : i \in 1..n \/ i = n + 1
      BY <2>1
    <2>3. QED
      BY <1>3, <2>1, <2>2 DEF Endings, n
  <1>4. QED
    BY <1>2, <1>3

\* An ending is told of an ended job.
LEMMA EndedStatus ==
  ASSUME CoreInv, NEW j \in Jobs, Endings(j) # {}
  PROVE  status[j] \in {"done", "failed", "rejected"}
  BY DEF CoreInv, Endings, TrailIsTrue, Said

\* Who adds an ending.
LEMMA EndingsKept ==
  ASSUME CoreInv, EndingInv, [Next]_vars, NEW j \in Jobs
  PROVE  \/ Endings(j)' = Endings(j)
         \/ /\ Endings(j) = {} /\ \E n : Endings(j)' = {n}
            /\ \/ \E w \in WriteSet : /\ WriteStep(w) /\ w.job = j /\ IsClose(todo, 1)
                                      /\ status[j] \in {"done", "failed"}
               \/ \E a \in Approvers : AuditDecision(a) /\ deciding[a] = j /\ status[j] = "rejected"
  <1>1. TypedInv /\ PlaceInv /\ TodoInv
    BY DEF CoreInv
  <1>2. CASE UNCHANGED trail
    BY <1>2, NothingSaid
  <1>3. CASE Says(job, EventRec("claimed", 0, TRUE))
    BY <1>3, EndingsGrow DEF EventRec
  <1>4. CASE Says(job, EventRec("write_credentials_issued", ApprovalStep(job), TRUE))
    BY <1>4, EndingsGrow DEF EventRec
  <1>5. ASSUME NEW a \in Approvers, AuditDecision(a),
               Says(deciding[a], EventRec(Decision(deciding[a]), 0, a \notin WebApprovers)),
               Endings(j)' # Endings(j)
        PROVE  /\ Endings(j) = {} /\ \E n : Endings(j)' = {n}
               /\ AuditDecision(a) /\ deciding[a] = j /\ status[j] = "rejected"
    <2> DEFINE k == deciding[a]
               e == EventRec(Decision(k), 0, a \notin WebApprovers)
    <2>1. Says(k, e) /\ e.action = Decision(k)
      BY <1>5 DEF EventRec
    <2> HIDE DEF e, k
    <2>2. k = j /\ e.action \in {"done", "failed", "reclaimed_stale", "rejected"}
      BY <1>5, <2>1, EndingsGrow
    <2>3. Decision(j) = "rejected"
      BY <2>1, <2>2 DEF Decision
    <2>4. status[j] = "rejected"
      BY <2>3 DEF Decision
    <2>5. Endings(j) = {}
      BY <2>2, <2>4 DEF EndingInv, k
    <2>6. Endings(j)' = Endings(j) \cup {Len(trail[k]) + 1}
      BY <2>1, <2>2, EndingsGrow
    <2>7. QED
      BY <1>5, <2>2, <2>4, <2>5, <2>6 DEF k
  <1>6. ASSUME NEW w \in WriteSet, WriteStep(w), WriteEvent(w),
               Says(w.job, EventRec(w.what, w.parent, TRUE)), Endings(j)' # Endings(j)
        PROVE  /\ Endings(j) = {} /\ \E n : Endings(j)' = {n}
               /\ WriteStep(w) /\ w.job = j /\ IsClose(todo, 1) /\ status[j] \in {"done", "failed"}
    <2> DEFINE e == EventRec(w.what, w.parent, TRUE)
    <2>1. Says(w.job, e) /\ e.action = w.what
      BY <1>6 DEF EventRec
    <2> HIDE DEF e
    <2>2. w.job = j /\ w.what \in {"done", "failed", "reclaimed_stale", "rejected"}
      BY <1>6, <2>1, EndingsGrow
    <2>3. w = todo[1] /\ 1 \in DOMAIN todo /\ w.write = "event"
      BY <1>6, NextWrite DEF WriteEvent
    <2>4. w.what \in {"done", "failed", "reclaimed_stale"}
      BY <1>6, <2>2, <2>3, NextWrite DEF RunSteps
    <2>5. IsClose(todo, 1) /\ status[j] \in {"done", "failed"}
      BY <1>6, <2>2, <2>3, <2>4, NextWrite DEF IsClose, Closing, Outcome
    <2>6. Endings(j) = {}
      BY <2>2, <2>3, <2>4, <2>5 DEF EndingInv
    <2>7. Endings(j)' = Endings(j) \cup {Len(trail[j]) + 1}
      BY <2>1, <2>2, EndingsGrow
    <2>8. QED
      BY <1>6, <2>2, <2>5, <2>6, <2>7
  <1>7. QED
    BY <1>1, TrailGrows, <1>2, <1>3, <1>4, <1>5, <1>6

\* Every step keeps EndingInv.
LEMMA EndingStep ==
  ASSUME CoreInv, EndingInv, [Next]_vars
  PROVE  EndingInv'
  <1>1. StoreInv /\ TodoInv /\ NoJob \notin Jobs /\ NoOne \notin Approvers
    BY WorkerAssumption DEF CoreInv, WorkerAssumption
  <1>2. SUFFICES ASSUME NEW j \in Jobs
                 PROVE  /\ \A i, k \in Endings(j)' : i = k
                        /\ \A i \in DOMAIN todo' :
                             IsClose(todo', i) /\ todo'[i].job = j /\ todo'[i].what # "awaiting_approval"
                               => Endings(j)' = {}
                        /\ \A a \in Approvers : deciding'[a] = j /\ status'[j] = "rejected"
                               => Endings(j)' = {}
    BY DEF EndingInv
  <1>3. \A i, k \in Endings(j)' : i = k
    <2>1. CASE Endings(j)' = Endings(j)
      BY <2>1 DEF EndingInv
    <2>2. CASE \E n : Endings(j)' = {n}
      BY <2>2
    <2>3. QED
      BY <2>1, <2>2, EndingsKept
  <1>4. ASSUME NEW i \in DOMAIN todo', IsClose(todo', i), todo'[i].job = j,
               todo'[i].what # "awaiting_approval"
        PROVE  Endings(j)' = {}
    <2>1. CASE status[j] = "running" /\ (EndStep \/ SweepStep)
      <3>1. Endings(j) = {}
        BY <2>1, EndedStatus
      <3>2. trail' = trail
        BY <2>1 DEF EndStep, SweepStep
      <3>3. QED
        BY <3>1, <3>2, NothingSaid
    <2>2. ASSUME NEW k \in DOMAIN todo, todo'[i] = todo[k],
                 k # 1 \/ ~\E w \in WriteSet : WriteStep(w)
          PROVE  Endings(j)' = {}
      <3>1. IsClose(todo, k) /\ todo[k].job = j /\ todo[k].what # "awaiting_approval"
        BY <1>4, <2>2 DEF IsClose
      <3>2. Endings(j) = {}
        BY <3>1 DEF EndingInv
      <3>3. status[j] # "rejected"
        BY <1>1, <3>1 DEF TodoInv, TodoItem, IsClose, Closing, Outcome
      <3>4. ASSUME NEW w \in WriteSet, WriteStep(w), w.job = j, IsClose(todo, 1)
            PROVE  FALSE
        <4>1. 1 \in DOMAIN todo /\ w = todo[1]
          BY <3>4, NextWrite
        <4>2. k = 1
          BY <1>1, <3>1, <3>4, <4>1 DEF TodoInv, Ordered
        <4>3. QED
          BY <2>2, <3>4, <4>2
      <3>5. QED
        BY <3>2, <3>3, <3>4, EndingsKept
    <2>3. QED
      BY <1>4, <2>1, <2>2, TodoOrigin
  <1>5. ASSUME NEW a \in Approvers, deciding'[a] = j, status'[j] = "rejected"
        PROVE  Endings(j)' = {}
    <2>1. CASE deciding[a] = j
      <3>1. approvedBy[j] = a /\ status[j] # "awaiting_approval"
        BY <1>1, <2>1 DEF StoreInv, Approved
      <3>2. status[j] = "rejected"
        BY <1>5, <3>1, StatusSteps DEF WriteMove, Reached
      <3>3. Endings(j) = {}
        BY <2>1, <3>2 DEF EndingInv
      <3>4. ASSUME NEW b \in Approvers, AuditDecision(b), deciding[b] = j
            PROVE  FALSE
        <4>1. b = a
          BY <1>1, <3>1, <3>4 DEF StoreInv
        <4>2. deciding'[a] = NoJob
          BY <3>4, <4>1 DEF AuditDecision, CoreInv, TypedInv, TypeOK
        <4>3. QED
          BY <1>1, <1>5, <4>2
      <3>5. QED
        BY <3>2, <3>3, <3>4, EndingsKept
    <2>2. CASE Decide(a, j)
      <3>1. trail' = trail /\ status[j] = "awaiting_approval"
        BY <2>2 DEF Decide
      <3>2. Endings(j) = {}
        BY <3>1, EndedStatus
      <3>3. QED
        BY <3>1, <3>2, NothingSaid
    <2>3. QED
      BY <1>1, <1>5, <2>1, <2>2, DecidingSteps
  <1>6. QED
    BY <1>3, <1>4, <1>5

\* A job has one ending in its trail: neither a sweep nor a decision that comes
\* late ends it again.
THEOREM OneEndingAlways == Spec => []OneEnding
  <1>1. Init => EndingInv
    <2> SUFFICES ASSUME Init PROVE EndingInv
      OBVIOUS
    <2>1. \A j \in Jobs : Endings(j) = {}
      BY DEF Init, Endings
    <2>2. QED
      BY <2>1 DEF EndingInv
  <1>2. CoreInv /\ EndingInv /\ [Next]_vars => EndingInv'
    BY EndingStep
  <1>3. ASSUME EndingInv
        PROVE  OneEnding
    <2>1. SUFFICES ASSUME NEW j \in Jobs
                   PROVE  Cardinality(Endings(j)) <= 1
      BY DEF OneEnding
    <2>2. CASE Endings(j) = {}
      BY <2>2, FS_EmptySet
    <2>3. CASE Endings(j) # {}
      <3>1. PICK i : i \in Endings(j)
        BY <2>3
      <3>2. \A k \in Endings(j) : k = i
        BY <1>3, <2>1, <3>1 DEF EndingInv
      <3>3. Endings(j) = {i}
        BY <3>1, <3>2
      <3>4. Cardinality({i}) = 1
        BY FS_Singleton
      <3>5. QED
        BY <3>3, <3>4
    <2>4. QED
      BY <2>2, <2>3
  <1>4. QED
    BY <1>1, <1>2, <1>3, CoreAlways, PTL DEF Spec

-----------------------------------------------------------------------------
(* Every ending is told.                                                   *)

\* What was said stays said.
LEMMA SaidKept ==
  ASSUME CoreInv, [Next]_vars, NEW j \in Jobs, NEW s, Said(j, s)
  PROVE  Said(j, s)'
  BY EventsStay DEF Said

LEMMA SteppedKept ==
  ASSUME CoreInv, [Next]_vars, NEW j \in Jobs, NEW s, Stepped(j, s)
  PROVE  Stepped(j, s)'
  BY EventsStay DEF Stepped

\* What was to be told still is, or has been.
LEMMA ToTellKept ==
  ASSUME CoreInv, [Next]_vars, NEW j \in Jobs \ cut', NEW s, ToTell(j, s)
  PROVE  ToTell(j, s)' \/ (Said(j, s)' /\ Stepped(j, s)')
  <1>1. PICK k \in DOMAIN todo : todo[k].write = "event" /\ todo[k].job = j /\ todo[k].what = s
    BY DEF ToTell
  <1>2. CASE \E i \in DOMAIN todo' : todo'[i] = todo[k]
    BY <1>1, <1>2 DEF ToTell
  <1>3. CASE /\ todo[k] \in WriteSet /\ WriteStep(todo[k])
             /\ WriteEvent(todo[k]) \/ WriteMove(todo[k]) \/ WriteMetric(todo[k])
    <2>1. WriteEvent(todo[k])
      BY <1>1, <1>3 DEF WriteMove, WriteMetric
    <2>2. QED
      BY <1>1, <1>3, <2>1, WriteTold
  <1>4. QED
    BY <1>1, <1>2, <1>3, TodoFate

\* A decision still has to be recorded, or has been.
LEMMA DecidingKept ==
  ASSUME CoreInv, [Next]_vars, NEW j \in Jobs \ cut', NEW a \in Approvers, deciding[a] = j,
         NEW s, s = Decision(j)
  PROVE  deciding'[a] = j \/ Said(j, s)'
  <1>1. StoreInv /\ NoJob \notin Jobs /\ NoOne \notin Approvers
    BY WorkerAssumption DEF CoreInv, WorkerAssumption
  <1>2. CASE AuditDecision(a)
    BY <1>2, DecisionTold
  <1>3. CASE DecisionLost(a)
    BY <1>3 DEF DecisionLost
  <1>4. ASSUME NEW k \in Jobs, Decide(a, k)
        PROVE  FALSE
    BY <1>1, <1>4 DEF Decide
  <1>5. QED
    BY <1>2, <1>3, <1>4, DecidingSteps

\* A move out of the executor leaves its event behind.
LEMMA MoveTold ==
  ASSUME CoreInv, [Next]_vars, NEW w \in WriteSet, WriteStep(w), WriteMove(w), w.job \notin cut
  PROVE  ToTell(w.job, w.what)'
  <1>1. /\ TodoInv /\ 1 \in DOMAIN todo /\ w = todo[1] /\ w.job \in Jobs /\ job # NoJob
        /\ w.write = "status" /\ w.what \in Reached
    BY NextWrite DEF CoreInv, WriteMove
  <1>2. PICK k \in DOMAIN todo : /\ k > 1 /\ IsClose(todo, k) /\ todo[k].job = w.job
                                 /\ Outcome(todo[k].what) = w.what
    BY <1>1 DEF TodoInv, Ordered, IsMove
  <1>3. todo[k].write = "event" /\ todo[k].what \in RunSteps
    BY <1>1, <1>2 DEF TodoInv, TodoItem, IsClose
  <1>4. todo[k].what = w.what
    BY <1>2, <1>3 DEF Outcome, RunSteps
  <1>5. \E i \in DOMAIN todo' : todo'[i] = todo[k]
    <2>1. k # 1 /\ cut' = cut
      BY <1>2 DEF WriteStep
    <2>2. todo[k].job \notin cut'
      BY <1>2, <2>1
    <2>3. QED
      BY <2>1, <2>2, TodoFate
  <1>6. QED
    BY <1>2, <1>3, <1>4, <1>5 DEF ToTell

\* Every step keeps CompleteInv.
LEMMA CompleteStep ==
  ASSUME CoreInv, CompleteInv, [Next]_vars
  PROVE  CompleteInv'
  <1>1. StoreInv /\ NoOne \notin Approvers /\ status \in [Jobs -> Statuses]
    BY WorkerAssumption, TypeParts DEF CoreInv, WorkerAssumption
  <1>2. SUFFICES ASSUME NEW j \in Jobs \ cut'
                 PROVE  /\ \A s \in {"done", "failed", "awaiting_approval"} :
                              status'[j] = s => Said(j, s)' \/ ToTell(j, s)'
                        /\ status'[j] = "rejected" =>
                              Said(j, "rejected")' \/ \E a \in Approvers : deciding'[a] = j
                        /\ Approved(j)' /\ status'[j] # "rejected" =>
                              Said(j, "approved")' \/ \E a \in Approvers : deciding'[a] = j
    BY DEF CompleteInv
  <1>3. j \in Jobs \ cut
    BY CutGrows
  <1>4. ASSUME NEW s \in Reached, status'[j] = s
        PROVE  Said(j, s)' \/ ToTell(j, s)'
    <2>1. CASE status[j] = s
      <3>1. Said(j, s) \/ ToTell(j, s)
        BY <1>3, <2>1 DEF CompleteInv, Reached
      <3>2. QED
        BY <3>1, SaidKept, ToTellKept
    <2>2. CASE status[j] # s
      <3>1. PICK w \in WriteSet : WriteStep(w) /\ WriteMove(w) /\ w.job = j /\ w.what = s
        BY <1>3, <1>4, <2>2, StatusSteps DEF Reached
      <3>2. QED
        BY <1>3, <3>1, MoveTold
    <2>3. QED
      BY <2>1, <2>2
  <1>5. ASSUME status'[j] = "rejected"
        PROVE  Said(j, "rejected")' \/ \E a \in Approvers : deciding'[a] = j
    <2>1. CASE status[j] = "rejected"
      <3>1. Decision(j) = "rejected"
        BY <2>1 DEF Decision
      <3>2. Said(j, "rejected") \/ \E a \in Approvers : deciding[a] = j
        BY <1>3, <2>1 DEF CompleteInv
      <3>3. QED
        BY <3>1, <3>2, SaidKept, DecidingKept
    <2>2. CASE status[j] # "rejected"
      <3>1. PICK a \in Approvers : Decide(a, j)
        BY <1>3, <1>5, <2>2, StatusSteps DEF WriteMove, Reached
      <3>2. deciding'[a] = j
        BY <3>1 DEF Decide, CoreInv, TypedInv, TypeOK
      <3>3. QED
        BY <3>2
    <2>3. QED
      BY <2>1, <2>2
  <1>6. ASSUME Approved(j)', status'[j] # "rejected"
        PROVE  Said(j, "approved")' \/ \E a \in Approvers : deciding'[a] = j
    <2>1. CASE Approved(j)
      <3>1. status[j] # "rejected"
        BY <1>3, <1>6, StatusSteps DEF Claimable
      <3>2. Decision(j) = "approved"
        BY <3>1 DEF Decision
      <3>3. Said(j, "approved") \/ \E a \in Approvers : deciding[a] = j
        BY <1>3, <2>1, <3>1 DEF CompleteInv
      <3>4. QED
        BY <3>2, <3>3, SaidKept, DecidingKept
    <2>2. CASE ~Approved(j)
      <3>1. PICK a \in Approvers : Decide(a, j)
        BY <1>3, <1>6, <2>2, StatusSteps DEF Approved
      <3>2. deciding'[a] = j
        BY <3>1 DEF Decide, CoreInv, TypedInv, TypeOK
      <3>3. QED
        BY <3>2
    <2>3. QED
      BY <2>1, <2>2
  <1>7. QED
    BY <1>4, <1>5, <1>6 DEF Reached

\* A job that ended, waits at the gate or was decided says so in its trail, or the
\* process that owes the event is still to write it, unless a kill cut it off.
THEOREM TrailAlwaysComplete == Spec => []TrailIsComplete
  <1>1. Init => CompleteInv
    BY WorkerAssumption DEF Init, CompleteInv, Approved, WorkerAssumption
  <1>2. CoreInv /\ CompleteInv /\ [Next]_vars => CompleteInv'
    BY CompleteStep
  <1>3. ASSUME CompleteInv
        PROVE  TrailIsComplete
    <2>1. SUFFICES ASSUME NEW j \in Jobs \ cut
                   PROVE  /\ status[j] \in {"done", "failed", "rejected", "awaiting_approval"} =>
                               Said(j, status[j]) \/ Pending(j, status[j])
                          /\ Approved(j) /\ status[j] # "rejected" =>
                               Said(j, "approved") \/ Pending(j, "approved")
      BY DEF TrailIsComplete
    <2>2. \A s : ToTell(j, s) => Pending(j, s)
      BY DEF ToTell, Pending
    <2>3. ASSUME NEW a \in Approvers, deciding[a] = j
          PROVE  IF status[j] = "rejected" THEN Pending(j, "rejected") ELSE Pending(j, "approved")
      BY <2>3 DEF Pending, Decision
    <2>4. QED
      BY <1>3, <2>2, <2>3 DEF CompleteInv
  <1>4. QED
    BY <1>1, <1>2, <1>3, CoreAlways, PTL DEF Spec

-----------------------------------------------------------------------------
(* Who pushed.                                                             *)

\* A grant stays in the trail.
LEMMA GrantedKept ==
  ASSUME CoreInv, [Next]_vars, NEW j \in Jobs, Granted(j)
  PROVE  Granted(j)'
  <1>1. PICK i \in DOMAIN trail[j] : /\ trail[j][i].action = "write_credentials_issued"
                                     /\ j \notin cut => trail[j][i].parent # 0
    BY DEF Granted
  <1>2. i \in DOMAIN trail'[j] /\ trail'[j][i] = trail[j][i]
    BY EventsStay
  <1>3. j \notin cut' => j \notin cut
    BY CutGrows
  <1>4. QED
    BY <1>1, <1>2, <1>3 DEF Granted

\* The steps that add to what must be traceable.
LEMMA OpenedSteps ==
  ASSUME CoreInv, [Next]_vars, NEW j \in Jobs, j \in opened' \/ (pc' = "granted" /\ j = job')
  PROVE  \/ j \in opened \/ (pc = "granted" /\ j = job)
         \/ AuditGrant /\ j = job
  <1>1. TypedInv /\ PlaceInv /\ TodoInv
    BY DEF CoreInv
  <1>2. CASE QuietStep
    BY <1>2 DEF QuietStep
  <1>3. CASE EndStep
    BY <1>3 DEF EndStep
  <1>4. CASE SweepStep
    BY <1>4 DEF SweepStep
  <1>5. CASE AuditClaimed
    BY <1>5 DEF AuditClaimed
  <1>6. CASE AuditGrant
    BY <1>6 DEF AuditGrant
  <1>7. CASE Crash
    BY <1>7 DEF Crash
  <1>8. CASE \E w \in WriteSet : WriteStep(w)
    BY <1>8 DEF WriteStep
  <1>9. CASE \E k \in Jobs : Claim(k) \/ Enqueue(k)
    BY <1>9 DEF Claim, Enqueue, workerVars
  <1>10. CASE \E a \in Approvers : AuditDecision(a) \/ DecisionLost(a) \/ \E k \in Jobs : Decide(a, k)
    BY <1>10 DEF AuditDecision, DecisionLost, Decide, workerVars
  <1>11. QED
    BY <1>1, StepKinds, <1>2, <1>3, <1>4, <1>5, <1>6, <1>7, <1>8, <1>9, <1>10

\* Every step keeps TraceInv.
LEMMA TraceStep ==
  ASSUME CoreInv, TraceInv, [Next]_vars
  PROVE  TraceInv'
  <1>1. /\ TypedInv /\ PlaceInv /\ StoreInv /\ TodoInv /\ NoOne \notin Approvers
        /\ trail \in [Jobs -> Seq(EventSet)]
    BY WorkerAssumption, TypeParts DEF CoreInv, WorkerAssumption
  <1>2. ASSUME NEW j \in Jobs \ cut', Approved(j)' \/ status'[j] = "awaiting_approval"
        PROVE  Stepped(j, "awaiting_approval")' \/ ToTell(j, "awaiting_approval")'
    <2>1. j \in Jobs \ cut
      BY CutGrows
    <2>2. CASE Approved(j) \/ status[j] = "awaiting_approval"
      <3>1. Stepped(j, "awaiting_approval") \/ ToTell(j, "awaiting_approval")
        BY <2>1, <2>2 DEF TraceInv
      <3>2. QED
        BY <3>1, SteppedKept, ToTellKept
    <2>3. CASE ~Approved(j) /\ status[j] # "awaiting_approval"
      <3>1. PICK w \in WriteSet : WriteStep(w) /\ WriteMove(w) /\ w.job = j /\ w.what = "awaiting_approval"
        BY <1>2, <2>1, <2>3, StatusSteps DEF Approved
      <3>2. QED
        BY <2>1, <3>1, MoveTold
    <2>4. QED
      BY <2>2, <2>3
  <1>3. ASSUME AuditGrant
        PROVE  Granted(job)'
    <2>1. job \in Jobs /\ Executing(job) /\ todo = <<>> /\ cut' = cut
      BY <1>1, <1>3 DEF AuditGrant, PlaceInv, InRun
    <2> DEFINE e == EventRec("write_credentials_issued", ApprovalStep(job), TRUE)
    <2>2. Says(job, e)
      <3>1. ~\E w \in WriteSet : WriteStep(w)
        BY <1>3 DEF AuditGrant, WriteStep
      <3>2. ~AuditClaimed /\ ~\E a \in Approvers : AuditDecision(a)
        BY <1>3 DEF AuditGrant, AuditClaimed, AuditDecision, workerVars
      <3>3. ~UNCHANGED trail
        <4>1. trail' = [trail EXCEPT ![job] = Append(@, e)]
          BY <1>3 DEF AuditGrant, Record
        <4>2. Len(trail'[job]) = Len(trail[job]) + 1 /\ Len(trail[job]) \in Nat
          BY <1>1, <2>1, <4>1
        <4>3. QED
          BY <4>2
      <3>4. QED
        BY <1>1, <3>1, <3>2, <3>3, TrailGrows
    <2>3. e.action = "write_credentials_issued" /\ e.parent = ApprovalStep(job)
      BY DEF EventRec
    <2> HIDE DEF e
    <2>4. PICK i \in DOMAIN trail'[job] : trail'[job][i] = e
      BY <2>2, EventAdded
    <2>5. job \notin cut => ApprovalStep(job) # 0
      <3>1. SUFFICES ASSUME job \notin cut PROVE ApprovalStep(job) # 0
        OBVIOUS
      <3>2. Stepped(job, "awaiting_approval")
        BY <2>1, <3>1 DEF TraceInv, Executing, ToTell
      <3>3. ApprovalSteps(job) # {}
        BY <3>2 DEF Stepped, ApprovalSteps
      <3>4. ApprovalStep(job) \in ApprovalSteps(job)
        BY <1>1, <2>1, <3>3, ApprovalStepIs DEF TypedInv
      <3>5. ApprovalStep(job) \in DOMAIN trail[job] /\ DOMAIN trail[job] = 1..Len(trail[job])
        BY <1>1, <2>1, <3>4 DEF ApprovalSteps
      <3>6. QED
        BY <3>5
    <2>6. job' = job
      BY <1>3 DEF AuditGrant
    <2>7. QED
      BY <2>1, <2>3, <2>4, <2>5, <2>6 DEF Granted
  <1>4. ASSUME NEW j \in Jobs, j \in opened' \/ (pc' = "granted" /\ j = job')
        PROVE  Granted(j)'
    <2>1. CASE j \in opened \/ (pc = "granted" /\ j = job)
      BY <2>1, GrantedKept DEF TraceInv
    <2>2. CASE AuditGrant /\ j = job
      <3>1. job' = job
        BY <2>2 DEF AuditGrant
      <3>2. QED
        BY <1>3, <2>2, <3>1 DEF Granted
    <2>3. QED
      BY <1>4, <2>1, <2>2, OpenedSteps
  <1>5. QED
    BY <1>2, <1>4 DEF TraceInv

\* A pull request exists only for a job whose trail already names the credential
\* that pushed it, and that hangs on a step of the gate unless a kill cut the trail.
THEOREM PushAlwaysTraceable == Spec => []PushIsTraceable
  <1>1. Init => TraceInv
    BY WorkerAssumption DEF Init, TraceInv, Approved, WorkerAssumption
  <1>2. CoreInv /\ TraceInv /\ [Next]_vars => TraceInv'
    BY TraceStep
  <1>3. CoreInv /\ TraceInv => PushIsTraceable
    BY WorkerAssumption DEF CoreInv, TypedInv, TypeOK, TraceInv, Granted, PushIsTraceable, WorkerAssumption
  <1>4. QED
    BY <1>1, <1>2, <1>3, CoreAlways, PTL DEF Spec

-----------------------------------------------------------------------------
(* Every run is measured once.                                             *)

\* The steps, by what they do to the runs, the metrics and todo.
LEMMA MeasureKinds ==
  ASSUME CoreInv, [Next]_vars, NEW j \in Jobs
  PROVE  \/ /\ metrics'[j] = metrics[j] /\ runs'[j] = runs[j]
            /\ Unmeasured(j)' => Unmeasured(j)
            /\ Unmeasured(j) => Unmeasured(j)' \/ j \in cut'
         \/ /\ metrics'[j] = metrics[j] /\ runs'[j] = runs[j] + 1
            /\ ~Unmeasured(j) /\ Unmeasured(j)'
         \/ /\ metrics'[j] = metrics[j] + 1 /\ runs'[j] = runs[j]
            /\ Unmeasured(j) /\ ~Unmeasured(j)'
  <1>1. /\ TypedInv /\ PlaceInv /\ StoreInv /\ TodoInv
        /\ metrics \in [Jobs -> Nat] /\ runs \in [Jobs -> Nat] /\ status \in [Jobs -> Statuses]
    BY DEF CoreInv, TypedInv, TypeOK
  <1>2. CASE \E k \in Jobs : Claim(k)
    <2>1. PICK k \in Jobs : Claim(k)
      BY <1>2
    <2>2. todo = <<>> /\ todo' = <<>> /\ metrics' = metrics /\ status[k] \in Claimable
      BY <2>1, Jobless DEF Claim
    <2>3. \A i \in DOMAIN todo : FALSE
      BY <2>2
    <2>4. \A i \in DOMAIN todo' : FALSE
      BY <2>2
    <2>5. runs' = [runs EXCEPT ![k] = @ + 1] /\ status' = [status EXCEPT ![k] = "running"]
      BY <2>1 DEF Claim
    <2>6. CASE k = j
      BY <1>1, <2>2, <2>3, <2>5, <2>6 DEF Unmeasured, Claimable
    <2>7. CASE k # j
      BY <1>1, <2>2, <2>3, <2>4, <2>5, <2>7 DEF Unmeasured
    <2>8. QED
      BY <2>6, <2>7
  <1>3. ASSUME NEW w \in WriteSet, WriteStep(w), WriteMetric(w)
        PROVE  \/ /\ metrics'[j] = metrics[j] /\ runs'[j] = runs[j]
                  /\ Unmeasured(j)' => Unmeasured(j)
                  /\ Unmeasured(j) => Unmeasured(j)' \/ j \in cut'
               \/ /\ metrics'[j] = metrics[j] + 1 /\ runs'[j] = runs[j]
                  /\ Unmeasured(j) /\ ~Unmeasured(j)'
    <2>1. /\ 1 \in DOMAIN todo /\ w = todo[1] /\ w.job \in Jobs /\ w.write = "metric"
          /\ status[w.job] # "running" /\ status' = status /\ runs' = runs
          /\ metrics' = [metrics EXCEPT ![w.job] = @ + 1]
      BY <1>3, NextWrite DEF WriteMetric, WriteStep
    <2>2. CASE w.job = j
      <3>1. Unmeasured(j)
        BY <2>1, <2>2 DEF Unmeasured, IsMetric
      <3>2. ASSUME NEW i \in DOMAIN todo', IsMetric(todo', i), todo'[i].job = j
            PROVE  FALSE
        <4>1. ~EndStep /\ ~SweepStep
          BY <1>3 DEF WriteStep, EndStep, SweepStep, InRun
        <4>2. PICK k \in DOMAIN todo : todo'[i] = todo[k] /\ k # 1
          BY <1>3, <4>1, TodoOrigin
        <4>3. IsMetric(todo, k) /\ IsMetric(todo, 1) /\ todo[k].job = todo[1].job
          BY <2>1, <2>2, <3>2, <4>2 DEF IsMetric
        <4>4. QED
          BY <1>1, <2>1, <4>2, <4>3 DEF TodoInv, Ordered
      <3>3. ~Unmeasured(j)'
        BY <2>1, <2>2, <3>2 DEF Unmeasured
      <3>4. QED
        BY <1>1, <2>1, <2>2, <3>1, <3>3
    <2>3. CASE w.job # j
      <3>1. metrics'[j] = metrics[j]
        BY <1>1, <2>1, <2>3
      <3>2. Unmeasured(j)' => Unmeasured(j)
        <4>1. ~EndStep /\ ~SweepStep
          BY <1>3 DEF WriteStep, EndStep, SweepStep, InRun
        <4>2. \A i \in DOMAIN todo' : \E k \in DOMAIN todo : todo'[i] = todo[k]
          BY <4>1, TodoOrigin
        <4>3. QED
          BY <2>1, <4>2 DEF Unmeasured, IsMetric
      <3>3. ASSUME Unmeasured(j)
            PROVE  Unmeasured(j)' \/ j \in cut'
        <4>1. CASE status[j] = "running"
          BY <2>1, <4>1 DEF Unmeasured
        <4>2. CASE \E k \in DOMAIN todo : IsMetric(todo, k) /\ todo[k].job = j
          <5>1. PICK k \in DOMAIN todo : IsMetric(todo, k) /\ todo[k].job = j
            BY <4>2
          <5>2. k # 1
            BY <2>1, <2>3, <5>1
          <5>3. QED
            BY <5>1, <5>2, TodoFate DEF Unmeasured, IsMetric
        <4>3. QED
          BY <3>3, <4>1, <4>2 DEF Unmeasured
      <3>4. QED
        BY <2>1, <3>1, <3>2, <3>3
    <2>4. QED
      BY <2>2, <2>3
  <1>4. ASSUME ~\E k \in Jobs : Claim(k), ~\E w \in WriteSet : WriteStep(w) /\ WriteMetric(w)
        PROVE  /\ metrics'[j] = metrics[j] /\ runs'[j] = runs[j]
               /\ Unmeasured(j)' => Unmeasured(j)
               /\ Unmeasured(j) => Unmeasured(j)' \/ j \in cut'
    <2>1. metrics' = metrics /\ runs' = runs
      BY <1>1, <1>4, StepKinds DEF QuietStep, EndStep, SweepStep, AuditClaimed, AuditGrant, Crash,
         Enqueue, AuditDecision, DecisionLost, Decide, WriteStep, WriteEvent, WriteMove
    <2>2. ASSUME Unmeasured(j)'
          PROVE  Unmeasured(j)
      <3>1. CASE status'[j] = "running"
        BY <1>4, <3>1, StatusSteps DEF Unmeasured, WriteMove, Reached
      <3>2. CASE \E i \in DOMAIN todo' : IsMetric(todo', i) /\ todo'[i].job = j
        BY <3>2, TodoOrigin DEF Unmeasured, IsMetric
      <3>3. QED
        BY <2>2, <3>1, <3>2 DEF Unmeasured
    <2>3. ASSUME NEW k \in DOMAIN todo, IsMetric(todo, k), todo[k].job = j
          PROVE  Unmeasured(j)' \/ j \in cut'
      <3>1. CASE \E i \in DOMAIN todo' : todo'[i] = todo[k]
        BY <2>3, <3>1 DEF Unmeasured, IsMetric
      <3>2. CASE /\ todo[k] \in WriteSet /\ WriteStep(todo[k])
                 /\ WriteEvent(todo[k]) \/ WriteMove(todo[k]) \/ WriteMetric(todo[k])
        BY <1>4, <2>3, <3>2 DEF IsMetric, WriteEvent, WriteMove
      <3>3. QED
        BY <2>3, <3>1, <3>2, TodoFate
    <2>4. ASSUME status[j] = "running"
          PROVE  Unmeasured(j)' \/ j \in cut'
      <3>1. CASE status'[j] = "running"
        BY <3>1 DEF Unmeasured
      <3>2. ASSUME NEW w \in WriteSet, WriteStep(w), WriteMove(w), w.job = j
            PROVE  Unmeasured(j)' \/ j \in cut'
        <4>1. 1 \in DOMAIN todo /\ w = todo[1] /\ IsMove(todo, 1)
          BY <3>2, NextWrite DEF WriteMove, IsMove
        <4>2. PICK k \in DOMAIN todo : IsMetric(todo, k) /\ todo[k].job = j
          BY <1>1, <3>2, <4>1 DEF TodoInv, Ordered
        <4>3. QED
          BY <2>3, <4>2
      <3>3. QED
        BY <2>4, <3>1, <3>2, StatusSteps DEF Claimable
    <2>5. QED
      BY <2>1, <2>2, <2>3, <2>4 DEF Unmeasured
  <1>5. QED
    BY <1>2, <1>3, <1>4

\* Every step keeps MeasureInv.
LEMMA MeasureStep ==
  ASSUME CoreInv, MeasureInv, [Next]_vars
  PROVE  MeasureInv'
  <1>1. SUFFICES ASSUME NEW j \in Jobs
                 PROVE  /\ metrics'[j] <= runs'[j]
                        /\ Unmeasured(j)' => metrics'[j] < runs'[j]
                        /\ j \notin cut' => metrics'[j] + (IF Unmeasured(j)' THEN 1 ELSE 0) = runs'[j]
    BY DEF MeasureInv
  <1>2. metrics[j] \in Nat /\ runs[j] \in Nat
    BY DEF CoreInv, TypedInv, TypeOK
  <1>3. j \notin cut' => j \notin cut
    BY CutGrows
  <1>4. /\ metrics[j] <= runs[j]
        /\ Unmeasured(j) => metrics[j] < runs[j]
        /\ j \notin cut => metrics[j] + (IF Unmeasured(j) THEN 1 ELSE 0) = runs[j]
    BY DEF MeasureInv
  <1> DEFINE u == Unmeasured(j)
             v == Unmeasured(j)'
  <1>5. \/ /\ metrics'[j] = metrics[j] /\ runs'[j] = runs[j]
           /\ v => u
           /\ u => v \/ j \in cut'
        \/ metrics'[j] = metrics[j] /\ runs'[j] = runs[j] + 1 /\ ~u /\ v
        \/ metrics'[j] = metrics[j] + 1 /\ runs'[j] = runs[j] /\ u /\ ~v
    BY MeasureKinds
  <1>6. QED
    BY <1>2, <1>3, <1>4, <1>5

\* Every run of a job is measured once, however it ended, and never twice.
THEOREM MeasuredAlways == Spec => []Measured
  <1>1. Init => MeasureInv
    BY DEF Init, MeasureInv, Unmeasured
  <1>2. CoreInv /\ MeasureInv /\ [Next]_vars => MeasureInv'
    BY MeasureStep
  <1>3. ASSUME CoreInv, MeasureInv
        PROVE  Measured
    <2>1. \A j \in Jobs : metrics[j] \in Nat
      BY <1>3 DEF CoreInv, TypedInv, TypeOK
    <2>2. ASSUME NEW j \in Jobs, j \notin cut, status[j] # "running", todo = <<>>
          PROVE  metrics[j] = runs[j]
      <3>1. DOMAIN todo = {}
        BY <2>2
      <3>2. ~Unmeasured(j)
        BY <2>2, <3>1 DEF Unmeasured
      <3>3. QED
        BY <1>3, <2>1, <2>2, <3>2 DEF MeasureInv
    <2>3. QED
      BY <1>3, <2>2 DEF Measured, MeasureInv
  <1>4. QED
    BY <1>1, <1>2, <1>3, CoreAlways, PTL DEF Spec

-----------------------------------------------------------------------------
(* The abstract life cycle.                                                *)

\* At the start no job has an executor.
LEMMA InitRefines == Init => Lifecycle!Init
  BY WorkerAssumption DEF WorkerAssumption, Init, Lifecycle!Init, Holder

\* Who executes a job after a step.
LEMMA HolderIs ==
  ASSUME NEW j \in Jobs
  PROVE  /\ Holder[j] = IF job = j /\ status[j] = "running" THEN TheWorker ELSE NoWorker
         /\ Holder'[j] = IF job' = j /\ status'[j] = "running" THEN TheWorker ELSE NoWorker
  BY DEF Holder

\* The executor of one job changes.
LEMMA HolderMoves ==
  ASSUME NEW j \in Jobs, NEW h, Holder'[j] = h, \A k \in Jobs \ {j} : Holder'[k] = Holder[k]
  PROVE  Holder' = [Holder EXCEPT ![j] = h]
  <1>1. Holder = [k \in Jobs |-> Holder[k]] /\ Holder' = [k \in Jobs |-> Holder'[k]]
    BY DEF Holder
  <1>2. QED
    BY <1>1

\* A sweep moves the orphans to "failed", nowhere else.
LEMMA SweptFails ==
  ASSUME CoreInv, NEW w \in WriteSet, WriteStep(w), WriteMove(w), job = NoJob
  PROVE  w.what = "failed"
  <1>1. TodoInv /\ 1 \in DOMAIN todo /\ w = todo[1] /\ IsMove(todo, 1)
    BY NextWrite DEF CoreInv, WriteMove, IsMove
  <1>2. PICK k \in DOMAIN todo : IsClose(todo, k) /\ Outcome(todo[k].what) = w.what
    BY <1>1 DEF TodoInv, Ordered
  <1>3. todo[k].what = "reclaimed_stale"
    BY <1>1, <1>2 DEF TodoInv, TodoItem, IsClose
  <1>4. QED
    BY <1>2, <1>3 DEF Outcome

\* Every step is a step of the life cycle, or changes nothing in it.
LEMMA StepRefines ==
  ASSUME CoreInv, [Next]_vars
  PROVE  [Lifecycle!Next]_(Lifecycle!vars)
  <1>1. /\ TypedInv /\ PlaceInv /\ StoreInv /\ TodoInv /\ NoJob \notin Jobs /\ TheWorker # NoWorker
        /\ status \in [Jobs -> Statuses] /\ job \in Jobs \cup {NoJob}
        /\ pc \in {"down", "start", "poll"} => job = NoJob
    BY WorkerAssumption, TypeParts DEF CoreInv, WorkerAssumption
  <1>2. ASSUME UNCHANGED <<status, job>>
        PROVE  UNCHANGED Lifecycle!vars
    BY <1>2 DEF Lifecycle!vars, Holder
  <1>3. CASE QuietStep
    <2>1. CASE pc = "write" /\ todo = <<>> /\ job' = NoJob
      <3>1. \A j \in Jobs : ~(job = j /\ status[j] = "running")
        BY <1>1, <2>1 DEF PlaceInv
      <3>2. status' = status
        BY <1>3 DEF QuietStep
      <3>3. Holder' = Holder
        BY <1>1, <2>1, <3>1, <3>2 DEF Holder
      <3>4. QED
        BY <3>2, <3>3 DEF Lifecycle!vars
    <2>2. CASE UNCHANGED job
      BY <1>2, <1>3, <2>2 DEF QuietStep
    <2>3. QED
      BY <1>3, <2>1, <2>2 DEF QuietStep
  <1>4. CASE EndStep \/ SweepStep
    BY <1>2, <1>4 DEF EndStep, SweepStep
  <1>5. CASE AuditClaimed \/ AuditGrant
    BY <1>2, <1>5 DEF AuditClaimed, AuditGrant, jobVars
  <1>6. CASE Crash
    <2>1. status' = status /\ job' = NoJob
      BY <1>6 DEF Crash, jobVars
    <2>2. CASE job \in Jobs /\ status[job] = "running"
      <3>1. Holder[job] = TheWorker /\ Holder'[job] = NoWorker
        BY <1>1, <2>1, <2>2, HolderIs
      <3>2. \A k \in Jobs \ {job} : Holder'[k] = Holder[k]
        BY <1>1, <2>1, HolderIs
      <3>3. Holder' = [Holder EXCEPT ![job] = NoWorker]
        BY <2>2, <3>1, <3>2, HolderMoves
      <3>4. Lifecycle!Interrupt(TheWorker, job)
        BY <2>1, <3>1, <3>3 DEF Lifecycle!Interrupt
      <3>5. QED
        BY <2>2, <3>4 DEF Lifecycle!Next
    <2>3. CASE ~(job \in Jobs /\ status[job] = "running")
      <3>1. Holder' = Holder
        BY <1>1, <2>1, <2>3 DEF Holder
      <3>2. QED
        BY <2>1, <3>1 DEF Lifecycle!vars
    <2>4. QED
      BY <2>2, <2>3
  <1>7. ASSUME NEW w \in WriteSet, w.job \in Jobs, WriteStep(w),
               WriteEvent(w) \/ WriteMove(w) \/ WriteMetric(w)
        PROVE  Lifecycle!Next \/ UNCHANGED Lifecycle!vars
    <2> DEFINE j == w.job
    <2>1. CASE WriteEvent(w) \/ WriteMetric(w)
      BY <1>2, <1>7, <2>1 DEF WriteStep, WriteEvent, WriteMetric
    <2>2. CASE WriteMove(w)
      <3>1. /\ status[j] = "running" /\ status' = [status EXCEPT ![j] = w.what]
            /\ w.what \in {"awaiting_approval", "done", "failed"} /\ job' = job
        BY <1>7, <2>2 DEF WriteMove, WriteStep, Reached
      <3>2. Holder'[j] = NoWorker
        BY <1>1, <1>7, <3>1, HolderIs
      <3>3. \A k \in Jobs \ {j} : Holder'[k] = Holder[k]
        BY <1>1, <1>7, <3>1, HolderIs
      <3>4. CASE job = NoJob
        <4>1. Holder[j] = NoWorker
          BY <1>1, <1>7, <3>4, HolderIs
        <4>2. Holder' = Holder
          <5>1. \A k \in Jobs : Holder'[k] = Holder[k]
            BY <3>2, <3>3, <4>1
          <5>2. QED
            BY <5>1 DEF Holder
        <4>3. w.what = "failed"
          BY <1>7, <2>2, <3>4, SweptFails
        <4>4. Lifecycle!Reclaim(j)
          BY <3>1, <4>1, <4>2, <4>3 DEF Lifecycle!Reclaim
        <4>5. QED
          BY <1>7, <4>4 DEF Lifecycle!Next
      <3>5. CASE job # NoJob
        <4>1. job = j
          BY <1>7, <3>5, NextWrite
        <4>2. Holder[j] = TheWorker
          BY <1>7, <3>1, <4>1, HolderIs
        <4>3. Holder' = [Holder EXCEPT ![j] = NoWorker]
          BY <1>7, <3>2, <3>3, HolderMoves
        <4>4. Lifecycle!Release(TheWorker, j)
          BY <3>1, <4>2, <4>3 DEF Lifecycle!Release
        <4>5. QED
          BY <1>7, <4>4 DEF Lifecycle!Next
      <3>6. QED
        BY <3>4, <3>5
    <2>3. QED
      BY <1>7, <2>1, <2>2
  <1>8. ASSUME NEW j \in Jobs, Claim(j)
        PROVE  Lifecycle!Next
    <2>1. /\ status[j] \in {"approved", "pending"} /\ job = NoJob
          /\ status' = [status EXCEPT ![j] = "running"] /\ job' = j
      BY <1>1, <1>8 DEF Claim, Claimable
    <2>2. Holder'[j] = TheWorker
      BY <1>1, <2>1, HolderIs
    <2>3. \A k \in Jobs : Holder[k] = NoWorker
      BY <1>1, <2>1, HolderIs
    <2>4. \A k \in Jobs \ {j} : Holder'[k] = NoWorker
      BY <2>1, HolderIs
    <2>5. Holder' = [Holder EXCEPT ![j] = TheWorker]
      BY <2>2, <2>3, <2>4, HolderMoves
    <2>6. Lifecycle!Claim(TheWorker, j)
      BY <1>1, <2>1, <2>3, <2>5 DEF Lifecycle!Claim, Lifecycle!Claimable
    <2>7. QED
      BY <2>6 DEF Lifecycle!Next
  <1>9. ASSUME NEW j \in Jobs, Enqueue(j)
        PROVE  Lifecycle!Next
    <2>1. status[j] = "absent" /\ status' = [status EXCEPT ![j] = "pending"] /\ job' = job
      BY <1>9 DEF Enqueue, workerVars
    <2>2. Holder' = Holder
      BY <1>1, <2>1 DEF Holder
    <2>3. Lifecycle!Enqueue(j)
      BY <2>1, <2>2 DEF Lifecycle!Enqueue
    <2>4. QED
      BY <2>3 DEF Lifecycle!Next
  <1>10. ASSUME NEW a \in Approvers, NEW j \in Jobs, Decide(a, j)
         PROVE  Lifecycle!Next
    <2>1. PICK s \in {"approved", "rejected"} : status' = [status EXCEPT ![j] = s]
      BY <1>10 DEF Decide
    <2>2. status[j] = "awaiting_approval" /\ job' = job
      BY <1>10 DEF Decide, workerVars
    <2>3. Holder' = Holder
      BY <1>1, <2>1, <2>2 DEF Holder
    <2>4. Lifecycle!Decide(j)
      BY <2>1, <2>2, <2>3 DEF Lifecycle!Decide
    <2>5. QED
      BY <2>4 DEF Lifecycle!Next
  <1>11. ASSUME NEW a \in Approvers, AuditDecision(a) \/ DecisionLost(a)
         PROVE  UNCHANGED Lifecycle!vars
    BY <1>2, <1>11 DEF AuditDecision, DecisionLost, jobVars, workerVars
  <1>12. QED
    BY <1>1, StepKinds, <1>3, <1>4, <1>5, <1>6, <1>7, <1>8, <1>9, <1>10, <1>11

\* The worker, its crashes and its sweeps for orphans implement the abstract
\* life cycle: no step of process_one or reclaim_stale moves a job otherwise
\* than the protocol of the store promises, and a job that the live worker
\* executes is never reclaimed.
THEOREM WorkerImplementsLifecycle == Spec => ImplementsLifecycle
  <1>1. CoreInv /\ [Next]_vars => [Lifecycle!Next]_(Lifecycle!vars)
    BY StepRefines
  <1>2. QED
    BY <1>1, InitRefines, CoreAlways, PTL DEF Spec, ImplementsLifecycle, Lifecycle!Spec
=============================================================================
