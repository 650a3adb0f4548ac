--------------------------- MODULE SlackGateProofs ---------------------------
(***************************************************************************)
(* Theorems about SlackGate for any number of jobs, people, restarts and   *)
(* failed calls: the thread of a job tells the truth, and the channel gets *)
(* its news in order.                                                      *)
(***************************************************************************)
EXTENDS SlackGate, SequenceTheorems, FiniteSetTheorems, TLAPS

Decisions == {"approved", "rejected"}

\* Statuses of a job whose gate was decided or whose run ended without one.
Beyond == {"approved", "executing", "done", "failed", "rejected"}

\* Where a job that was once seen at the gate can be.
AtOrBeyond == Beyond \cup {"awaiting_approval"}

Words == {"none", "buttons", "result", "rejected by somebody", "still working",
          "approved", "rejected", "already handled", "not authorized"}

Says == [what : Words, by : People \cup {NoOne}]

Typed == /\ status \in [Jobs -> Statuses]
         /\ decider \in [Jobs -> People \cup {Web, NoOne}]
         /\ got \in [Jobs -> Statuses \cup {"none"}]
         /\ message \in [Jobs -> Says]
         /\ modal \in [People -> Jobs \cup {NoJob}]
         /\ click \in [People -> {<<>>} \cup Jobs \X Decisions \X BOOLEAN]
         /\ hand \in [People -> {<<>>} \cup Jobs \X Says]

\* What a text that a person caused says of a job holds from then on.
Holds(j, text) ==
    /\ text.what = "approved" =>
         decider[j] = text.by /\ status[j] \in {"approved", "executing", "done", "failed"}
    /\ text.what = "rejected" => decider[j] = text.by /\ status[j] = "rejected"
    /\ text.what = "already handled" => status[j] \in Beyond
    /\ text.what = "not authorized" => text.by \notin Approvers
    /\ text.what = "buttons" => status[j] \in AtOrBeyond
    /\ text.what \in {"result", "rejected by somebody"} => status[j] \in Beyond

MessagesTrue == \A j \in Jobs : Holds(j, message[j])
HandsTrue    == \A p \in People : hand[p] # <<>> => Holds(hand[p][1], hand[p][2])

\* Whoever clicks, or has the modal open, has seen the gate; so has the assistant
\* that got its status.
GateWasSeen ==
    /\ \A p \in People : click[p] # <<>> => status[click[p][1]] \in AtOrBeyond
    /\ \A p \in People : modal[p] # NoJob => status[modal[p]] \in AtOrBeyond
    /\ \A j \in Jobs : /\ got[j] = "awaiting_approval" => status[j] \in AtOrBeyond
                       /\ got[j] \in {"done", "failed", "rejected"} => status[j] = got[j]

ThreadInv == Typed /\ MessagesTrue /\ HandsTrue /\ GateWasSeen

-----------------------------------------------------------------------------
\* A job goes on from its status, and a decision is made once.
JobsGoOn ==
    \A j \in Jobs :
        /\ status[j] \in AtOrBeyond => status'[j] \in AtOrBeyond
        /\ status[j] \in Beyond => status'[j] \in Beyond /\ decider'[j] = decider[j]
        /\ status[j] \in {"approved", "executing", "done", "failed"} =>
             status'[j] \in {"approved", "executing", "done", "failed"}
        /\ status[j] \in {"done", "failed", "rejected"} => status'[j] = status[j]

LEMMA InitThread == Init => ThreadInv
<1> SUFFICES ASSUME Init PROVE ThreadInv
    OBVIOUS
<1>1. /\ message \in [Jobs -> Says]
      /\ \A j \in Jobs : message[j].what = "none"
    BY DEF Init, Text, Says, Words
<1>2. Typed
    BY <1>1 DEF Init, Typed, Statuses
<1>3. MessagesTrue
    BY <1>1 DEF MessagesTrue, Holds
<1> QED
    BY <1>2, <1>3 DEF Init, ThreadInv, HandsTrue, GateWasSeen

\* So a text that was true stays true.
LEMMA TruthLasts ==
  ASSUME JobsGoOn, NEW j \in Jobs, NEW t \in Says, Holds(j, t)
  PROVE  Holds(j, t)'
  BY DEF JobsGoOn, Holds, AtOrBeyond, Beyond

\* A step of the worker or the dashboard, which touches nothing that Slack holds.
LEMMA ThreadStays ==
  ASSUME ThreadInv, JobsGoOn, status' \in [Jobs -> Statuses],
         decider' \in [Jobs -> People \cup {Web, NoOne}],
         UNCHANGED <<got, message, modal, click, hand>>
  PROVE  ThreadInv'
<1>1. Typed'
    BY DEF ThreadInv, Typed
<1>2. MessagesTrue'
    BY TruthLasts DEF ThreadInv, Typed, MessagesTrue
<1>3. HandsTrue'
    BY TruthLasts DEF ThreadInv, Typed, HandsTrue
<1>4. GateWasSeen'
    BY DEF ThreadInv, Typed, GateWasSeen, JobsGoOn
<1> QED
    BY <1>1, <1>2, <1>3, <1>4 DEF ThreadInv

LEMMA DecideGoesOn ==
  ASSUME Typed, NEW j \in Jobs, NEW p \in People \cup {Web}, NEW s \in Decisions, Decide(j, p, s)
  PROVE  /\ JobsGoOn
         /\ status' \in [Jobs -> Statuses]
         /\ decider' \in [Jobs -> People \cup {Web, NoOne}]
         /\ status[j] = "awaiting_approval" /\ status'[j] = s /\ decider'[j] = p
  BY DEF Typed, Decide, Move, JobsGoOn, Decisions, Statuses, AtOrBeyond, Beyond

LEMMA WorkGoesOn ==
  ASSUME Typed, NEW j \in Jobs, Work(j)
  PROVE  JobsGoOn /\ status' \in [Jobs -> Statuses]
  BY DEF Typed, Work, Move, JobsGoOn, Statuses, AtOrBeyond, Beyond

\* When the jobs stay as they are, so does what is true of them.
LEMMA StoreStays == ASSUME UNCHANGED <<status, decider>> PROVE JobsGoOn
  BY DEF JobsGoOn

LEMMA TextsStay ==
  ASSUME ThreadInv, UNCHANGED <<status, decider>>
  PROVE  /\ UNCHANGED message => MessagesTrue'
         /\ UNCHANGED hand => HandsTrue'
         /\ UNCHANGED <<got, modal, click>> => GateWasSeen'
<1>1. JobsGoOn
    BY StoreStays
<1>2. ASSUME UNCHANGED message PROVE MessagesTrue'
    BY <1>1, <1>2, TruthLasts DEF ThreadInv, Typed, MessagesTrue
<1>3. ASSUME UNCHANGED hand PROVE HandsTrue'
    BY <1>1, <1>3, TruthLasts DEF ThreadInv, Typed, HandsTrue
<1>4. ASSUME UNCHANGED <<got, modal, click>> PROVE GateWasSeen'
    BY <1>4 DEF ThreadInv, GateWasSeen
<1> QED
    BY <1>2, <1>3, <1>4

-----------------------------------------------------------------------------
LEMMA StepThread == ThreadInv /\ [Next]_vars => ThreadInv'
<1> SUFFICES ASSUME ThreadInv, [Next]_vars PROVE ThreadInv'
    OBVIOUS
<1>1. ASSUME NEW j \in Jobs, Work(j) PROVE ThreadInv'
    BY <1>1, WorkGoesOn, ThreadStays DEF Work, ThreadInv, Typed, threadVars, clickVars
<1>2. ASSUME NEW j \in Jobs, WebDecides(j) PROVE ThreadInv'
    <2>1. PICK s \in Decisions : Decide(j, Web, s)
        BY <1>2 DEF WebDecides, Decisions
    <2> QED
        BY <1>2, <2>1, DecideGoesOn, ThreadStays DEF WebDecides, ThreadInv, threadVars, clickVars
<1>3. CASE Prime \/ Poll \/ Announce \/ NotifierDies
    <2>1. UNCHANGED <<status, decider, got, message, modal, click, hand>>
        BY <1>3 DEF Prime, Poll, Announce, NotifierDies, threadVars, clickVars
    <2> QED
        BY <2>1, StoreStays, ThreadStays DEF ThreadInv, Typed
<1>4. ASSUME NEW j \in Jobs, Look(j) \/ Deadline(j) PROVE ThreadInv'
    <2>1. /\ got' = [got EXCEPT ![j] = status[j]]
          /\ UNCHANGED <<status, decider, message, modal, click, hand>>
        BY <1>4 DEF Look, Deadline, clickVars
    <2>2. Typed' /\ GateWasSeen'
        BY <2>1 DEF ThreadInv, Typed, GateWasSeen, AtOrBeyond
    <2> QED
        BY <2>1, <2>2, TextsStay DEF ThreadInv
<1>5. ASSUME NEW j \in Jobs, FollowUp(j) PROVE ThreadInv'
    <2> DEFINE w == CASE got[j] = "awaiting_approval" -> "buttons"
                      [] got[j] \in {"done", "failed"} -> "result"
                      [] got[j] = "rejected" -> "rejected by somebody"
                      [] OTHER -> "still working"
    <2>1. /\ message' = [message EXCEPT ![j] = Text(w, NoOne)]
          /\ UNCHANGED <<status, decider, got, modal, click, hand>>
        BY <1>5 DEF FollowUp, clickVars
    <2>2. /\ w \in {"buttons", "result", "rejected by somebody", "still working"}
          /\ w = "buttons" => got[j] = "awaiting_approval"
          /\ w \in {"result", "rejected by somebody"} => got[j] \in {"done", "failed", "rejected"}
        OBVIOUS
    <2> HIDE DEF w
    <2>3. Text(w, NoOne) \in Says
        BY <2>2 DEF Text, Says, Words
    <2>4. Holds(j, Text(w, NoOne))
        BY <2>2 DEF ThreadInv, GateWasSeen, Holds, Text, Beyond
    <2>5. Typed'
        BY <2>1, <2>3 DEF ThreadInv, Typed
    <2>6. ASSUME NEW k \in Jobs PROVE Holds(k, message'[k])
        BY <2>1, <2>4 DEF ThreadInv, Typed, MessagesTrue
    <2>7. MessagesTrue'
        BY <2>1, <2>6 DEF MessagesTrue, Holds
    <2> QED
        BY <2>1, <2>5, <2>7, TextsStay DEF ThreadInv
<1>6. ASSUME NEW p \in People, NEW j \in Jobs, Click(p, j) PROVE ThreadInv'
    <2>1. PICK s \in Decisions : click' = [click EXCEPT ![p] = <<j, s, modal[p] = j>>]
        BY <1>6 DEF Click, Decisions
    <2>2. modal' = [modal EXCEPT ![p] = NoJob] /\ UNCHANGED <<status, decider, got, message, hand>>
        BY <1>6 DEF Click, threadVars
    <2>3. status[j] \in AtOrBeyond
        <3>1. CASE message[j].what = "buttons"
            BY <3>1 DEF ThreadInv, MessagesTrue, Holds
        <3>2. CASE modal[p] = j
            BY <3>2, SlackAssumption DEF SlackAssumption, ThreadInv, GateWasSeen
        <3> QED
            BY <1>6, <3>1, <3>2 DEF Click
    <2>4. Typed'
        BY <2>1, <2>2 DEF ThreadInv, Typed
    <2>5. GateWasSeen'
        BY <2>1, <2>2, <2>3 DEF ThreadInv, Typed, GateWasSeen
    <2> QED
        BY <2>2, <2>4, <2>5, TextsStay DEF ThreadInv
<1>7. ASSUME NEW p \in People, NEW j \in Jobs, OpenReview(p, j) PROVE ThreadInv'
    <2>1. /\ modal' = [modal EXCEPT ![p] = j] /\ status[j] = "awaiting_approval"
          /\ UNCHANGED <<status, decider, got, message, click, hand>>
        BY <1>7 DEF OpenReview, threadVars
    <2>2. Typed' /\ GateWasSeen'
        BY <2>1 DEF ThreadInv, Typed, GateWasSeen, AtOrBeyond
    <2> QED
        BY <2>1, <2>2, TextsStay DEF ThreadInv
<1>8. ASSUME NEW p \in People, Handle(p) PROVE ThreadInv'
    <2>1. PICK j \in Jobs, s \in Decisions : j = click[p][1] /\ s = click[p][2]
        BY <1>8 DEF Handle, ThreadInv, Typed
    <2>2. status[j] \in AtOrBeyond
        BY <1>8, <2>1 DEF Handle, ThreadInv, GateWasSeen
    <2>3. /\ click' = [click EXCEPT ![p] = <<>>]
          /\ UNCHANGED <<got, message, modal>>
        BY <1>8 DEF Handle, threadVars
    <2>4. PICK t \in Says :
            /\ hand' = [hand EXCEPT ![p] = <<j, t>>]
            /\ \/ status[j] = "awaiting_approval" /\ t = Text(s, p) /\ Decide(j, p, s)
               \/ /\ status[j] # "awaiting_approval" /\ t = Text("already handled", NoOne)
                  /\ UNCHANGED <<status, decider>>
        <3>1. Text(s, p) \in Says /\ Text("already handled", NoOne) \in Says
            BY DEF Text, Says, Words, Decisions
        <3> QED
            BY <1>8, <2>1, <3>1 DEF Handle
    <2>5. /\ JobsGoOn
          /\ status' \in [Jobs -> Statuses]
          /\ decider' \in [Jobs -> People \cup {Web, NoOne}]
        BY <2>4, DecideGoesOn, StoreStays DEF ThreadInv, Typed
    <2>6. Holds(j, t)'
        <3>1. CASE Decide(j, p, s) /\ t = Text(s, p)
            <4>1. status'[j] = s /\ decider'[j] = p /\ t.what = s /\ t.by = p
                BY <3>1, DecideGoesOn DEF ThreadInv, Text
            <4> QED
                BY <4>1 DEF Holds, Decisions
        <3>2. CASE /\ status[j] # "awaiting_approval" /\ t = Text("already handled", NoOne)
                   /\ UNCHANGED <<status, decider>>
            <4>1. t.what = "already handled" /\ status'[j] \in Beyond
                BY <2>2, <3>2 DEF Text, AtOrBeyond
            <4> QED
                BY <4>1 DEF Holds
        <3> QED
            BY <2>4, <3>1, <3>2
    <2>7. Typed'
        BY <2>3, <2>4, <2>5 DEF ThreadInv, Typed
    <2>8. MessagesTrue'
        BY <2>3, <2>5, TruthLasts DEF ThreadInv, Typed, MessagesTrue
    <2>9. HandsTrue'
        <3>1. ASSUME NEW q \in People, q # p, hand[q] # <<>>
              PROVE  Holds(hand[q][1], hand[q][2]) /\ hand[q][1] \in Jobs /\ hand[q][2] \in Says
            BY <3>1 DEF ThreadInv, Typed, HandsTrue
        <3>2. ASSUME NEW q \in People, q # p, hand'[q] # <<>>
              PROVE  Holds(hand[q][1], hand[q][2])'
            <4>1. hand'[q] = hand[q]
                BY <2>4, <3>2 DEF ThreadInv, Typed
            <4>2. PICK k \in Jobs, u \in Says : k = hand[q][1] /\ u = hand[q][2]
                BY <3>1, <3>2, <4>1
            <4>3. Holds(k, u)'
                BY <2>5, <3>1, <3>2, <4>1, <4>2, TruthLasts
            <4> QED
                BY <4>1, <4>2, <4>3
        <3>3. hand'[p][1] = j /\ hand'[p][2] = t
            BY <2>4 DEF ThreadInv, Typed
        <3>4. Holds(hand[p][1], hand[p][2])'
            BY <2>6, <3>3
        <3> QED
            BY <3>2, <3>4 DEF HandsTrue
    <2>10. GateWasSeen'
        BY <2>3, <2>5 DEF ThreadInv, Typed, GateWasSeen, JobsGoOn
    <2> QED
        BY <2>7, <2>8, <2>9, <2>10 DEF ThreadInv
<1>9. ASSUME NEW p \in People, Deny(p) PROVE ThreadInv'
    <2>1. PICK j \in Jobs : j = click[p][1]
        BY <1>9 DEF Deny, ThreadInv, Typed
    <2>2. PICK t \in Says : t = Text("not authorized", p)
        BY DEF Text, Says, Words
    <2>3. /\ hand' = hand \/ hand' = [hand EXCEPT ![p] = <<j, t>>]
          /\ click' = [click EXCEPT ![p] = <<>>]
          /\ UNCHANGED <<status, decider, got, message, modal>>
        BY <1>9, <2>1, <2>2 DEF Deny, threadVars
    <2>4. Holds(j, t)
        BY <1>9, <2>2 DEF Deny, Text, Holds
    <2>5. Typed'
        BY <2>3 DEF ThreadInv, Typed
    <2>6. ASSUME NEW q \in People, hand'[q] # <<>> PROVE Holds(hand'[q][1], hand'[q][2])
        BY <2>3, <2>4, <2>6 DEF ThreadInv, Typed, HandsTrue
    <2>7. HandsTrue'
        BY <2>3, <2>6 DEF HandsTrue, Holds
    <2>8. GateWasSeen'
        BY <2>3 DEF ThreadInv, Typed, GateWasSeen
    <2> QED
        BY <2>3, <2>5, <2>7, <2>8, TextsStay DEF ThreadInv
<1>10. ASSUME NEW p \in People, Update(p) PROVE ThreadInv'
    <2>1. /\ hand' = [hand EXCEPT ![p] = <<>>]
          /\ message' = message \/ message' = [message EXCEPT ![hand[p][1]] = hand[p][2]]
          /\ UNCHANGED <<status, decider, got, modal, click>>
        BY <1>10 DEF Update, threadVars
    <2>2. PICK j \in Jobs, t \in Says : j = hand[p][1] /\ t = hand[p][2] /\ Holds(j, t)
        BY <1>10 DEF Update, ThreadInv, Typed, HandsTrue
    <2>3. Typed'
        BY <2>1, <2>2 DEF ThreadInv, Typed
    <2>4. ASSUME NEW k \in Jobs PROVE Holds(k, message'[k])
        BY <2>1, <2>2 DEF ThreadInv, Typed, MessagesTrue
    <2>5. MessagesTrue'
        BY <2>1, <2>4 DEF MessagesTrue, Holds
    <2>6. ASSUME NEW q \in People, hand'[q] # <<>> PROVE Holds(hand'[q][1], hand'[q][2])
        BY <2>1, <2>6 DEF ThreadInv, Typed, HandsTrue
    <2>7. HandsTrue'
        BY <2>1, <2>6 DEF HandsTrue, Holds
    <2> QED
        BY <2>1, <2>3, <2>5, <2>7, TextsStay DEF ThreadInv
<1>11. CASE Restart
    <2>1. /\ click' = [p \in People |-> <<>>] /\ hand' = [p \in People |-> <<>>]
          /\ UNCHANGED <<status, decider, got, message, modal>>
        BY <1>11 DEF Restart
    <2>2. Typed' /\ HandsTrue' /\ GateWasSeen'
        BY <2>1 DEF ThreadInv, Typed, HandsTrue, GateWasSeen
    <2> QED
        BY <2>1, <2>2, TextsStay DEF ThreadInv
<1>12. CASE UNCHANGED vars
    BY <1>12, StoreStays, ThreadStays DEF vars, threadVars, clickVars, ThreadInv, Typed
<1> QED
    BY <1>1, <1>2, <1>3, <1>4, <1>5, <1>6, <1>7, <1>8, <1>9, <1>10, <1>11, <1>12 DEF Next

LEMMA TruthFromInv == ThreadInv => ThreadTellsTheTruth
  BY DEF ThreadInv, Typed, MessagesTrue, Holds, ThreadTellsTheTruth, Says, Words, Beyond

\* Whatever the order of clicks, decisions elsewhere, handlers and restarts, and
\* whichever calls to Slack fail, the thread of a job never names a decision that
\* the store does not have, nor hides a gate that waits (approval_actions.py:404).
THEOREM ThreadAlwaysTrue == Spec => []ThreadTellsTheTruth
  BY InitThread, StepThread, TruthFromInv, PTL DEF Spec

-----------------------------------------------------------------------------
(* The news of the channel.                                                *)

\* How far a job is.  A job that moves goes up.
Level(s) == CASE s = "pending" -> 1
              [] s = "running" -> 2
              [] s = "awaiting_approval" -> 3
              [] s \in {"approved", "rejected"} -> 4
              [] s = "executing" -> 5
              [] s \in {"done", "failed"} -> 6
              [] OTHER -> 0

\* The job was at s and is at t, or could be later.
UpTo(s, t) == s = t \/ Level(s) < Level(t)

\* A post in the channel.
Posts == [what : Worthy, sure : BOOLEAN]

\* What TypeOK has beyond Typed.
Shapes == /\ notifier \in {"prime", "up", "dead"}
          /\ seen \in [Jobs -> Statuses \cup {"none"}]
          /\ thread \in [Jobs -> {"waiting", "follow", "closed"}]
          /\ \A p \in People : click[p] = <<>> \/ hand[p] = <<>>
          /\ trouble \in 0..MaxTrouble

\* The rest of a poll: each job once, as it was at some time between the last
\* news of it and now.
BatchInv ==
    /\ batch \in Seq(Jobs \X Statuses)
    /\ notifier # "up" => batch = <<>>
    /\ \A i, k \in DOMAIN batch : batch[i][1] = batch[k][1] => i = k
    /\ \A i \in DOMAIN batch :
         LET j == batch[i][1]
             s == batch[i][2]
         IN  /\ UpTo(s, status[j]) /\ UpTo(seen[j], s)
             /\ \A n \in DOMAIN news[j] : UpTo(news[j][n].what, s)

\* No news is ahead of its job, and what was posted for sure was seen.
PostedInv ==
    /\ news \in [Jobs -> Seq(Posts)]
    /\ \A j \in Jobs :
         /\ UpTo(seen[j], status[j])
         /\ \A n \in DOMAIN news[j] :
              /\ UpTo(news[j][n].what, status[j])
              /\ notifier = "up" /\ news[j][n].sure => UpTo(news[j][n].what, seen[j])

NewsInv == Typed /\ Shapes /\ BatchInv /\ PostedInv /\ NewsInOrder

\* The list of all jobs has each of them once.
LEMMA JobSeqIs ==
  /\ Len(JobSeq) \in Nat
  /\ JobSeq \in [1..Len(JobSeq) -> Jobs]
  /\ \A i, k \in 1..Len(JobSeq) : JobSeq[i] = JobSeq[k] => i = k
<1> DEFINE N == Cardinality(Jobs)
<1>1. N \in Nat /\ ExistsBijection(1..N, Jobs)
    BY FS_CardinalityType, SlackAssumption DEF SlackAssumption
<1>2. \E f \in [1..N -> Jobs] : IsInjective(f)
    BY <1>1 DEF ExistsBijection, Bijection, Injection
<1>3. JobSeq \in [1..N -> Jobs] /\ IsInjective(JobSeq)
    BY <1>2 DEF JobSeq, SetToSeq
<1>4. Len(JobSeq) = N
    BY <1>1, <1>3
<1> QED
    BY <1>1, <1>3, <1>4 DEF IsInjective

LEMMA UpToIsOrder ==
  /\ \A s : Level(s) \in 0..6 /\ UpTo(s, s)
  /\ \A s, t, u : UpTo(s, t) /\ UpTo(t, u) => UpTo(s, u)
  /\ \A s, t : UpTo(s, t) /\ UpTo(t, s) => s = t
<1>1. \A s : Level(s) \in 0..6
    BY DEF Level
<1> QED
    BY <1>1 DEF UpTo

\* Among the statuses that are news, higher means later.
LEMMA HigherIsLater ==
  ASSUME NEW s \in Worthy, NEW t \in Worthy, Level(s) < Level(t)
  PROVE  Rank(s) < Rank(t)
  BY DEF Worthy, Level, Rank

\* Wherever a step leaves a job, it is not below where it was.
LEMMA JobsGoUp ==
  ASSUME Typed, [Next]_vars
  PROVE  \A j \in Jobs : UpTo(status[j], status'[j])
<1>1. ASSUME NEW j \in Jobs, Work(j) PROVE \A k \in Jobs : UpTo(status[k], status'[k])
    BY <1>1 DEF Work, Move, UpTo, Level, Typed
<1>2. ASSUME NEW j \in Jobs, NEW who, NEW s \in Decisions, Decide(j, who, s)
      PROVE  \A k \in Jobs : UpTo(status[k], status'[k])
    BY <1>2 DEF Decide, Move, UpTo, Level, Typed, Decisions
<1>3. ASSUME NEW p \in People, Handle(p)
      PROVE  \A k \in Jobs : UpTo(status[k], status'[k])
    <2>1. click[p][1] \in Jobs /\ click[p][2] \in Decisions
        BY <1>3 DEF Handle, Typed
    <2> QED
        BY <1>2, <1>3, <2>1 DEF Handle, UpTo
<1>4. ASSUME NEW j \in Jobs, WebDecides(j)
      PROVE  \A k \in Jobs : UpTo(status[k], status'[k])
    BY <1>2, <1>4 DEF WebDecides, Decisions
<1>5. ASSUME status' = status PROVE \A k \in Jobs : UpTo(status[k], status'[k])
    BY <1>5 DEF UpTo
<1> QED
    BY <1>1, <1>3, <1>4, <1>5 DEF Next, Prime, Poll, Announce, NotifierDies, Look, Deadline,
       FollowUp, Click, OpenReview, Deny, Update, Restart, vars

\* The steps of everybody but the notifier leave it alone.
LEMMA NotifierStays ==
  ASSUME [Next]_vars, ~Prime, ~Poll, ~Announce, ~NotifierDies, ~Restart
  PROVE  UNCHANGED notifierVars
  BY DEF Next, Work, WebDecides, Look, Deadline, FollowUp, Click, OpenReview, Handle, Deny,
         Update, vars, notifierVars


\* The head of a poll and what is left of it.
LEMMA FirstOfBatch ==
  ASSUME batch \in Seq(Jobs \X Statuses), batch # <<>>
  PROVE  /\ 1 \in DOMAIN batch /\ Head(batch) = batch[1]
         /\ Head(batch)[1] \in Jobs /\ Head(batch)[2] \in Statuses
         /\ Tail(batch) \in Seq(Jobs \X Statuses)
         /\ \A i \in DOMAIN Tail(batch) :
              i + 1 \in DOMAIN batch /\ i + 1 # 1 /\ Tail(batch)[i] = batch[i + 1]
<1>1. /\ Tail(batch) \in Seq(Jobs \X Statuses) /\ Len(Tail(batch)) = Len(batch) - 1
      /\ \A i \in 1..Len(Tail(batch)) : Tail(batch)[i] = batch[i + 1]
      /\ Head(batch) = batch[1]
    BY HeadTailProperties
<1>2. Len(batch) \in Nat /\ Len(batch) > 0 /\ DOMAIN batch = 1..Len(batch)
      /\ DOMAIN Tail(batch) = 1..(Len(batch) - 1)
    BY <1>1
<1>3. batch[1] \in Jobs \X Statuses
    BY <1>2
<1> QED
    BY <1>1, <1>2, <1>3

\* A typed step keeps the rest of the types.
LEMMA ShapesStep ==
  ASSUME Typed, Shapes, BatchInv, [Next]_vars
  PROVE  Shapes'
<1> USE DEF Typed, Shapes
<1>1. ASSUME NEW j \in Jobs, Work(j) \/ WebDecides(j) PROVE Shapes'
    BY <1>1 DEF Work, WebDecides, notifierVars, threadVars, clickVars
<1>2. CASE Prime \/ Poll \/ NotifierDies
    BY <1>2, SlackAssumption DEF Prime, Poll, NotifierDies, threadVars, clickVars, SlackAssumption
<1>3. ASSUME NEW j \in Jobs, Look(j) \/ Deadline(j) \/ FollowUp(j) PROVE Shapes'
    BY <1>3 DEF Look, Deadline, FollowUp, notifierVars, clickVars
<1>4. ASSUME NEW p \in People, NEW j \in Jobs, Click(p, j) \/ OpenReview(p, j) PROVE Shapes'
    BY <1>4 DEF Click, OpenReview, Idle, notifierVars, threadVars
<1>5. ASSUME NEW p \in People, Handle(p) \/ Deny(p) PROVE Shapes'
    BY <1>5 DEF Handle, Deny, notifierVars, threadVars
<1>6. ASSUME NEW p \in People, Update(p) PROVE Shapes'
    BY <1>6, SlackAssumption DEF Update, notifierVars, threadVars, SlackAssumption
<1>7. CASE Restart
    BY <1>7, SlackAssumption DEF Restart, SlackAssumption
<1>8. CASE UNCHANGED vars
    BY <1>8 DEF vars, notifierVars, threadVars, clickVars
<1>9. CASE Announce
    <2>1. Head(batch)[1] \in Jobs /\ Head(batch)[2] \in Statuses
        BY <1>9, FirstOfBatch DEF Announce, BatchInv
    <2> DEFINE j == Head(batch)[1]
               s == Head(batch)[2]
    <2>2. seen' = seen \/ seen' = [seen EXCEPT ![j] = s]
        BY <1>9 DEF Announce, Post
    <2>3. trouble' \in 0..MaxTrouble
        BY <1>9, SlackAssumption DEF Announce, Post, SlackAssumption
    <2> QED
        BY <1>9, <2>1, <2>2, <2>3 DEF Announce, threadVars, clickVars
<1> QED
    BY <1>1, <1>2, <1>3, <1>4, <1>5, <1>6, <1>7, <1>8, <1>9 DEF Next

\* What a step that announces does: the first of the batch is seen, posted, or both.
LEMMA Announcing ==
  ASSUME NewsInv, Announce, NEW j, j = Head(batch)[1], NEW s, s = Head(batch)[2]
  PROVE  /\ j \in Jobs /\ s \in Statuses
         /\ \/ UNCHANGED news /\ seen' \in {seen, [seen EXCEPT ![j] = s]}
            \/ /\ seen[j] # s /\ s \in Worthy
               /\ \/ /\ news' = [news EXCEPT ![j] = Append(@, [what |-> s, sure |-> TRUE])]
                     /\ seen' = [seen EXCEPT ![j] = s]
                  \/ /\ news' = [news EXCEPT ![j] = Append(@, [what |-> s, sure |-> FALSE])]
                     /\ UNCHANGED seen
         /\ UNCHANGED <<status, notifier>> /\ notifier = "up" /\ batch' = Tail(batch)
         /\ UpTo(s, status[j]) /\ UpTo(seen[j], s)
         /\ \A n \in DOMAIN news[j] : UpTo(news[j][n].what, s)
<1>1. batch # <<>> /\ batch \in Seq(Jobs \X Statuses)
    BY DEF Announce, NewsInv, BatchInv
<1>2. 1 \in DOMAIN batch /\ batch[1][1] = j /\ batch[1][2] = s /\ j \in Jobs /\ s \in Statuses
    BY <1>1, FirstOfBatch
<1>3. /\ UpTo(s, status[j]) /\ UpTo(seen[j], s)
      /\ \A n \in DOMAIN news[j] : UpTo(news[j][n].what, s)
    BY <1>2 DEF NewsInv, BatchInv
<1> QED
    BY <1>2, <1>3 DEF Announce, Post

\* The news of the jobs after one more post.
LEMMA Posted ==
  ASSUME PostedInv, NEW j \in Jobs, NEW e \in Posts,
         news' = [news EXCEPT ![j] = Append(@, e)]
  PROVE  /\ news' \in [Jobs -> Seq(Posts)]
         /\ \A k \in Jobs \ {j} : news'[k] = news[k]
         /\ \A n \in DOMAIN news'[j] :
              \/ n \in DOMAIN news[j] /\ news'[j][n] = news[j][n]
              \/ news'[j][n] = e /\ \A m \in DOMAIN news[j] : m < n
         /\ \A i, k \in DOMAIN news'[j] : i < k => i \in DOMAIN news[j]
<1>1. news[j] \in Seq(Posts)
    BY DEF PostedInv
<1>2. news'[j] = Append(news[j], e) /\ Len(news'[j]) = Len(news[j]) + 1 /\ news'[j] \in Seq(Posts)
    BY <1>1 DEF PostedInv
<1>3. Len(news[j]) \in Nat /\ DOMAIN news[j] = 1..Len(news[j]) /\ DOMAIN news'[j] = 1..(Len(news[j]) + 1)
    BY <1>1, <1>2
<1>4. /\ \A n \in 1..Len(news[j]) : news'[j][n] = news[j][n]
      /\ news'[j][Len(news[j]) + 1] = e
    BY <1>1, <1>2
<1> QED
    BY <1>2, <1>3, <1>4 DEF PostedInv

LEMMA AnnounceStep ==
  ASSUME NewsInv, Announce
  PROVE  BatchInv' /\ PostedInv' /\ NewsInOrder'
<1> DEFINE j == Head(batch)[1]
           s == Head(batch)[2]
<1>1. /\ j \in Jobs /\ s \in Statuses
      /\ \/ UNCHANGED news /\ seen' \in {seen, [seen EXCEPT ![j] = s]}
         \/ /\ seen[j] # s /\ s \in Worthy
            /\ \/ /\ news' = [news EXCEPT ![j] = Append(@, [what |-> s, sure |-> TRUE])]
                  /\ seen' = [seen EXCEPT ![j] = s]
               \/ /\ news' = [news EXCEPT ![j] = Append(@, [what |-> s, sure |-> FALSE])]
                  /\ UNCHANGED seen
      /\ UNCHANGED <<status, notifier>> /\ notifier = "up" /\ batch' = Tail(batch)
      /\ UpTo(s, status[j]) /\ UpTo(seen[j], s)
      /\ \A n \in DOMAIN news[j] : UpTo(news[j][n].what, s)
    BY Announcing
<1>2. BatchInv /\ PostedInv /\ Shapes /\ NewsInOrder
    BY DEF NewsInv
<1>3. /\ 1 \in DOMAIN batch /\ batch[1][1] = j
      /\ Tail(batch) \in Seq(Jobs \X Statuses)
      /\ \A i \in DOMAIN Tail(batch) :
           i + 1 \in DOMAIN batch /\ i + 1 # 1 /\ Tail(batch)[i] = batch[i + 1]
    BY <1>2, FirstOfBatch DEF Announce, BatchInv
<1> HIDE DEF j, s
<1>4. \A k \in Jobs \ {j} : news'[k] = news[k] /\ seen'[k] = seen[k]
    BY <1>1, <1>2 DEF PostedInv, Shapes
<1>5. BatchInv'
    <2>1. \A i \in DOMAIN batch' : batch'[i][1] # j /\ batch'[i] \in Jobs \X Statuses
        BY <1>1, <1>2, <1>3 DEF BatchInv
    <2>2. \A i, k \in DOMAIN batch' : batch'[i][1] = batch'[k][1] => i = k
        <3>1. ASSUME NEW i \in DOMAIN batch', NEW k \in DOMAIN batch', batch'[i][1] = batch'[k][1]
              PROVE  i = k
            <4>1. i + 1 = k + 1
                BY <1>1, <1>2, <1>3, <3>1 DEF BatchInv
            <4>2. i \in Int /\ k \in Int
                BY <1>1, <1>3
            <4> QED
                BY <4>1, <4>2
        <3> QED
            BY <3>1
    <2>3. ASSUME NEW i \in DOMAIN batch'
          PROVE  /\ UpTo(batch'[i][2], status'[batch'[i][1]])
                 /\ UpTo(seen'[batch'[i][1]], batch'[i][2])
                 /\ \A n \in DOMAIN news'[batch'[i][1]] :
                      UpTo(news'[batch'[i][1]][n].what, batch'[i][2])
        <3>1. i + 1 \in DOMAIN batch /\ batch'[i] = batch[i + 1]
            BY <1>1, <1>3, <2>3
        <3>2. PICK k \in Jobs \ {j}, t \in Statuses : batch'[i] = <<k, t>>
            BY <2>1, <2>3
        <3>3. /\ UpTo(t, status[k]) /\ UpTo(seen[k], t)
              /\ \A n \in DOMAIN news[k] : UpTo(news[k][n].what, t)
            <4>1. \A m \in DOMAIN batch :
                    /\ UpTo(batch[m][2], status[batch[m][1]]) /\ UpTo(seen[batch[m][1]], batch[m][2])
                    /\ \A n \in DOMAIN news[batch[m][1]] : UpTo(news[batch[m][1]][n].what, batch[m][2])
                BY <1>2 DEF BatchInv
            <4>2. batch[i + 1][1] = k /\ batch[i + 1][2] = t
                BY <3>1, <3>2
            <4> QED
                BY <3>1, <4>1, <4>2
        <3>4. news'[k] = news[k] /\ seen'[k] = seen[k] /\ status'[k] = status[k]
            BY <1>1, <1>4
        <3> QED
            BY <3>2, <3>3, <3>4
    <2> QED
        BY <1>1, <1>3, <2>2, <2>3 DEF BatchInv, UpTo
<1>6. CASE UNCHANGED news
    <2>1. seen' \in {seen, [seen EXCEPT ![j] = s]}
        BY <1>1, <1>6 DEF PostedInv
    <2>2. PostedInv'
        BY <1>1, <1>2, <1>6, <2>1 DEF PostedInv, Shapes, UpTo
    <2>3. NewsInOrder'
        BY <1>2, <1>6 DEF NewsInOrder
    <2> QED
        BY <1>5, <2>2, <2>3
<1>7. ASSUME NEW b \in BOOLEAN, seen[j] # s, s \in Worthy,
             news' = [news EXCEPT ![j] = Append(@, [what |-> s, sure |-> b])],
             IF b THEN seen' = [seen EXCEPT ![j] = s] ELSE UNCHANGED seen
      PROVE  PostedInv' /\ NewsInOrder'
    <2> DEFINE e == [what |-> s, sure |-> b]
    <2>1. e \in Posts /\ e.what = s /\ e.sure = b
        BY <1>7 DEF Posts
    <2> HIDE DEF e
    <2>2. /\ news' \in [Jobs -> Seq(Posts)]
          /\ \A n \in DOMAIN news'[j] :
               \/ n \in DOMAIN news[j] /\ news'[j][n] = news[j][n]
               \/ news'[j][n] = e /\ \A m \in DOMAIN news[j] : m < n
          /\ \A i, k \in DOMAIN news'[j] : i < k => i \in DOMAIN news[j]
        BY <1>1, <1>2, <1>7, <2>1, Posted DEF e
    <2>3. seen'[j] = IF b THEN s ELSE seen[j]
        BY <1>1, <1>2, <1>7 DEF Shapes
    <2>4. PostedInv'
        <3>1. ASSUME NEW k \in Jobs
              PROVE  /\ UpTo(seen'[k], status'[k])
                     /\ \A n \in DOMAIN news'[k] :
                          /\ UpTo(news'[k][n].what, status'[k])
                          /\ notifier' = "up" /\ news'[k][n].sure => UpTo(news'[k][n].what, seen'[k])
            <4>1. CASE k # j
                BY <1>1, <1>2, <1>4, <4>1 DEF PostedInv
            <4>2. CASE k = j
                <5>1. UpTo(seen'[j], status'[j])
                    BY <1>1, <1>2, <2>3 DEF PostedInv
                <5>2. ASSUME NEW n \in DOMAIN news'[j]
                      PROVE  /\ UpTo(news'[j][n].what, status'[j])
                             /\ news'[j][n].sure => UpTo(news'[j][n].what, seen'[j])
                    <6>1. CASE n \in DOMAIN news[j] /\ news'[j][n] = news[j][n]
                        BY <1>1, <1>2, <2>3, <6>1 DEF PostedInv
                    <6>2. CASE news'[j][n] = e
                        BY <1>1, <2>1, <2>3, <6>2, UpToIsOrder
                    <6> QED
                        BY <2>2, <5>2, <6>1, <6>2
                <5> QED
                    BY <4>2, <5>1, <5>2
            <4> QED
                BY <4>1, <4>2
        <3> QED
            BY <2>2, <3>1 DEF PostedInv, UpTo
    <2>5. NewsInOrder'
        <3>1. ASSUME NEW k \in Jobs, NEW i \in DOMAIN news'[k], NEW m \in DOMAIN news'[k], i < m
              PROVE  \/ Rank(news'[k][i].what) < Rank(news'[k][m].what)
                     \/ news'[k][i].what = news'[k][m].what /\ ~news'[k][i].sure
            <4>1. CASE k # j
                BY <1>2, <1>4, <3>1, <4>1 DEF NewsInOrder
            <4>2. CASE k = j /\ m \in DOMAIN news[j] /\ news'[j][m] = news[j][m]
                <5>1. i \in DOMAIN news[j] /\ news'[j][i] = news[j][i]
                    BY <2>2, <3>1, <4>2, Posted
                <5> QED
                    BY <1>1, <1>2, <3>1, <4>2, <5>1 DEF NewsInOrder
            <4>3. CASE k = j /\ news'[j][m] = e
                <5>1. i \in DOMAIN news[j]
                    BY <2>2, <3>1, <4>3
                <5>2. news'[j][i] = news[j][i] /\ news[j][i] \in Posts
                    BY <1>1, <1>2, <1>7, <5>1 DEF PostedInv
                <5>3. news[j][i].what \in Worthy /\ news[j][i].sure \in BOOLEAN
                    BY <5>2 DEF Posts
                <5>4. CASE Level(news[j][i].what) < Level(s)
                    BY <1>7, <2>1, <4>3, <5>2, <5>3, <5>4, HigherIsLater
                <5>5. CASE news[j][i].what = s
                    <6>1. CASE news[j][i].sure
                        <7>1. UpTo(s, seen[j]) /\ UpTo(seen[j], s)
                            BY <1>1, <1>2, <5>1, <5>5, <6>1 DEF PostedInv
                        <7> QED
                            BY <1>7, <7>1, UpToIsOrder
                    <6> QED
                        BY <2>1, <4>3, <5>2, <5>5, <6>1
                <5> QED
                    BY <1>1, <5>1, <5>4, <5>5 DEF UpTo
            <4> QED
                BY <2>2, <3>1, <4>1, <4>2, <4>3
        <3> QED
            BY <3>1 DEF NewsInOrder, Rank
    <2> QED
        BY <2>4, <2>5
<1> QED
    BY <1>1, <1>5, <1>6, <1>7

\* The other steps of the notifier, and those that only move a job.
LEMMA NotifierSteps ==
  ASSUME NewsInv, [Next]_vars, ~Announce
  PROVE  BatchInv' /\ PostedInv' /\ NewsInOrder'
<1>1. Typed /\ Shapes /\ BatchInv /\ PostedInv /\ NewsInOrder
    BY DEF NewsInv
<1>2. CASE Prime
    <2>1. batch = <<>> /\ UNCHANGED <<status, batch, news>> /\ seen' = status
        BY <1>1, <1>2 DEF Prime, BatchInv
    <2>2. BatchInv'
        BY <1>1, <2>1 DEF BatchInv
    <2>3. PostedInv'
        BY <1>1, <2>1, UpToIsOrder DEF PostedInv
    <2> QED
        BY <1>1, <2>1, <2>2, <2>3 DEF NewsInOrder
<1>3. CASE Poll
    <2>1. /\ batch' = [i \in 1..Len(JobSeq) |-> <<JobSeq[i], status[JobSeq[i]]>>]
          /\ UNCHANGED <<status, notifier, seen, news>> /\ notifier = "up"
        BY <1>3 DEF Poll
    <2>2. batch' \in Seq(Jobs \X Statuses) /\ DOMAIN batch' = 1..Len(JobSeq)
        <3>1. \A i \in 1..Len(JobSeq) : <<JobSeq[i], status[JobSeq[i]]>> \in Jobs \X Statuses
            BY <1>1, JobSeqIs DEF Typed
        <3> QED
            BY <2>1, <3>1, JobSeqIs
    <2>3. \A i \in DOMAIN batch' : JobSeq[i] \in Jobs /\ batch'[i] = <<JobSeq[i], status[JobSeq[i]]>>
        BY <2>1, <2>2, JobSeqIs
    <2>4. \A i, k \in DOMAIN batch' : batch'[i][1] = batch'[k][1] => i = k
        BY <2>2, <2>3, JobSeqIs
    <2>5. ASSUME NEW i \in DOMAIN batch'
          PROVE  /\ UpTo(batch'[i][2], status'[batch'[i][1]])
                 /\ UpTo(seen'[batch'[i][1]], batch'[i][2])
                 /\ \A n \in DOMAIN news'[batch'[i][1]] :
                      UpTo(news'[batch'[i][1]][n].what, batch'[i][2])
        <3>1. PICK k \in Jobs : batch'[i] = <<k, status[k]>>
            BY <2>3, <2>5
        <3> QED
            BY <1>1, <2>1, <3>1, UpToIsOrder DEF PostedInv
    <2>6. BatchInv'
        BY <2>1, <2>2, <2>4, <2>5 DEF BatchInv, UpTo
    <2>7. PostedInv' /\ NewsInOrder'
        BY <1>1, <2>1 DEF PostedInv, NewsInOrder, UpTo
    <2> QED
        BY <2>6, <2>7
<1>4. CASE NotifierDies
    BY <1>1, <1>4 DEF NotifierDies, BatchInv, PostedInv, NewsInOrder, UpTo
<1>5. CASE Restart
    <2>1. /\ batch' = <<>> /\ notifier' = "prime" /\ seen' = [j \in Jobs |-> "none"]
          /\ UNCHANGED <<status, news>>
        BY <1>5 DEF Restart
    <2>2. \A j \in Jobs : UpTo(seen'[j], status'[j])
        BY <1>1, <2>1 DEF Typed, UpTo, Level, Statuses
    <2>3. PostedInv'
        BY <1>1, <2>1, <2>2 DEF PostedInv, UpTo
    <2>4. BatchInv' /\ NewsInOrder'
        BY <1>1, <2>1 DEF BatchInv, NewsInOrder
    <2> QED
        BY <2>3, <2>4
<1>6. CASE ~(Prime \/ Poll \/ NotifierDies \/ Restart)
    <2>1. UNCHANGED <<notifier, seen, batch, news>>
        BY <1>6, NotifierStays DEF notifierVars
    <2>2. \A j \in Jobs : UpTo(status[j], status'[j])
        BY <1>1, JobsGoUp
    <2>3. BatchInv'
        <3>1. \A i \in DOMAIN batch : batch[i][1] \in Jobs
            BY <1>1 DEF BatchInv
        <3>2. \A i \in DOMAIN batch : UpTo(batch[i][2], status'[batch[i][1]])
            BY <1>1, <2>2, <3>1, UpToIsOrder DEF BatchInv
        <3> QED
            BY <1>1, <2>1, <3>2 DEF BatchInv, UpTo
    <2>4. PostedInv'
        <3>1. \A j \in Jobs : /\ UpTo(seen[j], status'[j])
                              /\ \A n \in DOMAIN news[j] : UpTo(news[j][n].what, status'[j])
            BY <1>1, <2>2, UpToIsOrder DEF PostedInv
        <3> QED
            BY <1>1, <2>1, <3>1 DEF PostedInv, UpTo
    <2> QED
        BY <1>1, <2>1, <2>3, <2>4 DEF NewsInOrder
<1> QED
    BY <1>2, <1>3, <1>4, <1>5, <1>6

LEMMA InitNews == Init => NewsInv
<1> SUFFICES ASSUME Init PROVE NewsInv
    OBVIOUS
<1>1. Typed
    BY InitThread DEF ThreadInv
<1>2. Shapes
    BY SlackAssumption DEF Init, Shapes, SlackAssumption
<1>3. BatchInv
    BY DEF Init, BatchInv
<1>4. \A j \in Jobs : news[j] = <<>> /\ seen[j] = "none" /\ status[j] = "pending"
    BY DEF Init
<1>5. PostedInv
    BY <1>4 DEF Init, PostedInv, UpTo, Level
<1>6. NewsInOrder
    BY <1>4 DEF NewsInOrder
<1> QED
    BY <1>1, <1>2, <1>3, <1>5, <1>6 DEF NewsInv

LEMMA StepNews == ThreadInv /\ NewsInv /\ [Next]_vars => NewsInv'
<1> SUFFICES ASSUME ThreadInv, NewsInv, [Next]_vars PROVE NewsInv'
    OBVIOUS
<1>1. Typed' /\ Shapes'
    BY StepThread, ShapesStep DEF ThreadInv, NewsInv
<1>2. BatchInv' /\ PostedInv' /\ NewsInOrder'
    BY AnnounceStep, NotifierSteps
<1> QED
    BY <1>1, <1>2 DEF NewsInv

\* What Slack, the notifier and the assistant remember keeps its type, and a person
\* has at most one click under way.
THEOREM TypeCorrect == Spec => []TypeOK
<1>1. NewsInv => TypeOK
    BY DEF NewsInv, Typed, Shapes, TypeOK
<1> QED
    BY <1>1, InitThread, InitNews, StepThread, StepNews, PTL DEF Spec

\* The channel hears of a job in the order in which things happened, and twice of a
\* status only after a post of which Slack did not say that it arrived: however old
\* the answer of a poll is when it is announced, and whatever a restart forgets
\* (proposal_notifier.py:94).
THEOREM NewsAlwaysInOrder == Spec => []NewsInOrder
<1>1. NewsInv => NewsInOrder
    BY DEF NewsInv
<1> QED
    BY <1>1, InitThread, InitNews, StepThread, StepNews, PTL DEF Spec

-----------------------------------------------------------------------------
(* The job store that the model keeps for itself.                          *)

\* What the store calls it: the gate's second run is "running" like the first.
Stored == [j \in Jobs |-> IF status[j] = "executing" THEN "running" ELSE status[j]]

\* Some worker executes each running job: here one that does nothing else.
Runner == [j \in Jobs |-> IF status[j] \in {"running", "executing"} THEN j ELSE NoJob]

Lifecycle == INSTANCE JobLifecycle WITH Workers <- Jobs, NoWorker <- NoJob,
                                        status <- Stored, holder <- Runner

\* Clicks in Slack, the dashboard and the worker move a job as the store promises.
MovesAsPromised == [][Lifecycle!Next]_(Lifecycle!vars)

LEMMA WorkIsPromised ==
  ASSUME Typed, NEW j \in Jobs, Work(j)
  PROVE  Lifecycle!Next
<1>n. NoJob \notin Jobs
    BY SlackAssumption DEF SlackAssumption
<1>1. ASSUME NEW from \in {"pending", "approved"}, NEW to \in {"running", "executing"},
             Move(j, from, to)
      PROVE  Lifecycle!Claim(j, j)
  <2>1. status[j] = from /\ status' = [status EXCEPT ![j] = to]
      BY <1>1 DEF Move
  <2>2. Stored[j] \in Lifecycle!Claimable
      BY <2>1 DEF Stored, Lifecycle!Claimable
  <2>3. \A k \in Jobs : Runner[k] # j
      BY <2>1, <1>n DEF Runner
  <2>4. Stored' = [Stored EXCEPT ![j] = "running"] /\ Runner' = [Runner EXCEPT ![j] = j]
      BY <2>1 DEF Typed, Stored, Runner
  <2> QED
      BY <2>2, <2>3, <2>4 DEF Lifecycle!Claim
<1>2. ASSUME NEW from \in {"running", "executing"},
             NEW to \in {"awaiting_approval", "done", "failed"}, Move(j, from, to)
      PROVE  Lifecycle!Release(j, j)
  <2>1. status[j] = from /\ status' = [status EXCEPT ![j] = to]
      BY <1>2 DEF Move
  <2>2. Runner[j] = j
      BY <2>1 DEF Runner
  <2>3. Stored' = [Stored EXCEPT ![j] = to] /\ Runner' = [Runner EXCEPT ![j] = NoJob]
      BY <2>1 DEF Typed, Stored, Runner
  <2> QED
      BY <2>2, <2>3 DEF Lifecycle!Release
<1>3. Lifecycle!Claim(j, j) \/ Lifecycle!Release(j, j)
    BY <1>1, <1>2 DEF Work
<1> QED
    BY <1>3 DEF Lifecycle!Next

LEMMA DecisionIsPromised ==
  ASSUME Typed, NEW j \in Jobs, NEW p, NEW s \in Decisions, Decide(j, p, s)
  PROVE  Lifecycle!Next
<1>1. status[j] = "awaiting_approval" /\ status' = [status EXCEPT ![j] = s]
    BY DEF Decide, Move
<1>2. Stored[j] = "awaiting_approval" /\ Stored' = [Stored EXCEPT ![j] = s]
    BY <1>1 DEF Typed, Stored, Decisions
<1>3. UNCHANGED Runner
    BY <1>1 DEF Typed, Runner, Decisions
<1>4. Lifecycle!Decide(j)
    BY <1>2, <1>3 DEF Lifecycle!Decide, Decisions
<1> QED
    BY <1>4 DEF Lifecycle!Next

LEMMA StepMoves == ThreadInv /\ [Next]_vars => [Lifecycle!Next]_(Lifecycle!vars)
<1> SUFFICES ASSUME ThreadInv, [Next]_vars, ~UNCHANGED Lifecycle!vars
             PROVE  Lifecycle!Next
    OBVIOUS
<1>s. status' # status
    BY DEF Lifecycle!vars, Stored, Runner
<1>1. ASSUME NEW j \in Jobs, Work(j) PROVE Lifecycle!Next
    BY <1>1, WorkIsPromised DEF ThreadInv
<1>2. ASSUME NEW j \in Jobs, WebDecides(j) PROVE Lifecycle!Next
    BY <1>2, DecisionIsPromised DEF WebDecides, Decisions, ThreadInv
<1>3. ASSUME NEW p \in People, Handle(p) PROVE Lifecycle!Next
  <2>1. click[p][1] \in Jobs /\ click[p][2] \in Decisions
      BY <1>3 DEF Handle, ThreadInv, Typed
  <2>2. Decide(click[p][1], p, click[p][2])
      BY <1>3, <1>s DEF Handle
  <2> QED
      BY <2>1, <2>2, DecisionIsPromised DEF ThreadInv
<1>4. ASSUME \/ Prime \/ Poll \/ Announce \/ NotifierDies \/ Restart \/ UNCHANGED vars
             \/ \E j \in Jobs : Look(j) \/ Deadline(j) \/ FollowUp(j)
             \/ \E p \in People, j \in Jobs : Click(p, j) \/ OpenReview(p, j)
             \/ \E p \in People : Deny(p) \/ Update(p)
      PROVE  UNCHANGED status
    BY <1>4 DEF Prime, Poll, Announce, NotifierDies, Restart, vars, Look, Deadline, FollowUp,
                Click, OpenReview, Deny, Update
<1> QED
    BY <1>s, <1>1, <1>2, <1>3, <1>4 DEF Next

\* However late or often people click, in whatever order Slack and the dashboard
\* decide, and whatever a restart forgets, the gate is left only by one decision and a
\* job moves only as the job store promises (approval_actions.py:404, base.py:127).
THEOREM SlackMovesAsPromised == Spec => MovesAsPromised
  BY InitThread, StepThread, StepMoves, PTL DEF Spec, MovesAsPromised
=============================================================================
