----------------------------- MODULE SlackGate ------------------------------
(***************************************************************************)
(* What Slack shows of a job, and what clicks there do to it.  The         *)
(* notifier polls the job store and posts the statuses it finds            *)
(* (src/src/app/proposal_notifier.py); the assistant waits for the job its *)
(* turn proposed and posts the buttons of the gate into the thread         *)
(* (assistant_handler.py); the handlers of buttons and of the review modal *)
(* decide and then rewrite that message (approval_actions.py).  All of it  *)
(* runs in one Slack process, which may restart, while the worker and the  *)
(* dashboard move the job.                                                 *)
(***************************************************************************)
EXTENDS Integers, Sequences, FiniteSets, SequencesExt

CONSTANTS Jobs,        \* jobs that a turn of the assistant proposed
          Approvers,   \* SLACK_APPROVER_IDS
          Others,      \* other people in the channel
          Web,         \* the approver on the dashboard
          NoOne,
          NoJob,
          MaxTrouble   \* bound: restarts, failed posts, failed queries

ASSUME SlackAssumption == /\ IsFiniteSet(Jobs) /\ NoJob \notin Jobs
                          /\ Approvers \cap Others = {}
                          /\ Web \notin Approvers \cup Others
                          /\ NoOne \notin Approvers \cup Others \cup {Web}
                          /\ MaxTrouble \in Nat

People == Approvers \cup Others

VARIABLES status,    \* job store: status
          decider,   \* job store: approved_by
          notifier,  \* its thread: prime (about to poll first), up, dead
          seen,      \* notifier: status last seen of each job
          batch,     \* notifier: rest of the jobs of a poll
          news,      \* history: what the channel was told of each job
          thread,    \* the assistant's turn that proposed the job
          got,       \* its last look at the status
          message,   \* what the follow-up message in the thread shows
          modal,     \* per person: job whose review modal is open
          click,     \* per person: a click on its way, <<>> when none
          hand,      \* per person: the handler's text to be shown, <<>> when none
          trouble

notifierVars == <<notifier, seen, batch, news>>
threadVars   == <<thread, got>>
clickVars    == <<modal, click, hand>>
vars == <<status, decider, notifier, seen, batch, news, thread, got, message,
          modal, click, hand, trouble>>

Settled == {"awaiting_approval", "done", "failed", "rejected"}
Worthy  == {"pending", "awaiting_approval", "done", "failed"}

JobSeq == SetToSeq(Jobs)

Text(what, who) == [what |-> what, by |-> who]

Init == /\ status = [j \in Jobs |-> "pending"]
        /\ decider = [j \in Jobs |-> NoOne]
        /\ notifier = "prime"
        /\ seen = [j \in Jobs |-> "none"]
        /\ batch = <<>>
        /\ news = [j \in Jobs |-> <<>>]
        /\ thread = [j \in Jobs |-> "waiting"]
        /\ got = [j \in Jobs |-> "none"]
        /\ message = [j \in Jobs |-> Text("none", NoOne)]
        /\ modal = [p \in People |-> NoJob]
        /\ click = [p \in People |-> <<>>]
        /\ hand = [p \in People |-> <<>>]
        /\ trouble = 0

-----------------------------------------------------------------------------
(* The worker and the dashboard.                                           *)

Move(j, from, to) ==
    /\ status[j] = from
    /\ status' = [status EXCEPT ![j] = to]

Work(j) ==
    /\ \/ Move(j, "pending", "running")
       \/ Move(j, "approved", "executing")
       \/ \E s \in {"awaiting_approval", "done", "failed"} : Move(j, "running", s)
       \/ \E s \in {"done", "failed"} : Move(j, "executing", s)
    /\ UNCHANGED <<decider, notifierVars, threadVars, message, clickVars, trouble>>

\* approve and reject, by whoever is first.
Decide(j, who, s) ==
    /\ Move(j, "awaiting_approval", s)
    /\ decider' = [decider EXCEPT ![j] = who]

WebDecides(j) ==
    /\ \E s \in {"approved", "rejected"} : Decide(j, Web, s)
    /\ UNCHANGED <<notifierVars, threadVars, message, clickVars, trouble>>

-----------------------------------------------------------------------------
(* The notifier.                                                           *)

\* Mutant: every poll posts, the first one too.
PrimeLoudly ==
    /\ notifier = "prime"
    /\ notifier' = "up"
    /\ UNCHANGED <<status, decider, seen, batch, news, threadVars, message, clickVars, trouble>>

\* The first poll records and posts nothing.
Prime ==
    /\ notifier = "prime"
    /\ notifier' = "up"
    /\ seen' = status
    /\ UNCHANGED <<status, decider, batch, news, threadVars, message, clickVars, trouble>>

\* list_recent: one query, then the jobs one by one.
Poll ==
    /\ notifier = "up" /\ batch = <<>>
    /\ \E j \in Jobs : seen[j] # status[j]
    /\ batch' = [i \in 1..Len(JobSeq) |-> <<JobSeq[i], status[JobSeq[i]]>>]
    /\ UNCHANGED <<status, decider, notifier, seen, news, threadVars, message, clickVars, trouble>>

\* Mutant: a job whose post failed counts as announced.
PostOnce(j, s) ==
    /\ seen' = [seen EXCEPT ![j] = s]
    /\ \/ /\ news' = [news EXCEPT ![j] = Append(@, [what |-> s, sure |-> TRUE])]
          /\ UNCHANGED trouble
       \/ /\ trouble < MaxTrouble
          /\ trouble' = trouble + 1
          /\ UNCHANGED news

\* A post succeeds; or it fails, delivered or not, and seen stays as it was.
Post(j, s) ==
    \/ /\ news' = [news EXCEPT ![j] = Append(@, [what |-> s, sure |-> TRUE])]
       /\ seen' = [seen EXCEPT ![j] = s]
       /\ UNCHANGED trouble
    \/ /\ trouble < MaxTrouble
       /\ trouble' = trouble + 1
       /\ \/ news' = [news EXCEPT ![j] = Append(@, [what |-> s, sure |-> FALSE])]
          \/ UNCHANGED news
       /\ UNCHANGED seen

Announce ==
    /\ notifier = "up" /\ batch # <<>>
    /\ batch' = Tail(batch)
    /\ LET j == Head(batch)[1]
           s == Head(batch)[2]
       IN  IF seen[j] # s /\ s \in Worthy THEN Post(j, s)
           ELSE seen' = [seen EXCEPT ![j] = s] /\ UNCHANGED <<news, trouble>>
    /\ UNCHANGED <<status, decider, notifier, threadVars, message, clickVars>>

\* A query fails: the thread ends with a log line, the process goes on.
NotifierDies ==
    /\ notifier # "dead" /\ batch = <<>>
    /\ trouble < MaxTrouble
    /\ trouble' = trouble + 1
    /\ notifier' = "dead"
    /\ UNCHANGED <<status, decider, seen, batch, news, threadVars, message, clickVars>>

-----------------------------------------------------------------------------
(* The assistant's turn: poll_job, then the follow-up.                     *)

Look(j) ==
    /\ thread[j] = "waiting" /\ status[j] \in Settled
    /\ thread' = [thread EXCEPT ![j] = "follow"]
    /\ got' = [got EXCEPT ![j] = status[j]]
    /\ UNCHANGED <<status, decider, notifierVars, message, clickVars, trouble>>

\* The deadline passes first; nobody comes back to the thread later.
Deadline(j) ==
    /\ thread[j] = "waiting" /\ status[j] \notin Settled
    /\ thread' = [thread EXCEPT ![j] = "follow"]
    /\ got' = [got EXCEPT ![j] = status[j]]
    /\ UNCHANGED <<status, decider, notifierVars, message, clickVars, trouble>>

\* followup_for, posted into the thread.
FollowUp(j) ==
    /\ thread[j] = "follow"
    /\ thread' = [thread EXCEPT ![j] = "closed"]
    /\ message' = [message EXCEPT ![j] =
         Text(CASE got[j] = "awaiting_approval" -> "buttons"
                [] got[j] \in {"done", "failed"} -> "result"
                [] got[j] = "rejected" -> "rejected by somebody"
                [] OTHER -> "still working", NoOne)]
    /\ UNCHANGED <<status, decider, notifierVars, got, clickVars, trouble>>

-----------------------------------------------------------------------------
(* Buttons and the review modal.                                           *)

Idle(p) == click[p] = <<>> /\ hand[p] = <<>>

\* Mutant: a person clicks while an earlier click is still being handled.
ClickAgain(p, j) ==
    /\ click[p] = <<>>
    /\ message[j].what = "buttons" \/ modal[p] = j
    /\ \E s \in {"approved", "rejected"} : click' = [click EXCEPT ![p] = <<j, s, modal[p] = j>>]
    /\ modal' = [modal EXCEPT ![p] = NoJob]
    /\ UNCHANGED <<status, decider, notifierVars, threadVars, message, hand, trouble>>

\* A click is sent while the buttons show, or from an open modal; it is handled later.
Click(p, j) ==
    /\ Idle(p)
    /\ message[j].what = "buttons" \/ modal[p] = j
    /\ \E s \in {"approved", "rejected"} : click' = [click EXCEPT ![p] = <<j, s, modal[p] = j>>]
    /\ modal' = [modal EXCEPT ![p] = NoJob]
    /\ UNCHANGED <<status, decider, notifierVars, threadVars, message, hand, trouble>>

\* _open_review: only an approver gets the modal, and only of a job at the gate.
OpenReview(p, j) ==
    /\ Idle(p) /\ modal[p] = NoJob
    /\ message[j].what = "buttons"
    /\ p \in Approvers /\ status[j] = "awaiting_approval"
    /\ modal' = [modal EXCEPT ![p] = j]
    /\ UNCHANGED <<status, decider, notifierVars, threadVars, message, click, hand, trouble>>

\* Mutant: the answer of the store is not looked at.
HandleBlindly(p) ==
    /\ click[p] # <<>> /\ p \in Approvers
    /\ LET j == click[p][1]
           s == click[p][2]
       IN  /\ IF status[j] = "awaiting_approval" THEN Decide(j, p, s)
              ELSE UNCHANGED <<status, decider>>
           /\ hand' = [hand EXCEPT ![p] = <<j, Text(s, p)>>]
    /\ click' = [click EXCEPT ![p] = <<>>]
    /\ UNCHANGED <<notifierVars, threadVars, message, modal, trouble>>

\* apply_decision for an approver: the conditional update, and the text it makes.
Handle(p) ==
    /\ click[p] # <<>> /\ p \in Approvers
    /\ LET j == click[p][1]
           s == click[p][2]
       IN  IF status[j] = "awaiting_approval"
           THEN Decide(j, p, s) /\ hand' = [hand EXCEPT ![p] = <<j, Text(s, p)>>]
           ELSE /\ hand' = [hand EXCEPT ![p] = <<j, Text("already handled", NoOne)>>]
                /\ UNCHANGED <<status, decider>>
    /\ click' = [click EXCEPT ![p] = <<>>]
    /\ UNCHANGED <<notifierVars, threadVars, message, modal, trouble>>

\* Anybody else is told so: after a button in the message itself, which loses its
\* buttons; after a modal in a note of his own.
Deny(p) ==
    /\ click[p] # <<>> /\ p \notin Approvers
    /\ hand' = IF click[p][3] THEN hand
               ELSE [hand EXCEPT ![p] = <<click[p][1], Text("not authorized", p)>>]
    /\ click' = [click EXCEPT ![p] = <<>>]
    /\ UNCHANGED <<status, decider, notifierVars, threadVars, message, modal, trouble>>

\* chat_update, whose failure is only logged.
Update(p) ==
    /\ hand[p] # <<>>
    /\ hand' = [hand EXCEPT ![p] = <<>>]
    /\ \/ message' = [message EXCEPT ![hand[p][1]] = hand[p][2]] /\ UNCHANGED trouble
       \/ trouble < MaxTrouble /\ trouble' = trouble + 1 /\ UNCHANGED message
    /\ UNCHANGED <<status, decider, notifierVars, threadVars, modal, click>>

\* The Slack process restarts; what Slack itself shows stays.
Restart ==
    /\ trouble < MaxTrouble
    /\ trouble' = trouble + 1
    /\ notifier' = "prime"
    /\ seen' = [j \in Jobs |-> "none"]
    /\ batch' = <<>>
    /\ thread' = [j \in Jobs |-> "closed"]
    /\ click' = [p \in People |-> <<>>]
    /\ hand' = [p \in People |-> <<>>]
    /\ UNCHANGED <<status, decider, news, got, message, modal>>

NotifierStep == Prime \/ Poll \/ Announce

Next == \/ \E j \in Jobs : Work(j) \/ WebDecides(j)
        \/ Prime \/ Poll \/ Announce \/ NotifierDies
        \/ \E j \in Jobs : Look(j) \/ Deadline(j) \/ FollowUp(j)
        \/ \E p \in People, j \in Jobs : Click(p, j) \/ OpenReview(p, j)
        \/ \E p \in People : Handle(p) \/ Deny(p) \/ Update(p)
        \/ Restart

\* The notifier's loop goes on by itself.
Spec == Init /\ [][Next]_vars /\ WF_vars(NotifierStep)

-----------------------------------------------------------------------------
Statuses == {"pending", "running", "awaiting_approval", "approved", "executing",
             "done", "failed", "rejected"}

TypeOK == /\ status \in [Jobs -> Statuses]
          /\ decider \in [Jobs -> People \cup {Web, NoOne}]
          /\ notifier \in {"prime", "up", "dead"}
          /\ seen \in [Jobs -> Statuses \cup {"none"}]
          /\ thread \in [Jobs -> {"waiting", "follow", "closed"}]
          /\ got \in [Jobs -> Statuses \cup {"none"}]
          /\ \A p \in People : /\ modal[p] \in Jobs \cup {NoJob}
                               /\ click[p] = <<>> \/ hand[p] = <<>>
          /\ trouble \in 0..MaxTrouble

Rank(s) == CASE s = "pending" -> 1 [] s = "awaiting_approval" -> 2 [] OTHER -> 3

\* The channel hears of a job in the order in which things happened, and of each
\* status once unless Slack reported a failure for a post it delivered
\* (proposal_notifier.py:94: seen is kept across polls and lost in a restart).
NewsInOrder ==
    \A j \in Jobs : \A i, k \in DOMAIN news[j] :
        i < k => \/ Rank(news[j][i].what) < Rank(news[j][k].what)
                 \/ news[j][i].what = news[j][k].what /\ ~news[j][i].sure

\* A gate that opens while the notifier runs and stays open is announced, unless
\* the notifier dies first (proposal_notifier.py:97: a failed post is tried again).
GateIsAnnounced ==
    \A j \in Jobs :
        notifier = "up" /\ status[j] = "awaiting_approval" /\ seen[j] # status[j]
            ~> \/ notifier # "up" \/ status[j] # "awaiting_approval"
               \/ \E i \in DOMAIN news[j] : news[j][i].what = "awaiting_approval"

\* The thread tells what happened: it names who decided only when the store
\* recorded that decision of that person, and a message of the gate shows
\* something else than its buttons, while the job still waits, only after a click
\* of somebody who may not decide (approval_actions.py:404).
ThreadTellsTheTruth ==
    \A j \in Jobs :
        /\ message[j].what = "approved" =>
             /\ decider[j] = message[j].by
             /\ status[j] \in {"approved", "executing", "done", "failed"}
        /\ message[j].what = "rejected" =>
             decider[j] = message[j].by /\ status[j] = "rejected"
        /\ status[j] = "awaiting_approval" =>
             \/ message[j].what \in {"none", "buttons", "still working"}
             \/ message[j].what = "not authorized" /\ message[j].by \notin Approvers
=============================================================================
