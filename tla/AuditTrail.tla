----------------------------- MODULE AuditTrail -----------------------------
(***************************************************************************)
(* The audit trail of one pr job (src/src/app/store/audit_store.py), while *)
(* the processes that write it run side by side: the MCP server that       *)
(* proposes the job, the worker, the Slack bot, and the dashboard, which   *)
(* puts an item of its own without the store's code.                       *)
(*                                                                         *)
(* An append is a query for the last event, a stamp (the next number of    *)
(* the process and its clock) and a conditional put.  Nothing holds the    *)
(* trail between the three.                                                *)
(***************************************************************************)
EXTENDS Integers, Sequences, FiniteSets, SequencesExt

CONSTANTS Limit,      \* list_for_job returns that many events, oldest first
          Skew,       \* the dashboard's clock differs by that much, in ticks
          MaxTime,    \* bound: ticks of the clock
          ToolCalls,  \* tool calls the prepare run records
          MaxLost     \* bound: processes killed, and puts refused

ASSUME AuditAssumption == /\ Limit \in Nat \ {0}
                          /\ Skew \in Nat
                          /\ MaxTime \in Nat
                          /\ ToolCalls \in Nat
                          /\ MaxLost \in Nat

\* The processes that append with the store's code; they share a host's clock.
Procs == {"mcp", "worker", "slack"}

VARIABLES status,   \* job store: status of the job
          items,    \* the audit items of the job, in the order of their keys
          clock,
          seq,      \* per process: next number of its counter
          todo,     \* per process: the events it has still to append
          pc,       \* per process: where it is in append
          prev,     \* per process: the hash it read
          stamp,    \* per process: the key it has taken, <<ts, seq>>
          root,     \* the worker: step id of its "claimed" event
          working,  \* the worker is inside process_one with the job
          deciding, \* a dashboard request between its two writes
          denied,   \* bound: one click that is denied
          puts,     \* history: number of puts made
          saw,      \* history, per process: puts made when it read the last event
          lost      \* kills and refused puts

procVars == <<seq, todo, pc, prev, stamp, saw>>
jobVars  == <<status, root, working, deciding, denied>>
vars == <<status, items, clock, seq, todo, pc, prev, stamp, root, working,
          deciding, denied, puts, saw, lost>>

NoHash == <<>>
NoStep == 0
Gates  == {"approved", "awaiting_approval"}

Key(e) == <<e.ts, e.seq>>
Before(k, l) == k[1] < l[1] \/ (k[1] = l[1] /\ k[2] < l[2])

\* The digest of an event.  No two items share a key, so the key stands for it;
\* the dashboard's item carries none.
HashOf(e) == IF e.by = "web" THEN NoHash ELSE Key(e)

\* The query of the trail, oldest first, at most n events.
List(n) == IF Len(items) <= n THEN items ELSE SubSeq(items, 1, n)

\* verify_event_chain: every event has its own digest and its predecessor's.
Verifies(events) ==
    \A i \in DOMAIN events :
        /\ events[i].by # "web"
        /\ events[i].prev = IF i = 1 THEN NoHash ELSE HashOf(events[i - 1])

\* Mutant: only an approval counts as the gate of a credential.
ApprovalOnly(events) ==
    LET gates == {i \in DOMAIN events : events[i].action = "approved" /\ events[i].step # NoStep}
    IN  IF gates = {} THEN NoStep
        ELSE events[CHOOSE i \in gates : \A k \in gates : k <= i].step

\* _approval_step_id: the step of the last event of the list that opened or
\* decided the gate and has a step id.
ApprovalStep(events) ==
    LET gates == {i \in DOMAIN events : events[i].action \in Gates /\ events[i].step # NoStep}
    IN  IF gates = {} THEN NoStep
        ELSE events[CHOOSE i \in gates : \A k \in gates : k <= i].step

Entry(a, p) == [action |-> a, parent |-> p]

Init == /\ status = "absent"
        /\ items = <<>>
        /\ clock = 0
        /\ seq = [p \in Procs |-> 1]
        /\ todo = [p \in Procs |-> <<>>]
        /\ pc = [p \in Procs |-> "idle"]
        /\ prev = [p \in Procs |-> NoHash]
        /\ stamp = [p \in Procs |-> <<>>]
        /\ root = NoStep
        /\ working = FALSE
        /\ deciding = "no"
        /\ denied = FALSE
        /\ puts = 0
        /\ saw = [p \in Procs |-> 0]
        /\ lost = 0

Tick == /\ clock < MaxTime
        /\ clock' = clock + 1
        /\ UNCHANGED <<items, procVars, jobVars, puts, lost>>

-----------------------------------------------------------------------------
(* append, by a process with the store's code.                             *)

\* Mutant: the query runs forward, so the "last" event is the first.
LookForward(p) ==
    /\ todo[p] # <<>> /\ pc[p] = "idle"
    /\ pc' = [pc EXCEPT ![p] = "looked"]
    /\ prev' = [prev EXCEPT ![p] = IF items = <<>> THEN NoHash ELSE HashOf(items[1])]
    /\ saw' = [saw EXCEPT ![p] = puts]
    /\ UNCHANGED <<items, clock, seq, todo, stamp, jobVars, puts, lost>>

Look(p) ==
    /\ todo[p] # <<>> /\ pc[p] = "idle"
    /\ pc' = [pc EXCEPT ![p] = "looked"]
    /\ prev' = [prev EXCEPT ![p] = IF items = <<>> THEN NoHash ELSE HashOf(Last(items))]
    /\ saw' = [saw EXCEPT ![p] = puts]
    /\ UNCHANGED <<items, clock, seq, todo, stamp, jobVars, puts, lost>>

Stamp(p) ==
    /\ pc[p] = "looked"
    /\ pc' = [pc EXCEPT ![p] = "stamped"]
    /\ stamp' = [stamp EXCEPT ![p] = <<clock, seq[p]>>]
    /\ seq' = [seq EXCEPT ![p] = @ + 1]
    /\ UNCHANGED <<items, clock, todo, prev, saw, jobVars, puts, lost>>

Free(k) == \A i \in DOMAIN items : Key(items[i]) # k

Event(p) ==
    [ts |-> stamp[p][1], seq |-> stamp[p][2], by |-> p, action |-> Head(todo[p]).action,
     prev |-> prev[p], step |-> stamp[p][2], parent |-> Head(todo[p]).parent,
     saw |-> saw[p], nth |-> puts + 1]

\* The item goes between those with a lower key and those with a higher one; what
\* is under its key is replaced, if the put is not refused.
PutItem(e) ==
    /\ \E k \in 0..Len(items) :
          /\ \A i \in DOMAIN items : i <= k <=> Before(Key(items[i]), Key(e))
          /\ \E m \in k..Len(items) :
                /\ \A i \in DOMAIN items : i > m <=> Before(Key(e), Key(items[i]))
                /\ items' = SubSeq(items, 1, k) \o <<e>> \o SubSeq(items, m + 1, Len(items))
    /\ puts' = puts + 1

Rest(p) ==
    /\ pc' = [pc EXCEPT ![p] = "idle"]
    /\ prev' = [prev EXCEPT ![p] = NoHash]
    /\ stamp' = [stamp EXCEPT ![p] = <<>>]
    /\ saw' = [saw EXCEPT ![p] = 0]

Put(p) ==
    /\ pc[p] = "stamped"
    /\ Free(stamp[p])
    /\ PutItem(Event(p))
    /\ Rest(p)
    /\ root' = IF Head(todo[p]).action = "claimed" THEN stamp[p][2] ELSE root
    /\ todo' = [todo EXCEPT ![p] = Tail(@)]
    /\ UNCHANGED <<clock, seq, status, working, deciding, lost, denied>>

\* A refused put is an exception: it ends the worker (systemd starts it again)
\* and the handler of another process.
PutRefused(p) ==
    /\ pc[p] = "stamped" /\ ~Free(stamp[p])
    /\ lost < MaxLost
    /\ lost' = lost + 1
    /\ Rest(p)
    /\ todo' = [todo EXCEPT ![p] = <<>>]
    /\ seq' = IF p = "worker" THEN [seq EXCEPT ![p] = 1] ELSE seq
    /\ working' = IF p = "worker" THEN FALSE ELSE working
    /\ UNCHANGED <<items, clock, status, root, deciding, puts, denied>>

\* Mutant: the counter of a restarted process starts at 0.
RestartAtZero(p) ==
    /\ lost < MaxLost
    /\ lost' = lost + 1
    /\ Rest(p)
    /\ todo' = [todo EXCEPT ![p] = <<>>]
    /\ seq' = [seq EXCEPT ![p] = 0]
    /\ working' = IF p = "worker" THEN FALSE ELSE working
    /\ UNCHANGED <<items, clock, status, root, deciding, puts, denied>>

\* A process is killed and started again: its counter starts at 1.
Restart(p) ==
    /\ lost < MaxLost
    /\ lost' = lost + 1
    /\ Rest(p)
    /\ todo' = [todo EXCEPT ![p] = <<>>]
    /\ seq' = [seq EXCEPT ![p] = 1]
    /\ working' = IF p = "worker" THEN FALSE ELSE working
    /\ UNCHANGED <<items, clock, status, root, deciding, puts, denied>>

-----------------------------------------------------------------------------
(* What the processes do to the job, and the events that follow.           *)

\* p is between two appends with none to come, and takes up new ones.
Takes(p, entries) ==
    /\ todo[p] = <<>>
    /\ todo' = [todo EXCEPT ![p] = entries]
    /\ UNCHANGED <<items, clock, seq, pc, prev, stamp, saw, puts, lost>>

Propose ==
    /\ status = "absent"
    /\ status' = "pending"
    /\ Takes("mcp", <<Entry("proposed", NoStep)>>)
    /\ UNCHANGED <<root, working, deciding, denied>>

\* A claim of the prepare run or, after the approval, of the execute run.
Claim ==
    /\ ~working
    /\ \/ status = "pending" /\ status' = "preparing"
       \/ status = "approved" /\ status' = "executing"
    /\ working' = TRUE
    /\ root' = NoStep
    /\ Takes("worker", <<Entry("claimed", NoStep)>>)
    /\ UNCHANGED <<deciding, denied>>

ToolSteps == [i \in 1..ToolCalls |-> Entry("tool_call", root)]

\* The diff is prepared: the job waits at the gate, then the events are appended.
Prepared ==
    /\ working /\ status = "preparing"
    /\ status' = "awaiting_approval"
    /\ working' = FALSE
    /\ Takes("worker", Append(ToolSteps, Entry("awaiting_approval", root)))
    /\ UNCHANGED <<root, deciding, denied>>

\* The approved run takes a write credential and finds the step it answers to ...
Issue ==
    /\ working /\ status = "executing"
    /\ status' = "pushing"
    /\ Takes("worker", <<Entry("write_credentials_issued", ApprovalStep(List(Limit)))>>)
    /\ UNCHANGED <<root, working, deciding, denied>>

\* ... and ends.
End ==
    /\ working /\ status = "pushing"
    /\ status' = "ended"
    /\ working' = FALSE
    /\ Takes("worker", <<Entry("done", root)>>)
    /\ UNCHANGED <<root, deciding, denied>>

\* The sweep fails the job of a worker that was killed.
Reclaim ==
    /\ ~working /\ status \in {"preparing", "executing", "pushing"}
    /\ status' = "ended"
    /\ Takes("worker", <<Entry("reclaimed_stale", NoStep)>>)
    /\ UNCHANGED <<root, working, deciding, denied>>

\* A decision in Slack.
SlackDecides ==
    /\ status = "awaiting_approval"
    /\ \/ status' = "approved" /\ Takes("slack", <<Entry("approved", NoStep)>>)
       \/ status' = "ended" /\ Takes("slack", <<Entry("rejected", NoStep)>>)
    /\ UNCHANGED <<root, working, deciding, denied>>

\* A click of somebody who is not an approver.
SlackDenies ==
    /\ status = "awaiting_approval"
    /\ ~denied /\ denied' = TRUE
    /\ Takes("slack", <<Entry("approval_denied", NoStep)>>)
    /\ UNCHANGED <<status, root, working, deciding>>

\* A decision on the dashboard, and the item it puts: number 1, its own clock, no
\* digest, no predecessor, no step id, no condition.
WebDecides ==
    /\ status = "awaiting_approval" /\ deciding = "no"
    /\ \E d \in {"approved", "rejected"} :
          /\ deciding' = d
          /\ status' = IF d = "approved" THEN "approved" ELSE "ended"
    /\ UNCHANGED <<items, clock, procVars, root, working, puts, lost, denied>>

WebPuts ==
    /\ deciding # "no"
    /\ \E t \in 0..MaxTime :
          /\ t - clock \in -Skew..Skew
          /\ PutItem([ts |-> t, seq |-> 1, by |-> "web", action |-> deciding, prev |-> NoHash,
                      step |-> NoStep, parent |-> NoStep, saw |-> puts, nth |-> puts + 1])
    /\ deciding' = "no"
    /\ UNCHANGED <<clock, procVars, status, root, working, lost, denied>>

Next == \/ Tick
        \/ \E p \in Procs : \/ Look(p) \/ Stamp(p) \/ Put(p)
                            \/ PutRefused(p) \/ Restart(p)
        \/ Propose \/ Claim \/ Prepared \/ Issue \/ End \/ Reclaim
        \/ SlackDecides \/ SlackDenies \/ WebDecides \/ WebPuts

Spec == Init /\ [][Next]_vars

-----------------------------------------------------------------------------
Statuses == {"absent", "pending", "preparing", "awaiting_approval", "approved",
             "executing", "pushing", "ended"}

TypeOK == /\ status \in Statuses
          /\ clock \in 0..MaxTime
          /\ seq \in [Procs -> Nat \ {0}]
          /\ pc \in [Procs -> {"idle", "looked", "stamped"}]
          /\ \A p \in Procs : pc[p] # "idle" => todo[p] # <<>>
          /\ root \in Nat /\ working \in BOOLEAN
          /\ puts \in Nat /\ lost \in 0..MaxLost

Events == ToSet(items)

\* No two appends overlapped, every one was stamped in the order of the puts,
\* and the dashboard wrote none.
Serial == \A e \in Events :
             /\ e.by # "web"
             /\ e.saw = e.nth - 1
             /\ \A d \in Events : d.nth < e.nth => Before(Key(d), Key(e))

\* The verifier accepts a trail exactly when its writers came one after the other:
\* it misses no interleaving, reordering or loss among them, and raises no false
\* alarm (audit_store.py:455, verify_event_chain).
VerifierIsExact == Verifies(items) <=> Serial

\* A credential hangs on a step that opened or decided the gate, as long as no
\* writer was killed and the trail fits the list the worker reads
\* (worker.py:775, _approval_step_id).
CredentialIsTraceable ==
    \A c \in Events :
        c.action = "write_credentials_issued" /\ lost = 0 /\ c.nth <= Limit + 1 =>
            \E e \in Events : /\ e.step = c.parent /\ e.action \in Gates
                              /\ e.nth < c.nth
=============================================================================
