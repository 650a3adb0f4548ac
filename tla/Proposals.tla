----------------------------- MODULE Proposals ------------------------------
(***************************************************************************)
(* What the agents propose by themselves (src/src/app/mcp_server.py).      *)
(* Every invocation of the alarm Lambda, the monitor loop and every MCP    *)
(* session of Claude calls propose_job_impl: look for an open proposal of  *)
(* the same command and arguments among the recent jobs, then enqueue.     *)
(* The two are separate calls of the job store, and nothing else keeps one *)
(* incident from filling the queue.                                        *)
(***************************************************************************)
EXTENDS Integers, FiniteSets

CONSTANTS Alarms,     \* deliveries of an alarm to the Lambda
          Sessions,   \* MCP sessions
          Monitor,    \* the monitor process
          Keys,       \* what is proposed: command and arguments
          Scans,      \* those that scan a detection category
          Gated,      \* those that stop at the output gate
          WebKeys,    \* what people submit
          SignalKey,  \* what detect finds in the monitor's signals
          NoKey,      \* detect finds nothing
          Window,     \* list_recent returns that many jobs
          Slots,      \* jobs that run at once
          MaxJobs,    \* bound: jobs created
          MaxDeaths   \* bound: producers that fail or are killed

ASSUME ProposalsAssumption ==
    /\ IsFiniteSet(Alarms) /\ IsFiniteSet(Sessions)
    /\ Monitor \notin Alarms \cup Sessions /\ Alarms \cap Sessions = {}
    /\ Scans \subseteq Keys /\ Gated \subseteq Keys /\ WebKeys \subseteq Keys
    /\ SignalKey \in Keys \cup {NoKey} /\ NoKey \notin Keys
    /\ Window \in Nat /\ Slots \in Nat
    /\ MaxJobs \in Nat /\ MaxDeaths \in Nat

Producers == Alarms \cup Sessions \cup {Monitor}
Jobs == 1..MaxJobs   \* in the order of their creation

VARIABLES status,    \* job store: status
          key,       \* job store: command and arguments
          source,    \* job store: source
          created,   \* how many jobs there are
          pc,        \* per producer: where it is
          want,      \* per producer: what it proposes, NoKey when nothing
          due,       \* the monitor: categories of its cycle still to propose
          conf,      \* detection toggles: the categories enabled and scheduled
          deaths,
          blind      \* history: keys of open proposals older than a window

jobVars == <<status, key, source, created>>
vars == <<status, key, source, created, pc, want, due, conf, deaths, blind>>

Init == /\ status = [j \in Jobs |-> "absent"]
        /\ key = [j \in Jobs |-> NoKey]
        /\ source = [j \in Jobs |-> "none"]
        /\ created = 0
        /\ pc = [p \in Producers |-> "idle"]
        /\ want = [p \in Producers |-> NoKey]
        /\ due = {}
        /\ conf \in SUBSET Scans
        /\ deaths = 0
        /\ blind = {}

-----------------------------------------------------------------------------
(* propose_job_impl.                                                       *)

\* Mutant: a proposal that waits at the gate is not open.
OpenPending == {"pending"}

\* Mutant: a proposal that has ended is still open.
OpenForEver == {"pending", "preparing", "awaiting_approval", "approved",
                "executing", "ended"}

Open == {"pending", "awaiting_approval"}

\* The jobs of agents that propose k and are still open.
OpenFor(k) == {j \in Jobs : status[j] \in Open /\ source[j] = "agent" /\ key[j] = k}

\* Those that list_recent returns.
Seen(j) == j > created - Window

Takes(p, k) == /\ want' = [want EXCEPT ![p] = k]
               /\ pc' = [pc EXCEPT ![p] = "check"]

\* Where a producer goes when its call has returned: a new proposal or none.
After(p, new) == IF p = Monitor THEN (IF want[p] \in due THEN "scan" ELSE "list")
                 ELSE IF p \in Alarms THEN (IF new THEN "notify" ELSE "done")
                 ELSE "idle"

Return(p, new) ==
    /\ pc' = [pc EXCEPT ![p] = After(p, new)]
    /\ want' = IF p \in Alarms /\ new THEN want ELSE [want EXCEPT ![p] = NoKey]
    /\ due' = IF p = Monitor THEN due \ {want[p]} ELSE due

\* _has_open_agent_duplicate.
Check(p) ==
    /\ pc[p] = "check"
    /\ IF \E j \in OpenFor(want[p]) : Seen(j)
       THEN Return(p, FALSE)
       ELSE /\ pc' = [pc EXCEPT ![p] = "checked"]
            /\ UNCHANGED <<want, due>>
    /\ blind' = IF \E j \in OpenFor(want[p]) : ~Seen(j) THEN blind \cup {want[p]} ELSE blind
    /\ UNCHANGED <<jobVars, conf, deaths>>

\* Mutant: the new item takes the place of the newest one.
NewJobReplacing(k, s) ==
    /\ created < MaxJobs
    /\ created' = created + 1
    /\ LET j == IF created = 0 THEN 1 ELSE created
       IN  /\ status' = [status EXCEPT ![j] = "pending"]
           /\ key' = [key EXCEPT ![j] = k]
           /\ source' = [source EXCEPT ![j] = s]

NewJob(k, s) ==
    /\ created < MaxJobs
    /\ created' = created + 1
    /\ status' = [status EXCEPT ![created + 1] = "pending"]
    /\ key' = [key EXCEPT ![created + 1] = k]
    /\ source' = [source EXCEPT ![created + 1] = s]

Enqueue(p) ==
    /\ pc[p] = "checked"
    /\ NewJob(want[p], "agent")
    /\ Return(p, TRUE)
    /\ UNCHANGED <<conf, deaths, blind>>

-----------------------------------------------------------------------------
(* The alarm Lambda.                                                       *)

\* An event whose state is ALARM, and what detect makes of it.
Alarm(a) ==
    /\ pc[a] = "idle"
    /\ \E k \in (Keys \ Scans) \cup {NoKey} :
          IF k = NoKey THEN pc' = [pc EXCEPT ![a] = "done"] /\ UNCHANGED want
          ELSE Takes(a, k)
    /\ UNCHANGED <<jobVars, due, conf, deaths, blind>>

\* notify_detected: the new proposal is announced, and a failure swallowed.
Notify(a) ==
    /\ pc[a] = "notify"
    /\ pc' = [pc EXCEPT ![a] = "done"]
    /\ want' = [want EXCEPT ![a] = NoKey]
    /\ UNCHANGED <<jobVars, due, conf, deaths, blind>>

\* The invocation fails or times out, and the same event is delivered once more.
LambdaFails(a) ==
    /\ pc[a] \in {"check", "checked", "notify"}
    /\ deaths < MaxDeaths
    /\ deaths' = deaths + 1
    /\ pc' = [pc EXCEPT ![a] = "check"]
    /\ UNCHANGED <<jobVars, want, due, conf, blind>>

-----------------------------------------------------------------------------
(* MCP sessions and the monitor.                                           *)

\* A command that is not allowed never gets here (default deny).
ToolCall(s) ==
    /\ pc[s] = "idle"
    /\ \E k \in Keys : Takes(s, k)
    /\ UNCHANGED <<jobVars, due, conf, deaths, blind>>

SessionEnds(s) ==
    /\ pc[s] # "idle" /\ deaths < MaxDeaths
    /\ deaths' = deaths + 1
    /\ pc' = [pc EXCEPT ![s] = "idle"]
    /\ want' = [want EXCEPT ![s] = NoKey]
    /\ UNCHANGED <<jobVars, due, conf, blind>>

\* one_cycle: the signals first ...
Observe ==
    /\ pc[Monitor] = "idle"
    /\ IF SignalKey = NoKey
       THEN pc' = [pc EXCEPT ![Monitor] = "list"] /\ UNCHANGED want
       ELSE Takes(Monitor, SignalKey)
    /\ UNCHANGED <<jobVars, due, conf, deaths, blind>>

\* ... then the categories that are enabled and scheduled, as of one query.
ListConfigs ==
    /\ pc[Monitor] = "list"
    /\ due' = conf
    /\ pc' = [pc EXCEPT ![Monitor] = "scan"]
    /\ UNCHANGED <<jobVars, want, conf, deaths, blind>>

Scan ==
    /\ pc[Monitor] = "scan"
    /\ IF due = {} THEN pc' = [pc EXCEPT ![Monitor] = "idle"] /\ UNCHANGED want
       ELSE \E k \in due : Takes(Monitor, k)
    /\ UNCHANGED <<jobVars, due, conf, deaths, blind>>

MonitorDies ==
    /\ deaths < MaxDeaths
    /\ deaths' = deaths + 1
    /\ pc' = [pc EXCEPT ![Monitor] = "idle"]
    /\ want' = [want EXCEPT ![Monitor] = NoKey]
    /\ due' = {}
    /\ UNCHANGED <<jobVars, conf, blind>>

-----------------------------------------------------------------------------
(* The dashboard and the job store.                                        *)

Toggle(k) ==
    /\ conf' = IF k \in conf THEN conf \ {k} ELSE conf \cup {k}
    /\ UNCHANGED <<jobVars, pc, want, due, deaths, blind>>

\* A person's job, "Scan now" included: never compared with the open ones.
Submit(k) ==
    /\ NewJob(k, "web")
    /\ UNCHANGED <<pc, want, due, conf, deaths, blind>>

Running == {j \in Jobs : status[j] \in {"preparing", "executing"}}

Move(j, from, to) ==
    /\ status[j] = from
    /\ status' = [status EXCEPT ![j] = to]
    /\ UNCHANGED <<key, source, created, pc, want, due, conf, deaths, blind>>

Claim(j) == /\ Cardinality(Running) < Slots
            /\ Move(j, "pending", "preparing") \/ Move(j, "approved", "executing")

Gate(j)   == key[j] \in Gated /\ Move(j, "preparing", "awaiting_approval")
Decide(j) == \E s \in {"approved", "ended"} : Move(j, "awaiting_approval", s)
End(j)    == Move(j, "preparing", "ended") \/ Move(j, "executing", "ended")

MonitorStep == Observe \/ ListConfigs \/ Scan \/ Check(Monitor) \/ Enqueue(Monitor)

Next == \/ \E p \in Producers : Check(p) \/ Enqueue(p)
        \/ \E a \in Alarms : Alarm(a) \/ Notify(a) \/ LambdaFails(a)
        \/ \E s \in Sessions : ToolCall(s) \/ SessionEnds(s)
        \/ Observe \/ ListConfigs \/ Scan \/ MonitorDies
        \/ \E k \in Scans : Toggle(k)
        \/ \E k \in WebKeys : Submit(k)
        \/ \E j \in Jobs : Claim(j) \/ Gate(j) \/ Decide(j) \/ End(j)

\* systemd keeps the monitor running; its loop goes on by itself.
Spec == Init /\ [][Next]_vars /\ WF_vars(MonitorStep)

-----------------------------------------------------------------------------
Statuses == {"absent", "pending", "preparing", "awaiting_approval", "approved",
             "executing", "ended"}

TypeOK == /\ status \in [Jobs -> Statuses]
          /\ key \in [Jobs -> Keys \cup {NoKey}]
          /\ source \in [Jobs -> {"none", "agent", "web"}]
          /\ created \in 0..MaxJobs
          /\ \A j \in Jobs : status[j] = "absent" <=> j > created
          /\ pc \in [Producers -> {"idle", "check", "checked", "notify", "done", "list", "scan"}]
          /\ want \in [Producers -> Keys \cup {NoKey}]
          /\ due \subseteq Scans
          /\ conf \subseteq Scans
          /\ deaths \in 0..MaxDeaths
          /\ blind \subseteq Keys

\* The proposals of k under way: in the queue, being prepared or at the gate, and
\* those about to be enqueued.
UnderWay(k) == {j \in Jobs : /\ status[j] \in {"pending", "preparing", "awaiting_approval"}
                             /\ source[j] = "agent" /\ key[j] = k}
Checked(k)  == {p \in Producers : pc[p] = "checked" /\ want[p] = k}

\* However often an incident is observed, no more proposals of it are under way
\* than there are producers and running jobs, unless one fell out of the window
\* (mcp_server.py:99: look, then enqueue).
StackIsBounded ==
    \A k \in Keys \ blind :
        Cardinality(UnderWay(k)) + Cardinality(Checked(k)) <= Cardinality(Producers) + Slots

\* A category that stays scheduled is proposed again whenever no proposal of it
\* is under way (agent_monitor.py:211, enqueue_due_scans).
DueScansComeBack ==
    \A k \in Scans :
        k \in conf /\ UnderWay(k) = {}
            ~> k \notin conf \/ UnderWay(k) # {} \/ created = MaxJobs
=============================================================================
