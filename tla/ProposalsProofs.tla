--------------------------- MODULE ProposalsProofs ---------------------------
(***************************************************************************)
(* Theorems about Proposals for any number of alarms, sessions, keys, jobs *)
(* and failures, any window and any number of jobs that run at once.       *)
(***************************************************************************)
EXTENDS Proposals, FiniteSetTheorems, TLAPS

\* A producer that looks or enqueues knows what it proposes.
Wanted == \A p \in Producers : pc[p] \in {"check", "checked", "notify"} => want[p] \in Keys

TypedInv == TypeOK /\ Wanted

-----------------------------------------------------------------------------
(* Types.                                                                  *)

LEMMA InitTyped == Init => TypedInv
  BY ProposalsAssumption DEF Init, TypedInv, TypeOK, Wanted, Statuses, Jobs, ProposalsAssumption

LEMMA NewJobTyped ==
  ASSUME TypeOK, NEW k \in Keys, NEW s \in {"agent", "web"}, NewJob(k, s)
  PROVE  /\ status' \in [Jobs -> Statuses]
         /\ key' \in [Jobs -> Keys \cup {NoKey}]
         /\ source' \in [Jobs -> {"none", "agent", "web"}]
         /\ created' \in 0..MaxJobs
         /\ \A j \in Jobs : status'[j] = "absent" <=> j > created'
  BY ProposalsAssumption DEF TypeOK, NewJob, Statuses, Jobs, ProposalsAssumption

LEMMA ReturnTyped ==
  ASSUME TypedInv, NEW p \in Producers, NEW new \in BOOLEAN, pc[p] \in {"check", "checked"},
         Return(p, new)
  PROVE  /\ pc' \in [Producers -> {"idle", "check", "checked", "notify", "done", "list", "scan"}]
         /\ want' \in [Producers -> Keys \cup {NoKey}]
         /\ due' \subseteq Scans
         /\ Wanted'
  BY DEF TypedInv, TypeOK, Wanted, Return, After, Producers

LEMMA MoveTyped ==
  ASSUME TypedInv, NEW j \in Jobs, NEW from \in Statuses \ {"absent"},
         NEW to \in Statuses \ {"absent"}, Move(j, from, to)
  PROVE  TypedInv'
  BY DEF TypedInv, TypeOK, Wanted, Move

LEMMA StepTyped == TypedInv /\ [Next]_vars => TypedInv'
<1> SUFFICES ASSUME TypedInv, [Next]_vars PROVE TypedInv'
    OBVIOUS
<1> USE ProposalsAssumption DEF ProposalsAssumption
<1>1. ASSUME NEW p \in Producers, Check(p) PROVE TypedInv'
    <2>1. want[p] \in Keys
        BY <1>1 DEF Check, TypedInv, Wanted
    <2>2. CASE Return(p, FALSE)
        BY <1>1, <2>1, <2>2, ReturnTyped DEF Check, TypedInv, TypeOK, jobVars
    <2>3. CASE pc' = [pc EXCEPT ![p] = "checked"] /\ UNCHANGED <<want, due>>
        BY <1>1, <2>1, <2>3 DEF Check, TypedInv, TypeOK, Wanted, jobVars
    <2> QED
        BY <1>1, <2>2, <2>3 DEF Check
<1>2. ASSUME NEW p \in Producers, Enqueue(p) PROVE TypedInv'
    <2>1. want[p] \in Keys /\ pc[p] = "checked"
        BY <1>2 DEF Enqueue, TypedInv, Wanted
    <2> QED
        BY <1>2, <2>1, NewJobTyped, ReturnTyped DEF Enqueue, TypedInv, TypeOK
<1>3. ASSUME NEW a \in Alarms, Alarm(a) \/ Notify(a) \/ LambdaFails(a) PROVE TypedInv'
    BY <1>3 DEF Alarm, Notify, LambdaFails, Takes, TypedInv, TypeOK, Wanted, Producers, jobVars
<1>4. ASSUME NEW s \in Sessions, ToolCall(s) \/ SessionEnds(s) PROVE TypedInv'
    BY <1>4 DEF ToolCall, SessionEnds, Takes, TypedInv, TypeOK, Wanted, Producers, jobVars
<1>5. CASE Observe
    BY <1>5 DEF Observe, Takes, TypedInv, TypeOK, Wanted, Producers, jobVars
<1>6. CASE ListConfigs
    BY <1>6 DEF ListConfigs, TypedInv, TypeOK, Wanted, Producers, jobVars
<1>7. CASE Scan
    BY <1>7 DEF Scan, Takes, TypedInv, TypeOK, Wanted, Producers, jobVars
<1>8. CASE MonitorDies
    BY <1>8 DEF MonitorDies, TypedInv, TypeOK, Wanted, Producers, jobVars
<1>9. ASSUME NEW k \in Scans, Toggle(k) PROVE TypedInv'
    BY <1>9 DEF Toggle, TypedInv, TypeOK, Wanted, jobVars
<1>10. ASSUME NEW k \in WebKeys, Submit(k) PROVE TypedInv'
    BY <1>10, NewJobTyped DEF Submit, TypedInv, TypeOK, Wanted
<1>11. ASSUME NEW j \in Jobs, Claim(j) \/ Gate(j) \/ Decide(j) \/ End(j) PROVE TypedInv'
    BY <1>11, MoveTyped DEF Claim, Gate, Decide, End, Statuses
<1>12. CASE UNCHANGED vars
    BY <1>12 DEF vars, TypedInv, TypeOK, Wanted
<1> QED
    BY <1>1, <1>2, <1>3, <1>4, <1>5, <1>6, <1>7, <1>8, <1>9, <1>10, <1>11, <1>12 DEF Next

\* The state of the queue, of the producers and of the toggles has its types.
THEOREM TypeCorrect == Spec => []TypeOK
  BY InitTyped, StepTyped, PTL DEF Spec, TypedInv

-----------------------------------------------------------------------------
(* Sizes.                                                                  *)

LEMMA JobSets == ASSUME NEW S \in SUBSET Jobs
                 PROVE  IsFiniteSet(S) /\ Cardinality(S) \in Nat
<1>1. IsFiniteSet(Jobs)
    BY FS_Interval, ProposalsAssumption DEF Jobs, ProposalsAssumption
<1> QED
    BY <1>1, FS_Subset, FS_CardinalityType

LEMMA ProducerSets == ASSUME NEW S \in SUBSET Producers
                      PROVE  /\ IsFiniteSet(S) /\ Cardinality(S) \in Nat
                             /\ Cardinality(Producers) \in Nat
                             /\ Cardinality(S) <= Cardinality(Producers)
<1>1. IsFiniteSet({Monitor})
    BY FS_Singleton
<1>2. IsFiniteSet(Producers)
    BY <1>1, FS_Union, ProposalsAssumption DEF Producers, ProposalsAssumption
<1> QED
    BY <1>2, FS_Subset, FS_CardinalityType

\* No more jobs run than there are slots.
SlotsInv == Cardinality(Running) <= Slots

LEMMA StepSlots == TypedInv /\ SlotsInv /\ [Next]_vars => SlotsInv'
<1> SUFFICES ASSUME TypedInv, SlotsInv, [Next]_vars PROVE SlotsInv'
    OBVIOUS
<1>1. /\ Running \in SUBSET Jobs /\ Running' \in SUBSET Jobs
      /\ Slots \in Nat
    BY ProposalsAssumption DEF Running, ProposalsAssumption
<1>2. /\ IsFiniteSet(Running) /\ Cardinality(Running) \in Nat
      /\ IsFiniteSet(Running') /\ Cardinality(Running') \in Nat
    BY <1>1, JobSets
<1>3. CASE Running' \subseteq Running
    BY <1>1, <1>2, <1>3, FS_Subset DEF SlotsInv
<1>4. ASSUME NEW j \in Jobs, Claim(j) PROVE SlotsInv'
    <2>1. Running' \subseteq Running \cup {j}
        BY <1>4 DEF Claim, Move, Running, TypedInv, TypeOK
    <2>2. IsFiniteSet(Running \cup {j}) /\ Cardinality(Running \cup {j}) <= Cardinality(Running) + 1
        BY <1>2, FS_AddElement
    <2>3. Cardinality(Running \cup {j}) \in Nat
        BY <2>2, FS_CardinalityType
    <2>4. Cardinality(Running') <= Cardinality(Running \cup {j})
        BY <2>1, <2>2, FS_Subset
    <2> QED
        BY <1>1, <1>2, <1>4, <2>2, <2>3, <2>4 DEF Claim, SlotsInv
<1>5. ASSUME NEW k, NEW s, NewJob(k, s) PROVE Running' \subseteq Running
    BY <1>5 DEF NewJob, Running, TypedInv, TypeOK
<1>6. ASSUME NEW j \in Jobs, Gate(j) \/ Decide(j) \/ End(j) PROVE Running' \subseteq Running
    BY <1>6 DEF Gate, Decide, End, Move, Running, TypedInv, TypeOK
<1>7. CASE UNCHANGED status
    BY <1>7, <1>3 DEF Running
<1> QED
    BY <1>3, <1>4, <1>5, <1>6, <1>7
    DEF Next, Check, Enqueue, Alarm, Notify, LambdaFails, ToolCall, SessionEnds, Observe,
        ListConfigs, Scan, MonitorDies, Toggle, Submit, jobVars, vars

-----------------------------------------------------------------------------
(* The pile of one incident.                                               *)

\* Nobody's look for k starts to count, and no proposal of k comes in.
LEMMA PileShrinks ==
  ASSUME TypedInv, NEW k,
         UnderWay(k)' \subseteq UnderWay(k), Checked(k)' \subseteq Checked(k),
         Cardinality(UnderWay(k)) + Cardinality(Checked(k)) <= Cardinality(Producers) + Slots
  PROVE  Cardinality(UnderWay(k)') + Cardinality(Checked(k)') <= Cardinality(Producers) + Slots
<1>1. /\ UnderWay(k) \in SUBSET Jobs /\ UnderWay(k)' \in SUBSET Jobs
      /\ Checked(k) \in SUBSET Producers /\ Checked(k)' \in SUBSET Producers
    BY DEF UnderWay, Checked
<1>2. /\ IsFiniteSet(UnderWay(k)) /\ Cardinality(UnderWay(k)) \in Nat
      /\ Cardinality(UnderWay(k)') \in Nat
    BY <1>1, JobSets
<1>3. /\ IsFiniteSet(Checked(k)) /\ Cardinality(Checked(k)) \in Nat
      /\ Cardinality(Checked(k)') \in Nat /\ Cardinality(Producers) \in Nat
    BY <1>1, ProducerSets
<1>4. /\ Cardinality(UnderWay(k)') <= Cardinality(UnderWay(k))
      /\ Cardinality(Checked(k)') <= Cardinality(Checked(k))
    BY <1>2, <1>3, FS_Subset
<1> QED
    BY <1>2, <1>3, <1>4, ProposalsAssumption DEF ProposalsAssumption

\* A producer that finds no open proposal of k leaves at most the running ones,
\* and the producers, in the pile.
LEMMA CheckBounds ==
  ASSUME TypedInv, SlotsInv, NEW p \in Producers, Check(p), NEW k \in Keys \ blind',
         Cardinality(UnderWay(k)) + Cardinality(Checked(k)) <= Cardinality(Producers) + Slots
  PROVE  Cardinality(UnderWay(k)') + Cardinality(Checked(k)') <= Cardinality(Producers) + Slots
<1>1. UnderWay(k)' = UnderWay(k)
    BY DEF Check, UnderWay, jobVars
<1>2. CASE want[p] # k \/ pc'[p] # "checked"
    <2>1. Checked(k)' \subseteq Checked(k)
        BY <1>2 DEF Check, Checked, Return, After, TypedInv, TypeOK
    <2> QED
        BY <1>1, <2>1, PileShrinks
<1>3. CASE want[p] = k /\ pc'[p] = "checked"
    <2>1. ~\E j \in OpenFor(k) : Seen(j)
        <3>1. SUFFICES ASSUME Return(p, FALSE) PROVE FALSE
            BY <1>3 DEF Check
        <3> QED
            BY <1>3, <3>1 DEF Return, After, TypedInv, TypeOK
    <2>2. ~\E j \in OpenFor(k) : ~Seen(j)
        BY <1>3 DEF Check
    <2>3. UnderWay(k) \subseteq Running
        BY <2>1, <2>2 DEF UnderWay, OpenFor, Open, Running
    <2>4. Running \in SUBSET Jobs /\ UnderWay(k) \in SUBSET Jobs /\ Checked(k)' \in SUBSET Producers
        BY DEF Running, UnderWay, Checked
    <2>5. /\ IsFiniteSet(Running) /\ Cardinality(Running) \in Nat
          /\ Cardinality(UnderWay(k)) \in Nat
        BY <2>4, JobSets
    <2>6. Cardinality(UnderWay(k)) <= Cardinality(Running)
        BY <2>3, <2>5, FS_Subset
    <2>7. /\ Cardinality(Checked(k)') \in Nat /\ Cardinality(Producers) \in Nat
          /\ Cardinality(Checked(k)') <= Cardinality(Producers)
        BY <2>4, ProducerSets
    <2> QED
        BY <1>1, <2>5, <2>6, <2>7, ProposalsAssumption DEF SlotsInv, ProposalsAssumption
<1> QED
    BY <1>2, <1>3

\* An enqueue moves one of the pile from those about to enqueue to the queue.
LEMMA EnqueueKeeps ==
  ASSUME TypedInv, NEW p \in Producers, Enqueue(p), NEW k \in Keys,
         Cardinality(UnderWay(k)) + Cardinality(Checked(k)) <= Cardinality(Producers) + Slots
  PROVE  Cardinality(UnderWay(k)') + Cardinality(Checked(k)') <= Cardinality(Producers) + Slots
<1>1. pc' = [pc EXCEPT ![p] = After(p, TRUE)] /\ After(p, TRUE) # "checked" /\ pc[p] = "checked"
    BY DEF Enqueue, Return, After
<1>2. \A q \in Producers : q # p => want'[q] = want[q]
    BY DEF Enqueue, Return, TypedInv, TypeOK
<1>3. Checked(k)' \subseteq Checked(k) \ {p}
    BY <1>1, <1>2 DEF Checked, TypedInv, TypeOK
<1>4. CASE want[p] # k
    <2>1. UnderWay(k)' \subseteq UnderWay(k)
        BY <1>4 DEF Enqueue, NewJob, UnderWay, TypedInv, TypeOK
    <2> QED
        BY <1>3, <2>1, PileShrinks
<1>5. CASE want[p] = k
    <2>1. UnderWay(k)' \subseteq UnderWay(k) \cup {created + 1}
        BY DEF Enqueue, NewJob, UnderWay, TypedInv, TypeOK
    <2>2. p \in Checked(k)
        BY <1>1, <1>5 DEF Checked
    <2>3. /\ UnderWay(k) \in SUBSET Jobs /\ UnderWay(k)' \in SUBSET Jobs
          /\ Checked(k) \in SUBSET Producers /\ Checked(k)' \in SUBSET Producers
        BY DEF UnderWay, Checked
    <2>4. /\ IsFiniteSet(UnderWay(k)) /\ Cardinality(UnderWay(k)) \in Nat
          /\ Cardinality(UnderWay(k)') \in Nat
        BY <2>3, JobSets
    <2>5. /\ IsFiniteSet(Checked(k)) /\ Cardinality(Checked(k)) \in Nat
          /\ Cardinality(Checked(k)') \in Nat /\ Cardinality(Producers) \in Nat
        BY <2>3, ProducerSets
    <2>6. Cardinality(UnderWay(k)') <= Cardinality(UnderWay(k)) + 1
        <3>0. /\ IsFiniteSet(UnderWay(k) \cup {created + 1})
              /\ Cardinality(UnderWay(k) \cup {created + 1}) =
                    IF created + 1 \in UnderWay(k) THEN Cardinality(UnderWay(k))
                    ELSE Cardinality(UnderWay(k)) + 1
            BY <2>4, FS_AddElement, Zenon
        <3>1. /\ IsFiniteSet(UnderWay(k) \cup {created + 1})
              /\ Cardinality(UnderWay(k) \cup {created + 1}) <= Cardinality(UnderWay(k)) + 1
            BY <2>4, <3>0
        <3>2. /\ Cardinality(UnderWay(k)') <= Cardinality(UnderWay(k) \cup {created + 1})
              /\ Cardinality(UnderWay(k) \cup {created + 1}) \in Nat
            BY <2>1, <3>1, FS_Subset, FS_CardinalityType
        <3> QED
            BY <2>4, <3>1, <3>2
    <2>7. Cardinality(Checked(k)') <= Cardinality(Checked(k)) - 1
        <3>1. /\ IsFiniteSet(Checked(k) \ {p})
              /\ Cardinality(Checked(k) \ {p}) = Cardinality(Checked(k)) - 1
            BY <2>2, <2>5, FS_RemoveElement
        <3> QED
            BY <1>3, <3>1, FS_Subset
    <2> QED
        BY <2>4, <2>5, <2>6, <2>7, ProposalsAssumption DEF ProposalsAssumption
<1> QED
    BY <1>4, <1>5

LEMMA StepStack == TypedInv /\ SlotsInv /\ StackIsBounded /\ [Next]_vars => StackIsBounded'
<1> SUFFICES ASSUME TypedInv, SlotsInv, StackIsBounded, [Next]_vars, NEW k \in Keys \ blind'
             PROVE  Cardinality(UnderWay(k)') + Cardinality(Checked(k)')
                        <= Cardinality(Producers) + Slots
    BY DEF StackIsBounded
<1> DEFINE Shrinks == UnderWay(k)' \subseteq UnderWay(k) /\ Checked(k)' \subseteq Checked(k)
<1>1. blind \subseteq blind'
    BY DEF Next, Check, Enqueue, Alarm, Notify, LambdaFails, ToolCall, SessionEnds, Observe,
           ListConfigs, Scan, MonitorDies, Toggle, Submit, Claim, Gate, Decide, End, Move, vars
<1>2. Cardinality(UnderWay(k)) + Cardinality(Checked(k)) <= Cardinality(Producers) + Slots
    BY <1>1 DEF StackIsBounded
<1>3. ASSUME NEW p \in Producers, Check(p)
      PROVE  Cardinality(UnderWay(k)') + Cardinality(Checked(k)') <= Cardinality(Producers) + Slots
    BY <1>2, <1>3, CheckBounds
<1>4. ASSUME NEW p \in Producers, Enqueue(p)
      PROVE  Cardinality(UnderWay(k)') + Cardinality(Checked(k)') <= Cardinality(Producers) + Slots
    BY <1>2, <1>4, EnqueueKeeps
<1>5. ASSUME NEW a \in Alarms, Alarm(a) \/ Notify(a) \/ LambdaFails(a) PROVE Shrinks
    BY <1>5 DEF Alarm, Notify, LambdaFails, Takes, UnderWay, Checked, TypedInv, TypeOK, Producers,
                jobVars
<1>6. ASSUME NEW s \in Sessions, ToolCall(s) \/ SessionEnds(s) PROVE Shrinks
    BY <1>6 DEF ToolCall, SessionEnds, Takes, UnderWay, Checked, TypedInv, TypeOK, Producers, jobVars
<1>7. ASSUME Observe \/ ListConfigs \/ Scan \/ MonitorDies PROVE Shrinks
    BY <1>7 DEF Observe, ListConfigs, Scan, MonitorDies, Takes, UnderWay, Checked, TypedInv, TypeOK,
                Producers, jobVars
<1>8. ASSUME NEW c \in Scans, Toggle(c) PROVE Shrinks
    BY <1>8 DEF Toggle, UnderWay, Checked, jobVars
<1>9. ASSUME NEW c \in WebKeys, Submit(c) PROVE Shrinks
    BY <1>9 DEF Submit, NewJob, UnderWay, Checked, TypedInv, TypeOK
<1>10. ASSUME NEW j \in Jobs, Claim(j) \/ Gate(j) \/ Decide(j) \/ End(j) PROVE Shrinks
    BY <1>10 DEF Claim, Gate, Decide, End, Move, UnderWay, Checked, TypedInv, TypeOK
<1>11. CASE UNCHANGED vars
    BY <1>11, <1>2 DEF vars, UnderWay, Checked
<1>12. CASE Shrinks
    BY <1>2, <1>12, PileShrinks
<1> HIDE DEF Shrinks
<1> QED
    BY <1>3, <1>4, <1>5, <1>6, <1>7, <1>8, <1>9, <1>10, <1>11, <1>12 DEF Next

LEMMA InitStack == Init => SlotsInv /\ StackIsBounded
<1> SUFFICES ASSUME Init PROVE SlotsInv /\ StackIsBounded
    OBVIOUS
<1>1. Running = {} /\ Cardinality({}) = 0
    BY FS_EmptySet DEF Init, Running
<1>2. ASSUME NEW k \in Keys PROVE UnderWay(k) = {} /\ Checked(k) = {}
    BY DEF Init, UnderWay, Checked
<1>3. Cardinality(Producers) \in Nat /\ Slots \in Nat
    BY ProducerSets, ProposalsAssumption DEF ProposalsAssumption
<1>4. SlotsInv
    BY <1>1, <1>3 DEF SlotsInv
<1>5. ASSUME NEW k \in Keys
      PROVE  Cardinality(UnderWay(k)) + Cardinality(Checked(k)) <= Cardinality(Producers) + Slots
    <2>1. Cardinality(UnderWay(k)) = 0 /\ Cardinality(Checked(k)) = 0
        BY <1>1, <1>2
    <2> QED
        BY <1>3, <2>1
<1> QED
    BY <1>4, <1>5 DEF StackIsBounded

\* The separate look and enqueue of the producers let at most one proposal of an
\* incident slip in for each of them, beside those that run (mcp_server.py:99).
THEOREM PileIsBounded == Spec => []StackIsBounded
  BY InitTyped, StepTyped, InitStack, StepSlots, StepStack, PTL DEF Spec
=============================================================================
