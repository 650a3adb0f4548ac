------------------------- MODULE ClaudeRunnerProofs -------------------------
(***************************************************************************)
(* Theorems about ClaudeRunner for any tools, command lines, schemas and   *)
(* capabilities, and any number of texts and calls: a command that drifts  *)
(* is refused, and a turn that ends well is told whole.                    *)
(***************************************************************************)
EXTENDS ClaudeRunner, TLAPS

Names == Own \cup Others \cup {NoJob}

Calls == [tool  : Plain \cup {"Bash", "propose_job", "list_pending"},
          line  : Lines \cup {NoLine},
          at    : {"asked", "ran", "broke", "refused"},
          names : Names]

Events == {TextEvent(n) : n \in Nat} \cup {UseEvent(i) : i \in Nat} \cup {FinalEvent(n) : n \in Nat}
          \cup {ResultEvent(i, r) : i \in Nat, r \in [error : BOOLEAN, names : Names]}

Typed == /\ calls \in Seq(Calls)
         /\ out \in Seq(Events)
         /\ said \in Nat
         /\ made \subseteq Own

\* A result stands in the stream only after its call has come to an end, and
\* says how.
ResultsAreTrue ==
    \A k \in DOMAIN out : out[k].type = "user" =>
        /\ out[k].id \in DOMAIN calls
        /\ calls[out[k].id].at # "asked"
        /\ out[k].error = (calls[out[k].id].at # "ran")

\* A command ends well only when the stream is at its end and shows no drift.
EndsUndrifted == mode = "command" /\ outcome = "ok" => cli = "ended" /\ ~Drifts

RunnerInv == Typed /\ ResultsAreTrue /\ EndsUndrifted

-----------------------------------------------------------------------------
LEMMA InitRunner == Init => RunnerInv
  BY DEF Init, RunnerInv, Typed, ResultsAreTrue, EndsUndrifted

\* What is appended is the last event, and the others stay.
LEMMA WriteAdds ==
  ASSUME Typed, NEW e \in Events, Write(e)
  PROVE  /\ out' \in Seq(Events)
         /\ DOMAIN out' = DOMAIN out \cup {Len(out) + 1}
         /\ out'[Len(out) + 1] = e
         /\ \A k \in DOMAIN out : out'[k] = out[k]
  BY DEF Typed, Write

\* A line that is no result says nothing of the calls.
LEMMA OtherLine ==
  ASSUME RunnerInv, NEW e \in Events, e.type # "user", Write(e), UNCHANGED calls
  PROVE  ResultsAreTrue'
  BY WriteAdds DEF RunnerInv, ResultsAreTrue, Typed

\* A call that had not ended has no result yet.
LEMMA BecomesKeeps ==
  ASSUME RunnerInv, NEW i \in DOMAIN calls, calls[i].at = "asked",
         NEW at \in {"ran", "broke", "refused"}, NEW j \in Names, Becomes(i, at, j), UNCHANGED out
  PROVE  calls' \in Seq(Calls) /\ ResultsAreTrue'
<1> DEFINE c == [calls[i] EXCEPT !.at = at, !.names = j]
<1>1. calls[i] \in Calls
    BY DEF RunnerInv, Typed
<1>2. c \in Calls
    BY <1>1 DEF Calls
<1>3. calls' = [calls EXCEPT ![i] = c]
    BY DEF Becomes
<1> HIDE DEF c
<1>4. calls' \in Seq(Calls) /\ DOMAIN calls' = DOMAIN calls
    BY <1>2, <1>3 DEF RunnerInv, Typed
<1>5. \A n \in DOMAIN calls : n # i => calls'[n] = calls[n]
    BY <1>3
<1>6. \A k \in DOMAIN out : out[k].type = "user" => out[k].id # i
    BY DEF RunnerInv, ResultsAreTrue
<1> QED
    BY <1>4, <1>5, <1>6 DEF RunnerInv, ResultsAreTrue

\* While the CLI runs no command has ended well.
LEMMA StillRuns ==
  ASSUME RunnerInv, cli = "running", UNCHANGED <<mode, outcome>>
  PROVE  EndsUndrifted'
  BY DEF RunnerInv, EndsUndrifted

LEMMA StepRunner == RunnerInv /\ [Next]_vars => RunnerInv'
<1> SUFFICES ASSUME RunnerInv, [Next]_vars PROVE RunnerInv'
    OBVIOUS
<1> USE RunnerAssumption DEF RunnerAssumption
<1>1. CASE Say
    <2>1. TextEvent(said') \in Events /\ TextEvent(said').type # "user" /\ said' \in Nat
        BY <1>1 DEF Say, Events, TextEvent, RunnerInv, Typed
    <2> QED
        BY <1>1, <2>1, WriteAdds, OtherLine, StillRuns DEF Say, RunnerInv, Typed, runnerVars
<1>2. ASSUME NEW t \in Plain \cup {"Bash", "propose_job", "list_pending"},
             NEW l \in Lines \cup {NoLine}, Ask(t, l)
      PROVE  RunnerInv'
    <2> DEFINE c == [tool |-> t, line |-> l, at |-> "asked", names |-> NoJob]
    <2>1. c \in Calls
        BY DEF Calls, Names
    <2>2. calls' = Append(calls, c)
        BY <1>2 DEF Ask
    <2> HIDE DEF c
    <2>3. /\ calls' \in Seq(Calls)
          /\ \A n \in DOMAIN calls : n \in DOMAIN calls' /\ calls'[n] = calls[n]
        BY <2>1, <2>2 DEF RunnerInv, Typed
    <2>4. UseEvent(Len(calls) + 1) \in Events /\ UseEvent(Len(calls) + 1).type # "user"
        BY DEF Events, UseEvent, RunnerInv, Typed
    <2>5. Write(UseEvent(Len(calls) + 1))
        BY <1>2 DEF Ask
    <2>6. ResultsAreTrue'
        BY <2>3, <2>4, <2>5, WriteAdds DEF ResultsAreTrue, RunnerInv
    <2> QED
        BY <1>2, <2>3, <2>4, <2>5, <2>6, WriteAdds, StillRuns DEF Ask, RunnerInv, Typed, runnerVars
<1>3. CASE AskTool
    BY <1>2, <1>3 DEF AskTool
<1>4. ASSUME NEW i \in 1..MaxCalls, Run(i) PROVE RunnerInv'
    <2>1. PICK at \in {"ran", "broke", "refused"} : Becomes(i, at, NoJob)
        BY <1>4 DEF Run
    <2> QED
        BY <1>4, <2>1, BecomesKeeps, StillRuns DEF Run, RunnerInv, Typed, Names, runnerVars
<1>5. ASSUME NEW i \in 1..MaxCalls, Propose(i) PROVE RunnerInv'
    <2>1. PICK j \in Names : Becomes(i, "ran", j)
        BY <1>5 DEF Propose, Names
    <2>2. made' \subseteq Own
        BY <1>5 DEF Propose, RunnerInv, Typed
    <2> QED
        BY <1>5, <2>1, <2>2, BecomesKeeps, StillRuns DEF Propose, RunnerInv, Typed, runnerVars
<1>6. ASSUME NEW i \in 1..MaxCalls, ListPending(i) PROVE RunnerInv'
    <2>1. PICK j \in Names : Becomes(i, "ran", j)
        BY <1>6 DEF ListPending, Names, RunnerInv, Typed
    <2> QED
        BY <1>6, <2>1, BecomesKeeps, StillRuns DEF ListPending, RunnerInv, Typed, runnerVars
<1>7. ASSUME NEW i \in 1..MaxCalls, Report(i) PROVE RunnerInv'
    <2> DEFINE r == [error |-> calls[i].at # "ran", names |-> calls[i].names]
               e == ResultEvent(i, r)
    <2>1. i \in DOMAIN calls /\ calls[i].at # "asked" /\ calls[i] \in Calls /\ i \in Nat
        BY <1>7 DEF Report, RunnerInv, Typed
    <2>2. r \in [error : BOOLEAN, names : Names]
        BY <2>1 DEF Calls
    <2>3. e.type = "user" /\ e.id = i /\ e.error = (calls[i].at # "ran")
        BY DEF ResultEvent
    <2>4. ASSUME NEW q \in [error : BOOLEAN, names : Names]
          PROVE  ResultEvent(i, q) \in Events
        BY <2>1 DEF Events
    <2>5. e \in Events
        BY <2>2, <2>4
    <2>6. Write(e) /\ UNCHANGED calls
        BY <1>7 DEF Report
    <2> HIDE DEF e
    <2>7. ResultsAreTrue'
        BY <2>1, <2>3, <2>5, <2>6, WriteAdds DEF ResultsAreTrue, RunnerInv
    <2> QED
        BY <1>7, <2>5, <2>6, <2>7, WriteAdds, StillRuns DEF Report, RunnerInv, Typed, runnerVars
<1>8. CASE Final
    <2>1. PICK n \in IF said = 0 THEN {NoText, MaxTexts + 1} ELSE {said} : Write(FinalEvent(n))
        BY <1>8 DEF Final
    <2>2. n \in Nat
        BY <2>1 DEF NoText, RunnerInv, Typed
    <2>3. FinalEvent(n) \in Events /\ FinalEvent(n).type # "user"
        BY <2>2 DEF Events, FinalEvent
    <2>4. EndsUndrifted'
        BY <1>8 DEF Final, RunnerInv, EndsUndrifted, runnerVars
    <2>5. UNCHANGED <<calls, said, made>>
        BY <1>8 DEF Final
    <2>6. ResultsAreTrue'
        BY <2>1, <2>3, <2>5, OtherLine
    <2>7. out' \in Seq(Events)
        BY <2>1, <2>3, WriteAdds DEF RunnerInv
    <2> QED
        BY <2>4, <2>5, <2>6, <2>7 DEF RunnerInv, Typed
<1>9. CASE CliEnds
    BY <1>9 DEF CliEnds, RunnerInv, Typed, ResultsAreTrue, EndsUndrifted, runnerVars
<1>10. CASE HandleEvent \/ ChunkFails \/ TurnEnds
    BY <1>10 DEF HandleEvent, ChunkFails, TurnEnds, RunnerInv, Typed, ResultsAreTrue, EndsUndrifted,
                 cliVars
<1>11. CASE CommandEnds
    <2>1. Drifts' <=> Drifts
        BY <1>11 DEF CommandEnds, cliVars, Drifts, Executed, Failed, Results, Tool, Observed
    <2> QED
        BY <1>11, <2>1 DEF CommandEnds, cliVars, RunnerInv, Typed, ResultsAreTrue, EndsUndrifted
<1>12. CASE Timeout
    BY <1>12 DEF Timeout, RunnerInv, Typed, ResultsAreTrue, EndsUndrifted
<1>13. CASE UNCHANGED vars
    <2>1. Drifts' <=> Drifts
        BY <1>13 DEF vars, Drifts, Executed, Failed, Results, Tool, Observed
    <2> QED
        BY <1>13, <2>1 DEF vars, RunnerInv, Typed, ResultsAreTrue, EndsUndrifted
<1> QED
    BY <1>1, <1>3, <1>4, <1>5, <1>6, <1>7, <1>8, <1>9, <1>10, <1>11, <1>12, <1>13 DEF Next

\* What really ran is among what the worker takes for run.
LEMMA RanIsObserved ==
  ASSUME Typed, ResultsAreTrue, NEW i \in DOMAIN calls, calls[i].at = "ran"
  PROVE  calls[i] \in Executed
  BY DEF ResultsAreTrue, Executed, Failed, Results

LEMMA RefusedFromInv == RunnerInv => DriftIsRefused
<1> SUFFICES ASSUME RunnerInv, mode = "command", outcome = "ok" PROVE DriftIsRefused
    BY DEF DriftIsRefused
<1> DEFINE ran == {calls[i] : i \in {n \in DOMAIN calls : calls[n].at = "ran"}}
<1>1. ran \subseteq Executed
    BY RanIsObserved DEF RunnerInv
<1>2. ~Drifts
    BY DEF RunnerInv, EndsUndrifted
<1>3. \A c \in ran : Tool(c) # NoTool
    BY <1>1, <1>2 DEF Drifts
<1>4. ASSUME \A i \in DOMAIN calls : Tool(calls[i]) \in DOMAIN Capability
      PROVE  {Capability[Tool(c)] : c \in ran} \subseteq {Capability[t] : t \in Allowed}
    <2>1. {Tool(c) : c \in Executed} \subseteq DOMAIN Capability
        BY <1>4 DEF Executed
    <2>2. Observed({Tool(c) : c \in Executed}) = {Capability[t] : t \in {Tool(c) : c \in Executed}}
        BY <2>1 DEF Observed
    <2>3. {Capability[t] : t \in {Tool(c) : c \in Executed}} \subseteq {Capability[t] : t \in Allowed}
        BY <1>2, <2>2 DEF Drifts
    <2> QED
        BY <1>1, <2>3
<1> QED
    BY <1>3, <1>4 DEF DriftIsRefused

\* Whatever the tools and the schemas are, in whatever order the results of the
\* calls come and wherever the stream ends, a call that ran outside the boundary
\* fails its command (worker.py:703).
THEOREM DriftAlwaysRefused == Spec => []DriftIsRefused
  BY InitRunner, StepRunner, RefusedFromInv, PTL DEF Spec

-----------------------------------------------------------------------------
(* A turn.                                                                 *)

IsText(e) == e.type = "assistant" /\ e.kind = "text"

\* The texts are in the stream in their order, each once.
TextsInOrder ==
    /\ \A k \in DOMAIN out : IsText(out[k]) => out[k].text \in 1..said
    /\ \A k, m \in DOMAIN out : IsText(out[k]) /\ IsText(out[m]) =>
                                  (k < m <=> out[k].text < out[m].text)
    /\ \A n \in 1..said : \E k \in DOMAIN out : IsText(out[k]) /\ out[k].text = n

\* The final event is the last one, and has the last text if there is any.
FinalIsLast ==
    \A k \in DOMAIN out : out[k].type = "result" =>
        /\ k = Len(out) /\ cli = "ended"
        /\ out[k].text = said \/ (said = 0 /\ out[k].text = MaxTexts + 1)

\* The results name what their calls name, and those that were read link the turn.
LinksAreTrue ==
    \A k \in DOMAIN out : out[k].type = "user" =>
        /\ out[k].names = calls[out[k].id].names
        /\ k <= read /\ out[k].names # NoJob => linked # NoJob

\* The runner has shown the texts up to where it has read.
ReadInv ==
    /\ read \in 0..Len(out)
    /\ shown \in Seq(Nat) /\ \A n \in DOMAIN shown : shown[n] = n
    /\ Len(shown) <= said
    /\ \A k \in DOMAIN out : IsText(out[k]) => (k <= read <=> out[k].text <= Len(shown))
    /\ \/ parts = shown
       \/ shown = <<>> /\ parts = <<MaxTexts + 1>> /\ said = 0 /\ cli = "ended"
    /\ mode = "turn" /\ outcome = "ok" => cli = "ended" /\ read = Len(out)

TurnInv == TextsInOrder /\ FinalIsLast /\ LinksAreTrue /\ ReadInv

LEMMA InitTurn == Init => TurnInv
<1> SUFFICES ASSUME Init PROVE TurnInv
    OBVIOUS
<1>1. out = <<>> /\ shown = <<>> /\ parts = <<>> /\ said = 0 /\ read = 0 /\ outcome = "none"
    BY DEF Init
<1> QED
    BY <1>1 DEF TurnInv, TextsInOrder, FinalIsLast, LinksAreTrue, ReadInv

\* A line that is neither text nor final.
LEMMA PlainLine ==
  ASSUME RunnerInv, TurnInv, cli = "running", NEW e \in Events, Write(e),
         ~IsText(e), e.type # "result", UNCHANGED <<mode, cli, said, runnerVars>>
  PROVE  TextsInOrder' /\ FinalIsLast' /\ ReadInv'
<1>1. /\ out' \in Seq(Events) /\ DOMAIN out' = DOMAIN out \cup {Len(out) + 1}
      /\ out'[Len(out) + 1] = e /\ \A k \in DOMAIN out : out'[k] = out[k]
    BY WriteAdds DEF RunnerInv
<1>2. Len(out) \in Nat /\ DOMAIN out = 1..Len(out) /\ Len(out') = Len(out) + 1
    BY <1>1 DEF RunnerInv, Typed, Write
<1>3. TextsInOrder'
    <2>1. \A k \in DOMAIN out' : IsText(out'[k]) => k \in DOMAIN out /\ out'[k] = out[k]
        BY <1>1
    <2>2. \A k \in DOMAIN out : k \in DOMAIN out' /\ out'[k] = out[k]
        BY <1>1
    <2> QED
        BY <2>1, <2>2 DEF TurnInv, TextsInOrder, IsText
<1>4. FinalIsLast'
    BY <1>1, <1>2 DEF TurnInv, FinalIsLast
<1>5. ReadInv'
    BY <1>1, <1>2 DEF TurnInv, ReadInv, IsText, runnerVars
<1> QED
    BY <1>3, <1>4, <1>5

\* A call that ends names its job before it has a result.
LEMMA NamesStay ==
  ASSUME RunnerInv, TurnInv, NEW i \in DOMAIN calls, calls[i].at = "asked",
         NEW at, NEW j, Becomes(i, at, j), UNCHANGED <<mode, cli, out, said, runnerVars>>
  PROVE  TurnInv'
<1>1. \A k \in DOMAIN out : out[k].type = "user" => out[k].id # i /\ out[k].id \in DOMAIN calls
    BY DEF RunnerInv, ResultsAreTrue
<1>2. \A n \in DOMAIN calls : n # i => calls'[n] = calls[n]
    BY DEF Becomes
<1>3. LinksAreTrue'
    BY <1>1, <1>2 DEF TurnInv, LinksAreTrue, runnerVars
<1>4. TextsInOrder' /\ FinalIsLast' /\ ReadInv'
    BY DEF TurnInv, TextsInOrder, FinalIsLast, ReadInv, runnerVars, IsText
<1> QED
    BY <1>3, <1>4 DEF TurnInv

LEMMA SayStep ==
  ASSUME RunnerInv, TurnInv, Say
  PROVE  TurnInv'
<1> DEFINE e == TextEvent(said + 1)
<1>1. /\ said \in Nat /\ said' = said + 1 /\ cli = "running" /\ mode = "turn"
      /\ UNCHANGED <<mode, cli, calls, read, shown, parts, linked, outcome>> /\ Write(e)
    BY DEF RunnerInv, Typed, Say, runnerVars
<1>2. e \in Events /\ IsText(e) /\ e.text = said + 1 /\ e.type # "result" /\ e.type # "user"
    BY <1>1 DEF Events, TextEvent, IsText
<1> HIDE DEF e
<1>3. /\ out' \in Seq(Events) /\ DOMAIN out' = DOMAIN out \cup {Len(out) + 1}
      /\ out'[Len(out) + 1] = e /\ \A k \in DOMAIN out : out'[k] = out[k]
    BY <1>1, <1>2, WriteAdds DEF RunnerInv
<1>4. Len(out) \in Nat /\ DOMAIN out = 1..Len(out) /\ Len(out') = Len(out) + 1
    BY <1>1, <1>3 DEF RunnerInv, Typed, Write
<1>5. TextsInOrder'
    <2>1. \A k \in DOMAIN out' : IsText(out'[k]) => out'[k].text \in 1..said'
        BY <1>1, <1>2, <1>3 DEF TurnInv, TextsInOrder
    <2>2. ASSUME NEW k \in DOMAIN out', NEW m \in DOMAIN out', IsText(out'[k]), IsText(out'[m])
          PROVE  k < m <=> out'[k].text < out'[m].text
        <3>1. CASE k \in DOMAIN out /\ m \in DOMAIN out
            BY <1>3, <2>2, <3>1 DEF TurnInv, TextsInOrder
        <3>2. CASE k \in DOMAIN out /\ m = Len(out) + 1
            <4>1. out'[k].text \in 1..said /\ out'[m].text = said + 1 /\ k < m
                BY <1>2, <1>3, <1>4, <2>2, <3>2 DEF TurnInv, TextsInOrder
            <4> QED
                BY <1>1, <4>1
        <3>3. CASE k = Len(out) + 1 /\ m \in DOMAIN out
            <4>1. out'[m].text \in 1..said /\ out'[k].text = said + 1 /\ m < k
                BY <1>2, <1>3, <1>4, <2>2, <3>3 DEF TurnInv, TextsInOrder
            <4> QED
                BY <1>1, <1>4, <3>3, <4>1
        <3>4. CASE k = Len(out) + 1 /\ m = Len(out) + 1
            BY <1>1, <1>2, <1>3, <1>4, <3>4
        <3> QED
            BY <1>3, <2>2, <3>1, <3>2, <3>3, <3>4
    <2>3. ASSUME NEW n \in 1..said' PROVE \E k \in DOMAIN out' : IsText(out'[k]) /\ out'[k].text = n
        <3>1. CASE n = said + 1
            BY <1>2, <1>3, <3>1
        <3>2. CASE n \in 1..said
            BY <1>3, <3>2 DEF TurnInv, TextsInOrder
        <3> QED
            BY <1>1, <2>3, <3>1, <3>2
    <2> QED
        BY <2>1, <2>2, <2>3 DEF TextsInOrder, IsText
<1>6. FinalIsLast'
    BY <1>1, <1>2, <1>3 DEF TurnInv, FinalIsLast
<1>7. LinksAreTrue'
    BY <1>1, <1>2, <1>3 DEF TurnInv, LinksAreTrue
<1>8. ReadInv'
    <2>1. \A k \in DOMAIN out' : IsText(out'[k]) => (k <= read <=> out'[k].text <= Len(shown))
        <3>1. Len(out) + 1 > read /\ e.text > Len(shown)
            BY <1>1, <1>2, <1>4 DEF TurnInv, ReadInv
        <3> QED
            BY <1>1, <1>2, <1>3, <1>4, <3>1 DEF TurnInv, ReadInv
    <2> QED
        BY <1>1, <1>4, <2>1 DEF TurnInv, ReadInv, IsText
<1> QED
    BY <1>5, <1>6, <1>7, <1>8 DEF TurnInv

LEMMA FinalStep ==
  ASSUME RunnerInv, TurnInv, Final
  PROVE  TurnInv'
<1>1. PICK n \in IF said = 0 THEN {NoText, MaxTexts + 1} ELSE {said} : Write(FinalEvent(n))
    BY DEF Final
<1> DEFINE e == FinalEvent(n)
<1>2. /\ cli = "running" /\ cli' = "ended" /\ said \in Nat
      /\ UNCHANGED <<mode, calls, said, read, shown, parts, linked, outcome>>
    BY DEF RunnerInv, Typed, Final, runnerVars
<1>3. n = said \/ (said = 0 /\ n = MaxTexts + 1)
    BY <1>1 DEF NoText
<1>4. n \in Nat
    BY <1>2, <1>3, RunnerAssumption DEF RunnerAssumption
<1>5. e \in Events /\ ~IsText(e) /\ e.type = "result" /\ e.text = n
    BY <1>4 DEF Events, FinalEvent, IsText
<1> HIDE DEF e
<1>6. /\ out' \in Seq(Events) /\ DOMAIN out' = DOMAIN out \cup {Len(out) + 1}
      /\ out'[Len(out) + 1] = e /\ \A k \in DOMAIN out : out'[k] = out[k]
    BY <1>1, <1>5, WriteAdds DEF RunnerInv, e
<1>7. Len(out) \in Nat /\ DOMAIN out = 1..Len(out) /\ Len(out') = Len(out) + 1
    BY <1>1, <1>6 DEF RunnerInv, Typed, Write
<1>8. TextsInOrder'
    <2>1. \A k \in DOMAIN out' : IsText(out'[k]) => k \in DOMAIN out /\ out'[k] = out[k]
        BY <1>5, <1>6
    <2>2. \A k \in DOMAIN out : k \in DOMAIN out' /\ out'[k] = out[k]
        BY <1>6
    <2> QED
        BY <1>2, <2>1, <2>2 DEF TurnInv, TextsInOrder, IsText
<1>9. FinalIsLast'
    <2>1. \A k \in DOMAIN out : out[k].type # "result"
        BY <1>2 DEF TurnInv, FinalIsLast
    <2> QED
        BY <1>2, <1>3, <1>5, <1>6, <1>7, <2>1 DEF FinalIsLast
<1>10. LinksAreTrue'
    BY <1>2, <1>5, <1>6 DEF TurnInv, LinksAreTrue
<1>11. ReadInv'
    BY <1>2, <1>5, <1>6, <1>7 DEF TurnInv, ReadInv, IsText
<1> QED
    BY <1>8, <1>9, <1>10, <1>11 DEF TurnInv

LEMMA ReadStep ==
  ASSUME RunnerInv, TurnInv, HandleEvent
  PROVE  TurnInv'
<1> DEFINE k == read + 1
<1>1. /\ read' = read + 1 /\ outcome = "none" /\ read < Len(out) /\ UNCHANGED <<mode, outcome, cliVars>>
      /\ UNCHANGED <<cli, calls, out, said>>
    BY DEF HandleEvent, cliVars
<1>2. /\ k \in DOMAIN out /\ Len(out) \in Nat /\ DOMAIN out = 1..Len(out) /\ read \in Nat /\ said \in Nat
      /\ out[k] \in Events
    BY <1>1 DEF RunnerInv, Typed, TurnInv, ReadInv
<1>3. TextsInOrder' /\ FinalIsLast'
    BY <1>1 DEF TurnInv, TextsInOrder, FinalIsLast, IsText
<1>4. LinksAreTrue'
    <2>1. linked' = IF out[k].type = "user" /\ linked = NoJob THEN out[k].names ELSE linked
        BY DEF HandleEvent, FirstNamed
    <2> QED
        BY <1>1, <1>2, <2>1 DEF TurnInv, LinksAreTrue
<1>5. CASE IsText(out[k])
    <2>1. shown' = Append(shown, out[k].text) /\ parts' = Append(parts, out[k].text)
        BY <1>5 DEF HandleEvent, IsText
    <2>2. out[k].text \in 1..said /\ Len(shown) \in Nat /\ out[k].text > Len(shown)
        BY <1>2, <1>5 DEF TurnInv, TextsInOrder, ReadInv
    <2>3. out[k].text = Len(shown) + 1
        <3>1. SUFFICES ASSUME out[k].text > Len(shown) + 1 PROVE FALSE
            BY <2>2
        <3>2. PICK m \in DOMAIN out : IsText(out[m]) /\ out[m].text = Len(shown) + 1
            <4>1. Len(shown) + 1 \in 1..said
                BY <1>2, <2>2, <3>1
            <4> QED
                BY <4>1 DEF TurnInv, TextsInOrder
        <3>3. m < k
            BY <1>2, <1>5, <3>1, <3>2 DEF TurnInv, TextsInOrder
        <3>4. m <= read
            BY <1>2, <3>3
        <3>5. out[m].text <= Len(shown)
            BY <3>2, <3>4 DEF TurnInv, ReadInv
        <3> QED
            BY <2>2, <3>2, <3>5
    <2>4. parts' = shown'
        BY <2>1, <2>2 DEF TurnInv, ReadInv
    <2>5. /\ shown' \in Seq(Nat) /\ Len(shown') = Len(shown) + 1
          /\ \A n \in DOMAIN shown' : shown'[n] = n
        BY <2>1, <2>2, <2>3 DEF TurnInv, ReadInv
    <2>6. ASSUME NEW m \in DOMAIN out, IsText(out[m])
          PROVE  m <= read + 1 <=> out[m].text <= Len(shown) + 1
        <3>1. out[m].text \in 1..said /\ (m < k <=> out[m].text < out[k].text)
            BY <1>2, <1>5, <2>6 DEF TurnInv, TextsInOrder
        <3>2. k < m <=> out[k].text < out[m].text
            BY <1>2, <1>5, <2>6 DEF TurnInv, TextsInOrder
        <3> QED
            BY <1>2, <2>2, <2>3, <3>1, <3>2
    <2> QED
        BY <1>1, <1>2, <1>3, <1>4, <2>2, <2>3, <2>4, <2>5, <2>6 DEF TurnInv, ReadInv, IsText
<1>6. CASE ~IsText(out[k])
    <2>1. shown' = shown /\ parts' = IF out[k].type = "result" THEN AnswerOf(parts, out[k]) ELSE parts
        BY <1>6 DEF HandleEvent, IsText
    <2>2. \A m \in DOMAIN out : IsText(out[m]) => (m <= read + 1 <=> out[m].text <= Len(shown))
        BY <1>2, <1>6 DEF TurnInv, ReadInv
    <2>3. \/ parts' = shown
          \/ shown = <<>> /\ parts' = <<MaxTexts + 1>> /\ said = 0 /\ cli = "ended"
        <3>1. CASE parts' = parts
            BY <3>1 DEF TurnInv, ReadInv
        <3>2. CASE parts' # parts
            <4>1. /\ out[k].type = "result" /\ parts = <<>> /\ out[k].text # NoText
                  /\ parts' = <<out[k].text>>
                BY <2>1, <3>2 DEF AnswerOf
            <4>2. shown = <<>>
                BY <4>1 DEF TurnInv, ReadInv
            <4>3. k = Len(out) /\ cli = "ended" /\ (out[k].text = said \/ (said = 0 /\ out[k].text = MaxTexts + 1))
                BY <1>2, <4>1 DEF TurnInv, FinalIsLast
            <4>4. said = 0
                <5>1. SUFFICES ASSUME said # 0 PROVE FALSE
                    OBVIOUS
                <5>2. PICK m \in DOMAIN out : IsText(out[m]) /\ out[m].text = said
                    BY <1>2, <5>1 DEF TurnInv, TextsInOrder
                <5>3. m <= read + 1
                    BY <1>2, <4>3, <5>2
                <5> QED
                    BY <1>2, <2>2, <4>2, <5>1, <5>2, <5>3
            <4> QED
                BY <4>1, <4>2, <4>3, <4>4 DEF NoText
        <3> QED
            BY <3>1, <3>2
    <2> QED
        BY <1>1, <1>2, <1>3, <1>4, <2>1, <2>2, <2>3 DEF TurnInv, ReadInv, IsText
<1> QED
    BY <1>5, <1>6

LEMMA StepTurn == RunnerInv /\ TurnInv /\ [Next]_vars => TurnInv'
<1> SUFFICES ASSUME RunnerInv, TurnInv, [Next]_vars PROVE TurnInv'
    OBVIOUS
<1> USE RunnerAssumption DEF RunnerAssumption
<1>1. ASSUME NEW t \in Plain \cup {"Bash", "propose_job", "list_pending"},
             NEW l \in Lines \cup {NoLine}, Ask(t, l)
      PROVE  TurnInv'
    <2> DEFINE e == UseEvent(Len(calls) + 1)
    <2>1. /\ e \in Events /\ ~IsText(e) /\ e.type # "result" /\ e.type # "user"
          /\ Write(e) /\ cli = "running" /\ UNCHANGED <<mode, cli, said, runnerVars>>
        BY <1>1 DEF Ask, Events, UseEvent, IsText, RunnerInv, Typed
    <2>2. \A n \in DOMAIN calls : calls'[n] = calls[n]
        BY <1>1 DEF Ask, RunnerInv, Typed
    <2> HIDE DEF e
    <2>3. LinksAreTrue'
        BY <2>1, <2>2, WriteAdds DEF RunnerInv, ResultsAreTrue, TurnInv, LinksAreTrue, runnerVars
    <2> QED
        BY <2>1, <2>3, PlainLine DEF TurnInv
<1>2. CASE AskTool
    BY <1>1, <1>2 DEF AskTool
<1>3. ASSUME NEW i \in 1..MaxCalls, Run(i) \/ Propose(i) \/ ListPending(i)
      PROVE  TurnInv'
    <2>1. /\ i \in DOMAIN calls /\ calls[i].at = "asked"
          /\ \E at, j : Becomes(i, at, j)
          /\ UNCHANGED <<mode, cli, out, said, runnerVars>>
        BY <1>3 DEF Run, Propose, ListPending
    <2> QED
        BY <2>1, NamesStay
<1>4. ASSUME NEW i \in 1..MaxCalls, Report(i) PROVE TurnInv'
    <2> DEFINE r == [error |-> calls[i].at # "ran", names |-> calls[i].names]
               e == ResultEvent(i, r)
    <2>1. i \in DOMAIN calls /\ calls[i] \in Calls /\ i \in Nat
        BY <1>4 DEF Report, RunnerInv, Typed
    <2>2. r \in [error : BOOLEAN, names : Names]
        BY <2>1 DEF Calls
    <2>3. ASSUME NEW q \in [error : BOOLEAN, names : Names]
          PROVE  ResultEvent(i, q) \in Events
        BY <2>1 DEF Events
    <2>4. e \in Events
        BY <2>2, <2>3
    <2>5. e.type = "user" /\ e.id = i /\ e.names = calls[i].names /\ ~IsText(e)
        BY DEF ResultEvent, IsText
    <2>6. Write(e) /\ cli = "running" /\ UNCHANGED <<mode, cli, calls, said, runnerVars>>
        BY <1>4 DEF Report
    <2> HIDE DEF e
    <2>7. Len(out) + 1 > read
        BY DEF RunnerInv, Typed, TurnInv, ReadInv
    <2>8. LinksAreTrue'
        <3>1. /\ DOMAIN out' = DOMAIN out \cup {Len(out) + 1}
              /\ out'[Len(out) + 1] = e /\ \A k \in DOMAIN out : out'[k] = out[k]
            BY <2>4, <2>6, WriteAdds DEF RunnerInv
        <3>2. calls' = calls /\ read' = read /\ linked' = linked
            BY <2>6 DEF runnerVars
        <3>3. ~(Len(out) + 1 <= read)
            <4>1. Len(out) \in Nat /\ read \in Nat
                BY DEF RunnerInv, Typed, TurnInv, ReadInv
            <4> QED
                BY <2>7, <4>1
        <3>4. SUFFICES ASSUME NEW k \in DOMAIN out', out'[k].type = "user"
                       PROVE  /\ out'[k].names = calls[out'[k].id].names
                              /\ k <= read /\ out'[k].names # NoJob => linked # NoJob
            BY <3>2 DEF LinksAreTrue
        <3>5. CASE k \in DOMAIN out
            BY <3>1, <3>4, <3>5 DEF TurnInv, LinksAreTrue
        <3>6. CASE k = Len(out) + 1
            <4>1. out'[k] = e
                BY <3>1, <3>6
            <4>2. out'[k].names = calls[out'[k].id].names
                BY <2>5, <4>1
            <4> QED
                BY <3>3, <3>6, <4>2
        <3> QED
            BY <3>1, <3>4, <3>5, <3>6
    <2> QED
        BY <2>4, <2>5, <2>6, <2>8, PlainLine DEF TurnInv
<1>5. CASE CliEnds
    BY <1>5 DEF CliEnds, TurnInv, TextsInOrder, FinalIsLast, LinksAreTrue, ReadInv, IsText, runnerVars
<1>6. CASE ChunkFails \/ TurnEnds \/ CommandEnds
    <2>1. /\ UNCHANGED <<mode, cli, calls, out, said, read, shown, parts, linked>>
          /\ mode' = "turn" /\ outcome' = "ok" => cli' = "ended" /\ read' = Len(out')
        <3>1. CASE ChunkFails
            BY <3>1 DEF ChunkFails, cliVars
        <3>2. CASE TurnEnds
            BY <3>2 DEF TurnEnds, cliVars
        <3>3. CASE CommandEnds
            BY <3>3 DEF CommandEnds, cliVars
        <3> QED
            BY <1>6, <3>1, <3>2, <3>3
    <2>2. TextsInOrder' /\ FinalIsLast' /\ LinksAreTrue'
        BY <2>1 DEF TurnInv, TextsInOrder, FinalIsLast, LinksAreTrue, IsText
    <2>3. ReadInv'
        BY <2>1 DEF TurnInv, ReadInv, IsText
    <2> QED
        BY <2>2, <2>3 DEF TurnInv
<1>7. CASE Timeout
    BY <1>7 DEF Timeout, TurnInv, TextsInOrder, FinalIsLast, LinksAreTrue, ReadInv, IsText
<1>8. CASE UNCHANGED vars
    BY <1>8 DEF vars, TurnInv, TextsInOrder, FinalIsLast, LinksAreTrue, ReadInv, IsText
<1> QED
    BY <1>2, <1>3, <1>4, <1>5, <1>6, <1>7, <1>8, SayStep, FinalStep, ReadStep DEF Next

LEMMA WholeFromInv == RunnerInv /\ TurnInv => TurnIsToldWhole
<1> SUFFICES ASSUME RunnerInv, TurnInv, mode = "turn", outcome = "ok" PROVE TurnIsToldWhole
    BY DEF TurnIsToldWhole
<1>1. /\ read = Len(out) /\ said \in Nat /\ Len(shown) \in Nat /\ Len(shown) <= said
      /\ Len(out) \in Nat /\ DOMAIN out = 1..Len(out)
    BY DEF RunnerInv, Typed, TurnInv, ReadInv
<1>2. Len(shown) = said
    <2>1. SUFFICES ASSUME said > Len(shown) PROVE FALSE
        BY <1>1
    <2>2. PICK k \in DOMAIN out : IsText(out[k]) /\ out[k].text = said
        BY <1>1, <2>1 DEF TurnInv, TextsInOrder
    <2>3. said <= Len(shown)
        BY <1>1, <2>2 DEF TurnInv, ReadInv
    <2> QED
        BY <1>1, <2>1, <2>3
<1>3. shown = Texts
    BY <1>1, <1>2 DEF TurnInv, ReadInv, Texts
<1>4. ASSUME NEW i \in DOMAIN calls, calls[i].names \in made, Reported(i) PROVE linked # NoJob
    <2>1. PICK k \in DOMAIN out : out[k].type = "user" /\ out[k].id = i
        BY <1>4 DEF Reported
    <2>2. out[k].names # NoJob
        BY <1>4, <2>1, RunnerAssumption DEF RunnerAssumption, RunnerInv, Typed, TurnInv, LinksAreTrue
    <2> QED
        BY <1>1, <2>1, <2>2 DEF TurnInv, LinksAreTrue
<1> QED
    BY <1>3, <1>4 DEF TurnIsToldWhole, TurnInv, ReadInv

\* However many texts and calls there are, in whatever order results and texts
\* come and wherever the CLI ends, a turn that ends well has shown each text once
\* and in order, answers with what it has shown or with the final text alone, and
\* is linked if it heard of a job it created (claude_runner.py:443).
THEOREM TurnAlwaysToldWhole == Spec => []TurnIsToldWhole
  BY InitRunner, StepRunner, InitTurn, StepTurn, WholeFromInv, PTL DEF Spec
=============================================================================
