---------------------------- MODULE ClaudeRunner ----------------------------
(***************************************************************************)
(* One run of the Claude CLI and what the runner makes of the events it    *)
(* writes (src/src/app/claude_runner.py).  A turn of a conversation reads  *)
(* them one by one while the CLI runs; a command of the worker reads them  *)
(* when it has ended, behind the command guard's hook, and the worker      *)
(* checks what it observed against what the command may do.                *)
(*                                                                         *)
(* The CLI asks for several tools before the first has answered, and may   *)
(* end at any moment: what ran, what was reported and what was read differ.*)
(***************************************************************************)
EXTENDS Integers, Sequences, FiniteSets, SequencesExt

CONSTANTS Own,        \* jobs that propose_job may create in the turn
          Others,     \* open jobs that list_pending returns beside them
          NoJob,
          Lines,      \* command lines of Bash
          NoLine,     \* the call of another tool
          Plain,      \* tools that are not Bash
          NoTool,     \* no schema or pattern matches the line
          Fits,       \* the tool whose argument schema a line matches
          Heads,      \* the tool whose --allowedTools pattern its head matches
          Granted,    \* --allowedTools of this run
          Allowed,    \* the allowlist of the command
          Capability, \* of every declared tool
          MaxTexts,   \* bound: blocks of text
          MaxCalls    \* bound: tool calls

ASSUME RunnerAssumption ==
    /\ Own \cap Others = {} /\ NoJob \notin Own \cup Others
    /\ NoLine \notin Lines
    /\ Fits \in [Lines -> DOMAIN Capability \cup {NoTool}]
    /\ Heads \in [Lines -> DOMAIN Capability \cup {NoTool}]
    /\ Granted \subseteq Allowed /\ Allowed \subseteq DOMAIN Capability
    /\ NoTool \notin DOMAIN Capability \cup Plain
    /\ MaxTexts \in Nat /\ MaxCalls \in Nat

VARIABLES mode,     \* "turn" or "command"
          guard,    \* the hook and --allowedTools bound what a command runs
          cli,      \* "running", "ended", or "killed"
          calls,    \* the tool calls the CLI made: tool, line, where it is, what it names
          out,      \* the lines it has written
          said,     \* how many of them were text
          read,     \* how many the runner has handled
          shown,    \* the texts on_chunk has received
          parts,    \* the texts of the answer
          linked,   \* proposed_job_id
          made,     \* the jobs the turn has created
          outcome   \* "none", "ok", "failed"

cliVars    == <<cli, calls, out, said, made>>
runnerVars == <<read, shown, parts, linked, outcome>>
vars == <<mode, guard, cli, calls, out, said, read, shown, parts, linked, made, outcome>>

Init == /\ mode \in {"turn", "command"}
        /\ guard \in {mode = "command", FALSE}
        /\ cli = "running"
        /\ calls = <<>>
        /\ out = <<>>
        /\ said = 0
        /\ read = 0
        /\ shown = <<>>
        /\ parts = <<>>
        /\ linked = NoJob
        /\ made = {}
        /\ outcome = "none"

-----------------------------------------------------------------------------
(* The CLI: external, as the runner and the guard describe it.             *)

Write(e) == out' = Append(out, e)

TextEvent(n)      == [type |-> "assistant", kind |-> "text", text |-> n]
UseEvent(i)       == [type |-> "assistant", kind |-> "tool_use", id |-> i]
ResultEvent(i, r) == [type |-> "user", id |-> i, error |-> r.error, names |-> r.names]
FinalEvent(n)     == [type |-> "result", text |-> n]
NoText == 0

Say == /\ cli = "running" /\ mode = "turn" /\ said < MaxTexts
       /\ said' = said + 1
       /\ Write(TextEvent(said'))
       /\ UNCHANGED <<mode, guard, cli, calls, made, runnerVars>>

Ask(tool, line) ==
    /\ cli = "running" /\ Len(calls) < MaxCalls
    /\ calls' = Append(calls, [tool |-> tool, line |-> line, at |-> "asked", names |-> NoJob])
    /\ Write(UseEvent(Len(calls) + 1))
    /\ UNCHANGED <<mode, guard, cli, said, made, runnerVars>>

AskTool == \/ mode = "turn" /\ \E t \in {"propose_job", "list_pending"} : Ask(t, NoLine)
           \/ mode = "command" /\ \E t \in Plain : Ask(t, NoLine)
           \/ mode = "command" /\ \E l \in Lines : Ask("Bash", l)

Becomes(i, at, job) ==
    calls' = [calls EXCEPT ![i] = [@ EXCEPT !.at = at, !.names = job]]

\* hook_decision for a call of Bash.
Denies(line) == Fits[line] = NoTool

\* The hook's deny overrides --allowedTools, whose patterns match the head of a line;
\* some tools need no permission.  A boundary that is gone bounds nothing.
MayRun(c) == guard => IF c.tool = "Bash" THEN ~Denies(c.line) /\ Heads[c.line] \in Granted
                      ELSE c.tool \in Granted \/ c.tool \notin DOMAIN Capability

Run(i) ==
    /\ cli = "running" /\ mode = "command"
    /\ i \in DOMAIN calls /\ calls[i].at = "asked"
    /\ IF MayRun(calls[i]) THEN \E at \in {"ran", "broke"} : Becomes(i, at, NoJob)
       ELSE Becomes(i, "refused", NoJob)
    /\ UNCHANGED <<mode, guard, cli, out, said, made, runnerVars>>

\* propose_job creates a job, unless the proposal is denied or a duplicate.
Propose(i) ==
    /\ cli = "running" /\ i \in DOMAIN calls
    /\ calls[i].tool = "propose_job" /\ calls[i].at = "asked"
    /\ \/ \E j \in Own \ made : made' = made \cup {j} /\ Becomes(i, "ran", j)
       \/ UNCHANGED made /\ Becomes(i, "ran", NoJob)
    /\ UNCHANGED <<mode, guard, cli, out, said, runnerVars>>

\* list_pending names every open job, the newest first.
ListPending(i) ==
    /\ cli = "running" /\ i \in DOMAIN calls
    /\ calls[i].tool = "list_pending" /\ calls[i].at = "asked"
    /\ \E j \in Others \cup made \cup {NoJob} : Becomes(i, "ran", j)
    /\ UNCHANGED <<mode, guard, cli, out, said, made, runnerVars>>

Reported(i) == \E k \in DOMAIN out : out[k].type = "user" /\ out[k].id = i

Report(i) ==
    /\ cli = "running" /\ i \in DOMAIN calls
    /\ calls[i].at # "asked" /\ ~Reported(i)
    /\ Write(ResultEvent(i, [error |-> calls[i].at # "ran", names |-> calls[i].names]))
    /\ UNCHANGED <<mode, guard, cli, calls, said, made, runnerVars>>

\* The last event repeats the last text, or is the only one that has any.
Final == /\ cli = "running"
         /\ \A i \in DOMAIN calls : Reported(i)
         /\ \E n \in IF said = 0 THEN {NoText, MaxTexts + 1} ELSE {said} : Write(FinalEvent(n))
         /\ cli' = "ended"
         /\ UNCHANGED <<mode, guard, calls, said, made, runnerVars>>

\* It ends early.  A turn never asks for its exit code, and a command only words
\* its result by it: both go on with what was written.
CliEnds == /\ cli = "running"
           /\ cli' = "ended"
           /\ UNCHANGED <<mode, guard, calls, out, said, made, runnerVars>>

-----------------------------------------------------------------------------
(* A turn: run_headless_stream.                                            *)

\* Mutant: the final text is taken whether or not there is an answer.
AnswerOfTwice(p, e) == IF e.text # NoText THEN Append(p, e.text) ELSE p

\* The final text is the answer only when nothing else was.
AnswerOf(p, e) == IF p = <<>> /\ e.text # NoText THEN <<e.text>> ELSE p

\* _scan_job_id.
FirstNamed(e) == e.names

HandleEvent ==
    /\ mode = "turn" /\ outcome = "none" /\ read < Len(out)
    /\ read' = read + 1
    /\ LET e == out[read + 1]
       IN  /\ IF e.type = "assistant" /\ e.kind = "text"
              THEN shown' = Append(shown, e.text) /\ parts' = Append(parts, e.text)
              ELSE /\ UNCHANGED shown
                   /\ parts' = IF e.type = "result" THEN AnswerOf(parts, e) ELSE parts
           /\ linked' = IF e.type = "user" /\ linked = NoJob THEN FirstNamed(e) ELSE linked
    /\ UNCHANGED <<mode, guard, cliVars, outcome>>

\* on_chunk raises: the turn ends with what is shown.
ChunkFails ==
    /\ mode = "turn" /\ outcome = "none" /\ read < Len(out)
    /\ out[read + 1].type = "assistant" /\ out[read + 1].kind = "text"
    /\ outcome' = "failed"
    /\ UNCHANGED <<mode, guard, cliVars, read, shown, parts, linked>>

\* The stream is at its end.  A CLI that has closed it and does not exit is killed
\* after the timeout, and the turn fails, link included.
TurnEnds ==
    /\ mode = "turn" /\ outcome = "none"
    /\ cli = "ended" /\ read = Len(out)
    /\ outcome' \in {"ok", "failed"}
    /\ UNCHANGED <<mode, guard, cliVars, read, shown, parts, linked>>

-----------------------------------------------------------------------------
(* A command: run_headless, then the worker's check.                       *)

Results(i) == {k \in DOMAIN out : out[k].type = "user" /\ out[k].id = i}

\* Mutant: the n-th result is the n-th call's.
FailedInOrder(i) ==
    LET results == SelectSeq(out, LAMBDA e : e.type = "user")
    IN  i \in DOMAIN results /\ results[i].error

\* _tool_calls_from_events pairs a call with its own result; none is no error.
Failed(i) == \E k \in Results(i) : out[k].error

\* _resolve_tool_steps: the tool whose schema authorizes the line.
Tool(c) == IF c.tool = "Bash" THEN Fits[c.line] ELSE c.tool

\* The calls that ran, as far as the worker can tell.
Executed == {calls[i] : i \in {n \in DOMAIN calls : ~Failed(n)}}

\* capabilities_for_tools: none when a tool has no declared capability.
Observed(tools) == IF tools \subseteq DOMAIN Capability THEN {Capability[t] : t \in tools} ELSE {}

\* _enforce_observed_capability: a line no schema authorizes, or a capability that
\* no tool of the allowlist has.
Drifts == \/ \E c \in Executed : Tool(c) = NoTool
          \/ ~(Observed({Tool(c) : c \in Executed}) \subseteq {Capability[t] : t \in Allowed})

CommandEnds ==
    /\ mode = "command" /\ outcome = "none"
    /\ cli = "ended"
    /\ outcome' = IF Drifts THEN "failed" ELSE "ok"
    /\ UNCHANGED <<mode, guard, cliVars, read, shown, parts, linked>>

\* The CLI is killed after the timeout; what it wrote is lost.
Timeout ==
    /\ mode = "command" /\ outcome = "none"
    /\ cli = "running"
    /\ cli' = "killed"
    /\ outcome' = "failed"
    /\ UNCHANGED <<mode, guard, calls, out, said, made, read, shown, parts, linked>>

Next == \/ Say \/ AskTool \/ Final \/ CliEnds
        \/ \E i \in 1..MaxCalls : Run(i) \/ Propose(i) \/ ListPending(i) \/ Report(i)
        \/ HandleEvent \/ ChunkFails \/ TurnEnds
        \/ CommandEnds \/ Timeout

Spec == Init /\ [][Next]_vars

-----------------------------------------------------------------------------
Texts == [n \in 1..said |-> n]

\* A turn that ends well has shown every text as it came and gives each of them
\* back once; what it gives back without having shown it is the final text alone.
\* If it created a job and heard of it, the turn is linked to a job
\* (claude_runner.py:443, _handle_stream_event).
TurnIsToldWhole ==
    mode = "turn" /\ outcome = "ok" =>
        /\ shown = Texts
        /\ parts = shown \/ (shown = <<>> /\ parts = <<MaxTexts + 1>>)
        /\ (\E i \in DOMAIN calls : calls[i].names \in made /\ Reported(i)) => linked # NoJob

\* Whether or not the boundary held, a command does not end well after a line that
\* no schema authorizes ran without an error, nor, as long as it used only declared
\* tools, after one with a capability outside the allowlist did, in whatever order
\* the results came and wherever the CLI ended (worker.py:703).
DriftIsRefused ==
    mode = "command" /\ outcome = "ok" =>
        LET ran == {calls[i] : i \in {n \in DOMAIN calls : calls[n].at = "ran"}}
        IN  /\ \A c \in ran : Tool(c) # NoTool
            /\ (\A i \in DOMAIN calls : Tool(calls[i]) \in DOMAIN Capability) =>
                  {Capability[Tool(c)] : c \in ran} \subseteq {Capability[t] : t \in Allowed}

\* The job of a turn is "the job id that the propose_job MCP created during the
\* conversation" (claude_runner.py:376, StreamResult).
LinkedJobIsProposed == outcome = "ok" /\ linked # NoJob => linked \in made
=============================================================================
