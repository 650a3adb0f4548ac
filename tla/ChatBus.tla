------------------------------ MODULE ChatBus ------------------------------
(***************************************************************************)
(* The conversations of the dashboard: web/app/chat-actions.ts writes what *)
(* a user says, chat_agent.py polls for conversations that wait for an     *)
(* answer and streams one into them, and both use the DynamoDB items of    *)
(* store/chat_store.py.  A conversation is one item with its status and a  *)
(* counter of messages; every message is an item of its own, under the     *)
(* number the counter had.                                                 *)
(*                                                                         *)
(* Sending is two writes: the conversation is set to wait, then the        *)
(* message is put.  Answering is many: claim, read, count, put, chunks,    *)
(* done, reopen.  An agent can be killed between any two of them; systemd  *)
(* starts it again.                                                        *)
(*                                                                         *)
(* Left out: the status done, which nothing in the program sets; the job   *)
(* that an answer may propose; the wording of messages.                    *)
(***************************************************************************)
EXTENDS Integers, FiniteSets

CONSTANTS Convs,       \* the conversations
          Tabs,        \* requests to the dashboard, each sends one message at a time
          Agents,      \* processes of chat_agent
          NoConv,
          MaxSends,    \* bound: messages that users send
          MaxCrashes   \* bound: times an agent is killed

ASSUME ChatAssumption ==
    /\ NoConv \notin Convs
    /\ MaxSends \in Nat
    /\ MaxCrashes \in Nat

VARIABLES status,    \* per conversation: status
          count,     \* per conversation: msg_count
          messages,  \* per conversation: the message items by number
          sending,   \* per tab: the message that is announced and not yet put
          pc,        \* per agent: what it does next
          found,     \* per agent: the conversations its query returned
          conv,      \* per agent: the conversation it has claimed
          prompt,    \* per agent: the numbers of the messages it has read
          aseq,      \* per agent: the number of the answer it writes
          orphans,   \* conversations whose agent was killed
          sent,      \* messages that users have sent
          crashes

chat  == <<status, count, messages>>
agent == <<pc, found, conv, prompt, aseq>>
vars  == <<chat, sending, agent, orphans, sent, crashes>>

Statuses == {"none", "open", "awaiting_agent", "streaming"}

PCs == {"down", "poll", "claim", "read", "reserve", "put", "stream", "finish", "reopen"}

Idle == [conv |-> NoConv, seq |-> 0]

User == [role |-> "user", text |-> TRUE, done |-> TRUE, saw |-> {}]

\* The item of a new answer, without text.  The messages its prompt had are noted
\* here for the properties; the item does not hold them.
Answer(seen) == [role |-> "assistant", text |-> FALSE, done |-> FALSE, saw |-> seen]

\* put_item: the message is there, whatever was there before.
PutMessage(c, k, m) ==
    messages' = [messages EXCEPT ![c] =
                    [i \in DOMAIN messages[c] \cup {k} |->
                        IF i = k THEN m ELSE messages[c][i]]]

Init == /\ status = [c \in Convs |-> "none"]
        /\ count = [c \in Convs |-> 0]
        /\ messages = [c \in Convs |-> [i \in {} |-> User]]
        /\ sending = [t \in Tabs |-> Idle]
        /\ pc = [a \in Agents |-> "down"]
        /\ found = [a \in Agents |-> {}]
        /\ conv = [a \in Agents |-> NoConv]
        /\ prompt = [a \in Agents |-> {}]
        /\ aseq = [a \in Agents |-> 0]
        /\ orphans = {}
        /\ sent = 0
        /\ crashes = 0

-----------------------------------------------------------------------------
(* The dashboard.                                                          *)

Create(c) ==
    /\ status[c] = "none"
    /\ status' = [status EXCEPT ![c] = "open"]
    /\ UNCHANGED <<count, messages, sending, agent, orphans, sent, crashes>>

\* Mutant: a user can write while the agent answers.
AnnounceAnyTime(t, c) ==
    /\ sending[t] = Idle
    /\ status[c] # "none"
    /\ sent < MaxSends
    /\ sent' = sent + 1
    /\ status' = [status EXCEPT ![c] = "awaiting_agent"]
    /\ count' = [count EXCEPT ![c] = @ + 1]
    /\ sending' = [sending EXCEPT ![t] = [conv |-> c, seq |-> count[c]]]
    /\ UNCHANGED <<messages, agent, orphans, crashes>>

\* The first write of a message: refused while the agent answers.
Announce(t, c) ==
    /\ sending[t] = Idle
    /\ status[c] \notin {"none", "streaming"}
    /\ sent < MaxSends
    /\ sent' = sent + 1
    /\ status' = [status EXCEPT ![c] = "awaiting_agent"]
    /\ count' = [count EXCEPT ![c] = @ + 1]
    /\ sending' = [sending EXCEPT ![t] = [conv |-> c, seq |-> count[c]]]
    /\ UNCHANGED <<messages, agent, orphans, crashes>>

\* The second write.
Put(t) ==
    /\ sending[t] # Idle
    /\ PutMessage(sending[t].conv, sending[t].seq, User)
    /\ sending' = [sending EXCEPT ![t] = Idle]
    /\ UNCHANGED <<status, count, agent, orphans, sent, crashes>>

\* The second write fails, or the request ends before it.
PutFails(t) ==
    /\ sending[t] # Idle
    /\ sending' = [sending EXCEPT ![t] = Idle]
    /\ UNCHANGED <<chat, agent, orphans, sent, crashes>>

-----------------------------------------------------------------------------
(* The agent.                                                              *)

Goto(a, p) == pc' = [pc EXCEPT ![a] = p]

Start(a) ==
    /\ pc[a] = "down"
    /\ Goto(a, "poll")
    /\ UNCHANGED <<chat, sending, found, conv, prompt, aseq, orphans, sent, crashes>>

Waiting(c) == status[c] = "awaiting_agent"

\* claim_conversation: the query.
Query(a) ==
    /\ pc[a] = "poll"
    /\ \E c \in Convs : Waiting(c)
    /\ found' = [found EXCEPT ![a] = {c \in Convs : Waiting(c)}]
    /\ Goto(a, "claim")
    /\ UNCHANGED <<chat, sending, conv, prompt, aseq, orphans, sent, crashes>>

\* The query finds nothing: the agent sleeps.
PollNothing(a) ==
    /\ pc[a] = "poll"
    /\ \A c \in Convs : ~Waiting(c)
    /\ UNCHANGED vars

\* Mutant: the update is not conditional.
ClaimableAlways(c) == TRUE

\* The condition of the update.
Claimable(c) == status[c] = "awaiting_agent"

\* claim_conversation: a conditional update for one item of the answer.
ClaimWins(a, c) ==
    /\ pc[a] = "claim"
    /\ c \in found[a]
    /\ Claimable(c)
    /\ status' = [status EXCEPT ![c] = "streaming"]
    /\ conv' = [conv EXCEPT ![a] = c]
    /\ found' = [found EXCEPT ![a] = {}]
    /\ Goto(a, "read")
    /\ UNCHANGED <<count, messages, sending, prompt, aseq, orphans, sent, crashes>>

ClaimLoses(a, c) ==
    /\ pc[a] = "claim"
    /\ c \in found[a]
    /\ ~Claimable(c)
    /\ found' = [found EXCEPT ![a] = @ \ {c}]
    /\ Goto(a, IF found[a] = {c} THEN "poll" ELSE "claim")
    /\ UNCHANGED <<chat, sending, conv, prompt, aseq, orphans, sent, crashes>>

\* Mutant: the prompt stops before the latest message.
ReadButLast(a) == {i \in DOMAIN messages[conv[a]] : i < count[conv[a]] - 1}

ReadAll(a) == DOMAIN messages[conv[a]]

\* list_messages: the prompt is what is there now.
Read(a) ==
    /\ pc[a] = "read"
    /\ prompt' = [prompt EXCEPT ![a] = ReadAll(a)]
    /\ Goto(a, "reserve")
    /\ UNCHANGED <<chat, sending, found, conv, aseq, orphans, sent, crashes>>

\* Mutant: the answer takes the number the counter has, and does not move it.
Counted(c) == count

Count(c) == [count EXCEPT ![c] = @ + 1]

\* start_assistant_message: the number of the answer.
Reserve(a) ==
    /\ pc[a] = "reserve"
    /\ count' = Count(conv[a])
    /\ aseq' = [aseq EXCEPT ![a] = count[conv[a]]]
    /\ Goto(a, "put")
    /\ UNCHANGED <<status, messages, sending, found, conv, prompt, orphans, sent, crashes>>

\* start_assistant_message: its item, still empty.
PutAnswer(a) ==
    /\ pc[a] = "put"
    /\ PutMessage(conv[a], aseq[a], Answer(prompt[a]))
    /\ Goto(a, "stream")
    /\ UNCHANGED <<status, count, sending, found, conv, prompt, aseq, orphans, sent, crashes>>

\* update_item: one attribute of the answer changes.
TheAnswer(a) == messages[conv[a]][aseq[a]]

SetAnswer(a, m) == PutMessage(conv[a], aseq[a], m)

\* append_chunk, for every piece of text.
Chunk(a) ==
    /\ pc[a] = "stream"
    /\ SetAnswer(a, [TheAnswer(a) EXCEPT !.text = TRUE])
    /\ UNCHANGED <<status, count, sending, agent, orphans, sent, crashes>>

\* Claude has ended, with or without a text.
StreamEnds(a) ==
    /\ pc[a] = "stream"
    /\ Goto(a, "finish")
    /\ UNCHANGED <<chat, sending, found, conv, prompt, aseq, orphans, sent, crashes>>

\* Mutant: the answer that fails is not marked as done.
StreamFailsUnmarked(a) ==
    /\ pc[a] = "stream"
    /\ SetAnswer(a, [TheAnswer(a) EXCEPT !.text = TRUE])
    /\ Goto(a, "reopen")
    /\ UNCHANGED <<status, count, sending, found, conv, prompt, aseq, orphans, sent, crashes>>

\* The stream raises: a note of it is one more chunk.
StreamFails(a) ==
    /\ pc[a] = "stream"
    /\ SetAnswer(a, [TheAnswer(a) EXCEPT !.text = TRUE])
    /\ Goto(a, "finish")
    /\ UNCHANGED <<status, count, sending, found, conv, prompt, aseq, orphans, sent, crashes>>

\* finish_turn: the answer.
Finish(a) ==
    /\ pc[a] = "finish"
    /\ SetAnswer(a, [TheAnswer(a) EXCEPT !.done = TRUE])
    /\ Goto(a, "reopen")
    /\ UNCHANGED <<status, count, sending, found, conv, prompt, aseq, orphans, sent, crashes>>

\* Mutant: the agent keeps the conversation.
ForgetNothing(a) == UNCHANGED <<found, conv, prompt, aseq>>

Forget(a) == /\ found' = [found EXCEPT ![a] = {}]
             /\ conv' = [conv EXCEPT ![a] = NoConv]
             /\ prompt' = [prompt EXCEPT ![a] = {}]
             /\ aseq' = [aseq EXCEPT ![a] = 0]

\* finish_turn: the conversation, whatever its status is.
Reopen(a) ==
    /\ pc[a] = "reopen"
    /\ status' = [status EXCEPT ![conv[a]] = "open"]
    /\ Forget(a)
    /\ Goto(a, "poll")
    /\ UNCHANGED <<count, messages, sending, orphans, sent, crashes>>

\* The agent is killed, or an error outside the stream ends it.
Crash(a) ==
    /\ pc[a] # "down"
    /\ crashes < MaxCrashes
    /\ crashes' = crashes + 1
    /\ orphans' = orphans \cup ({conv[a]} \ {NoConv})
    /\ Forget(a)
    /\ Goto(a, "down")
    /\ UNCHANGED <<chat, sending, sent>>

AgentStep(a) ==
    \/ Start(a) \/ Query(a) \/ Read(a) \/ Reserve(a) \/ PutAnswer(a)
    \/ StreamEnds(a) \/ StreamFails(a) \/ Finish(a) \/ Reopen(a)
    \/ \E c \in Convs : ClaimWins(a, c) \/ ClaimLoses(a, c)

Next == \/ \E c \in Convs : Create(c)
        \/ \E t \in Tabs : Put(t) \/ PutFails(t) \/ \E c \in Convs : Announce(t, c)
        \/ \E a \in Agents : AgentStep(a) \/ Chunk(a) \/ PollNothing(a) \/ Crash(a)

\* An agent polls for ever, is started again when it ends, and its runs of
\* Claude end.
Fairness == \A a \in Agents : WF_vars(AgentStep(a))

Spec == Init /\ [][Next]_vars /\ Fairness

-----------------------------------------------------------------------------
(* Properties.                                                             *)

Engaged(a) == pc[a] \in {"read", "reserve", "put", "stream", "finish", "reopen"}

\* The agents between the number of their answer and their last write.
Answering(a) == pc[a] \in {"put", "stream", "finish", "reopen"}

TypeOK ==
    /\ status \in [Convs -> Statuses]
    /\ count \in [Convs -> Nat]
    /\ \A c \in Convs : \A i \in DOMAIN messages[c] :
          /\ i \in 0..(count[c] - 1)
          /\ messages[c][i].saw \subseteq 0..(i - 1)
    /\ \A t \in Tabs : sending[t] = Idle \/ sending[t] \in [conv : Convs, seq : Nat]
    /\ pc \in [Agents -> PCs]
    /\ found \in [Agents -> SUBSET Convs]
    /\ conv \in [Agents -> Convs \cup {NoConv}]
    /\ \A a \in Agents : conv[a] # NoConv <=> Engaged(a)
    /\ \A a \in Agents : found[a] # {} <=> pc[a] = "claim"
    /\ aseq \in [Agents -> Nat]
    /\ orphans \subseteq Convs
    /\ sent \in 0..MaxSends
    /\ crashes \in 0..MaxCrashes

\* A conversation has one agent: two that found it in their queries do not both
\* answer it, and nobody reopens it under the one that does.
OneAgentPerConversation ==
    \A a \in Agents : Engaged(a) =>
        /\ status[conv[a]] = "streaming"
        /\ conv[a] \notin orphans
        /\ \A b \in Agents \ {a} : conv[b] # conv[a]

\* While an answer is being written it is the last message: no user message
\* takes a number after it.
AnswerIsLast ==
    \A a \in Agents : Answering(a) => aseq[a] = count[conv[a]] - 1

\* No two messages share a number: what was sent, and an answer that is done, is
\* never overwritten.
MessagesStay ==
    [][\A c \in Convs : \A i \in DOMAIN messages[c] :
          /\ i \in DOMAIN messages'[c]
          /\ messages[c][i].done => messages'[c][i] = messages[c][i]]_vars

\* When a user can write again, every answer is done, also one that failed: the
\* page shows no answer as still being written.
OpenIsSettled ==
    \A c \in Convs : status[c] # "streaming" =>
        \A i \in DOMAIN messages[c] : messages[c][i].done

\* A message that is there while its conversation waits is read by an agent that
\* finishes its answer, unless that agent is killed.
Answered(c, i) == \E k \in DOMAIN messages[c] : messages[c][k].done /\ i \in messages[c][k].saw

WaitingIsAnswered ==
    \A c \in Convs : \A i \in 0..(2 * MaxSends - 2) :
        (Waiting(c) /\ i \in DOMAIN messages[c] /\ messages[c][i].role = "user")
            ~> (Answered(c, i) \/ c \in orphans)

\* The bus implements the abstract conversations, although a claim is a query and an
\* update for each of its answers, and an answer is started by two writes.
Owed == [c \in Convs |-> {sending[t].seq : t \in {u \in Tabs : sending[u].conv = c}}]

Shown(m) == [role |-> m.role, done |-> m.done]

Log == [c \in Convs |-> [i \in DOMAIN messages[c] |-> Shown(messages[c][i])]]

Stage(a) == CASE pc[a] \in {"read", "reserve", "put"} -> "claimed"
              [] pc[a] \in {"stream", "finish"}       -> "answering"
              [] pc[a] = "reopen"                     -> "answered"
              [] OTHER                                -> "idle"

Turn(a) == [conv |-> conv[a], at |-> Stage(a),
            seq |-> IF Stage(a) \in {"answering", "answered"} THEN aseq[a] ELSE 0]

Lifecycle == INSTANCE ChatLifecycle WITH owed <- Owed, log <- Log,
                                        turn <- [a \in Agents |-> Turn(a)]

ImplementsLifecycle == Lifecycle!Spec

-----------------------------------------------------------------------------
(* What comments of the repository say and the code does not do.           *)

\* chat_store.py, ChatStatus: streaming is followed by open or done.
StreamingEnds == \A c \in Convs : status[c] = "streaming" ~> status[c] = "open"
=============================================================================
