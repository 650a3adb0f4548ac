--------------------------- MODULE ChatBusProofs ---------------------------
(***************************************************************************)
(* Theorems about ChatBus for any number of conversations, requests,       *)
(* agents, messages and kills.                                             *)
(***************************************************************************)
EXTENDS ChatBus, TLAPS

-----------------------------------------------------------------------------
(* Who holds a conversation.                                               *)

\* A conversation has no orphaned stream and an agent at the same time.  An agent
\* that answers holds the last number.
ControlInv ==
    /\ status \in [Convs -> Statuses]
    /\ count \in [Convs -> Nat]
    /\ pc \in [Agents -> PCs]
    /\ conv \in [Agents -> Convs \cup {NoConv}]
    /\ found \in [Agents -> SUBSET Convs]
    /\ aseq \in [Agents -> Nat]
    /\ orphans \subseteq Convs
    /\ sent \in 0..MaxSends
    /\ crashes \in 0..MaxCrashes
    /\ \A a \in Agents : conv[a] # NoConv <=> Engaged(a)
    /\ \A a \in Agents : found[a] # {} <=> pc[a] = "claim"
    /\ \A c \in orphans : status[c] = "streaming"
    /\ OneAgentPerConversation
    /\ AnswerIsLast

LEMMA InitControl == Init => ControlInv
  BY ChatAssumption DEF Init, ControlInv, Statuses, PCs, Engaged, Answering,
     OneAgentPerConversation, AnswerIsLast

LEMMA StepControl == ControlInv /\ [Next]_vars => ControlInv'
<1> SUFFICES ASSUME ControlInv, [Next]_vars PROVE ControlInv'
    OBVIOUS
<1> USE ChatAssumption DEF ControlInv, Statuses, PCs, Engaged, Answering,
        OneAgentPerConversation, AnswerIsLast
<1>1. ASSUME NEW c \in Convs, Create(c) PROVE ControlInv'
    BY <1>1 DEF Create, agent
<1>2. ASSUME NEW t \in Tabs, NEW c \in Convs, Announce(t, c) PROVE ControlInv'
    BY <1>2 DEF Announce, agent
<1>3. ASSUME NEW t \in Tabs, Put(t) PROVE ControlInv'
    BY <1>3 DEF Put, agent
<1>4. ASSUME NEW t \in Tabs, PutFails(t) PROVE ControlInv'
    BY <1>4 DEF PutFails, agent, chat
<1>5. ASSUME NEW a \in Agents, Start(a) PROVE ControlInv'
    BY <1>5 DEF Start, Goto, chat
<1>6. ASSUME NEW a \in Agents, Query(a) PROVE ControlInv'
    BY <1>6 DEF Query, Goto, chat
<1>7. ASSUME NEW a \in Agents, NEW c \in Convs, ClaimWins(a, c) PROVE ControlInv'
    BY <1>7 DEF ClaimWins, Claimable, Goto
<1>8. ASSUME NEW a \in Agents, NEW c \in Convs, ClaimLoses(a, c) PROVE ControlInv'
    BY <1>8 DEF ClaimLoses, Goto, chat
<1>9. ASSUME NEW a \in Agents, Read(a) PROVE ControlInv'
    BY <1>9 DEF Read, Goto, chat
<1>10. ASSUME NEW a \in Agents, Reserve(a) PROVE ControlInv'
    BY <1>10 DEF Reserve, Count, Goto
<1>11. ASSUME NEW a \in Agents, PutAnswer(a) PROVE ControlInv'
    BY <1>11 DEF PutAnswer, Goto
<1>12. ASSUME NEW a \in Agents, Chunk(a) PROVE ControlInv'
    BY <1>12 DEF Chunk, agent
<1>13. ASSUME NEW a \in Agents, StreamEnds(a) PROVE ControlInv'
    BY <1>13 DEF StreamEnds, Goto, chat
<1>14. ASSUME NEW a \in Agents, StreamFails(a) PROVE ControlInv'
    BY <1>14 DEF StreamFails, Goto
<1>15. ASSUME NEW a \in Agents, Finish(a) PROVE ControlInv'
    BY <1>15 DEF Finish, Goto
<1>16. ASSUME NEW a \in Agents, Reopen(a) PROVE ControlInv'
    BY <1>16 DEF Reopen, Forget, Goto
<1>17. ASSUME NEW a \in Agents, Crash(a) PROVE ControlInv'
    BY <1>17 DEF Crash, Forget, Goto, chat
<1>18. CASE UNCHANGED vars
    BY <1>18 DEF vars, chat, agent
<1> QED
    BY <1>1, <1>2, <1>3, <1>4, <1>5, <1>6, <1>7, <1>8, <1>9, <1>10, <1>11,
       <1>12, <1>13, <1>14, <1>15, <1>16, <1>17, <1>18
    DEF Next, AgentStep, PollNothing

LEMMA ControlAlways == Spec => []ControlInv
  BY InitControl, StepControl, PTL DEF Spec

\* However the queries of the agents interleave, a conversation has one agent,
\* and nothing reopens it under that agent.
THEOREM AgentIsAlone == Spec => []OneAgentPerConversation
  BY ControlAlways, PTL DEF ControlInv

\* No user message takes a number after an answer that is being written.
THEOREM AnswerStaysLast == Spec => []AnswerIsLast
  BY ControlAlways, PTL DEF ControlInv

-----------------------------------------------------------------------------
(* Who holds a number.                                                     *)

Message == [role : {"user", "assistant"}, text : BOOLEAN, done : BOOLEAN,
            saw : SUBSET Nat]

MessagesOK ==
    /\ messages = [c \in Convs |-> messages[c]]
    /\ \A c \in Convs : \A i \in DOMAIN messages[c] :
          /\ i \in 0..(count[c] - 1)
          /\ messages[c][i] \in Message
          /\ messages[c][i].saw \subseteq 0..(i - 1)

\* A tab holds a number that was given out and has no message, and nobody else
\* holds it.
TabsInv ==
    /\ sending \in [Tabs -> [conv : Convs, seq : Nat] \cup {Idle}]
    /\ \A t \in Tabs : sending[t] # Idle =>
          /\ sending[t].seq < count[sending[t].conv]
          /\ sending[t].seq \notin DOMAIN messages[sending[t].conv]
          /\ \A u \in Tabs \ {t} : sending[u] # sending[t]

\* So does an agent that has yet to put its answer; later its answer is there and
\* not done.
AgentsInv ==
    \A a \in Agents :
       /\ pc[a] = "reserve" => prompt[a] \subseteq 0..(count[conv[a]] - 1)
       /\ pc[a] = "put" =>
             /\ prompt[a] \subseteq 0..(aseq[a] - 1)
             /\ aseq[a] \notin DOMAIN messages[conv[a]]
             /\ \A t \in Tabs : sending[t] # [conv |-> conv[a], seq |-> aseq[a]]
       /\ pc[a] \in {"stream", "finish"} =>
             /\ aseq[a] \in DOMAIN messages[conv[a]]
             /\ ~messages[conv[a]][aseq[a]].done

NumbersInv == prompt = [a \in Agents |-> prompt[a]] /\ MessagesOK /\ TabsInv /\ AgentsInv

LEMMA InitNumbers == Init => NumbersInv
  BY DEF Init, NumbersInv, MessagesOK, TabsInv, AgentsInv, User, Idle

\* What putting one message changes.
LEMMA PutEffect ==
    ASSUME NEW c \in Convs, NEW k, NEW m,
           messages = [d \in Convs |-> messages[d]], PutMessage(c, k, m)
    PROVE  /\ messages' = [d \in Convs |-> messages'[d]]
           /\ \A d \in Convs \ {c} : messages'[d] = messages[d]
           /\ DOMAIN messages'[c] = DOMAIN messages[c] \cup {k}
           /\ messages'[c][k] = m
           /\ \A i \in DOMAIN messages[c] \ {k} : messages'[c][i] = messages[c][i]
  BY DEF PutMessage

\* An agent that changes its answer disturbs no other number.
LEMMA AnswerChanges ==
    ASSUME ControlInv, NumbersInv, NEW a \in Agents, pc[a] \in {"stream", "finish"},
           NEW m \in Message, m.saw = TheAnswer(a).saw, SetAnswer(a, m),
           UNCHANGED <<status, count, sending, found, conv, prompt, aseq>>,
           pc' \in [Agents -> PCs], pc'[a] \in {"stream", "finish", "reopen"},
           pc'[a] = "reopen" \/ ~m.done,
           \A b \in Agents \ {a} : pc'[b] = pc[b]
    PROVE  NumbersInv'
<1>1. conv[a] \in Convs /\ aseq[a] \in DOMAIN messages[conv[a]]
    BY DEF ControlInv, Engaged, NumbersInv, AgentsInv
<1>2. /\ messages' = [d \in Convs |-> messages'[d]]
      /\ \A d \in Convs : DOMAIN messages'[d] = DOMAIN messages[d]
      /\ messages'[conv[a]][aseq[a]] = m
      /\ \A d \in Convs : \A i \in DOMAIN messages[d] :
            (d # conv[a] \/ i # aseq[a]) => messages'[d][i] = messages[d][i]
  <2>1. PutMessage(conv[a], aseq[a], m) /\ messages = [d \in Convs |-> messages[d]]
      BY DEF SetAnswer, NumbersInv, MessagesOK
  <2>2. /\ messages' = [d \in Convs |-> messages'[d]]
        /\ \A d \in Convs \ {conv[a]} : messages'[d] = messages[d]
        /\ DOMAIN messages'[conv[a]] = DOMAIN messages[conv[a]] \cup {aseq[a]}
        /\ messages'[conv[a]][aseq[a]] = m
        /\ \A i \in DOMAIN messages[conv[a]] \ {aseq[a]} :
              messages'[conv[a]][i] = messages[conv[a]][i]
      BY <1>1, <2>1, PutEffect
  <2>3. DOMAIN messages'[conv[a]] = DOMAIN messages[conv[a]]
      BY <1>1, <2>2
  <2> QED
      BY <2>2, <2>3
<1>3. MessagesOK'
    BY <1>1, <1>2 DEF NumbersInv, MessagesOK, TheAnswer
<1>4. TabsInv'
    BY <1>2 DEF NumbersInv, TabsInv
<1>5. \A b \in Agents \ {a} : Engaged(b) => conv[b] # conv[a]
    BY DEF ControlInv, OneAgentPerConversation, Engaged
<1>6. AgentsInv'
    BY <1>1, <1>2, <1>5 DEF NumbersInv, AgentsInv, ControlInv, Engaged
<1> QED
    BY <1>3, <1>4, <1>6 DEF NumbersInv

LEMMA StepNumbers == ControlInv /\ NumbersInv /\ [Next]_vars => NumbersInv'
<1> SUFFICES ASSUME ControlInv, NumbersInv, [Next]_vars PROVE NumbersInv'
    OBVIOUS
<1> USE ChatAssumption DEF NumbersInv
<1>1. ASSUME NEW c \in Convs, Create(c) PROVE NumbersInv'
    BY <1>1 DEF Create, agent, MessagesOK, TabsInv, AgentsInv
<1>2. ASSUME NEW t \in Tabs, NEW c \in Convs, Announce(t, c) PROVE NumbersInv'
  <2>1. /\ count[c] \in Nat
        /\ count' = [count EXCEPT ![c] = @ + 1]
        /\ sending' = [sending EXCEPT ![t] = [conv |-> c, seq |-> count[c]]]
        /\ UNCHANGED <<messages, pc, conv, prompt, aseq>>
      BY <1>2 DEF Announce, agent, ControlInv
  <2>2. MessagesOK'
      BY <2>1 DEF MessagesOK, ControlInv
  <2>3. TabsInv'
      BY <2>1 DEF TabsInv, MessagesOK, ControlInv, Idle
  <2>4. \A a \in Agents : Engaged(a) => conv[a] # c
      BY <1>2 DEF Announce, ControlInv, OneAgentPerConversation
  <2>5. AgentsInv'
      BY <2>1, <2>4 DEF AgentsInv, ControlInv, Engaged
  <2> QED
      BY <2>1, <2>2, <2>3, <2>5
<1>3. ASSUME NEW t \in Tabs, Put(t) PROVE NumbersInv'
  <2> DEFINE c == sending[t].conv
             k == sending[t].seq
  <2>1. /\ sending[t] = [conv |-> c, seq |-> k] /\ c \in Convs /\ k \in Nat
        /\ k < count[c] /\ k \notin DOMAIN messages[c]
        /\ sending[t] # Idle
      BY <1>3 DEF Put, TabsInv
  <2>2. /\ messages' = [d \in Convs |-> messages'[d]]
        /\ \A d \in Convs \ {c} : messages'[d] = messages[d]
        /\ DOMAIN messages'[c] = DOMAIN messages[c] \cup {k}
        /\ messages'[c][k] = User
        /\ \A i \in DOMAIN messages[c] : messages'[c][i] = messages[c][i]
      BY <1>3, <2>1, PutEffect DEF Put, MessagesOK
  <2>3. /\ sending' = [sending EXCEPT ![t] = Idle]
        /\ UNCHANGED <<count, pc, conv, prompt, aseq>>
      BY <1>3 DEF Put, agent
  <2>4. MessagesOK'
    <3>1. User \in Message /\ User.saw = {} /\ count[c] \in Nat
        BY <2>1 DEF User, Message, ControlInv
    <3>2. ASSUME NEW d \in Convs, NEW i \in DOMAIN messages'[d]
          PROVE  /\ i \in 0..(count[d] - 1)
                 /\ messages'[d][i] \in Message
                 /\ messages'[d][i].saw \subseteq 0..(i - 1)
      <4>1. CASE d = c /\ i = k
          BY <2>1, <2>2, <3>1, <4>1
      <4>2. CASE d # c \/ i # k
        <5>1. i \in DOMAIN messages[d] /\ messages'[d][i] = messages[d][i]
            BY <2>2, <3>2, <4>2
        <5> QED
            BY <5>1 DEF MessagesOK
      <4> QED
          BY <4>1, <4>2
    <3> QED
        BY <2>2, <2>3, <3>2 DEF MessagesOK
  <2>5. TabsInv'
      BY <2>1, <2>2, <2>3 DEF TabsInv, Idle
  <2>6. AgentsInv'
      BY <2>1, <2>2, <2>3 DEF AgentsInv, ControlInv, Engaged, TabsInv, Idle
  <2> QED
      BY <2>3, <2>4, <2>5, <2>6
<1>4. ASSUME NEW t \in Tabs, PutFails(t) PROVE NumbersInv'
    BY <1>4 DEF PutFails, agent, chat, MessagesOK, TabsInv, AgentsInv, ControlInv, Engaged,
       Idle
<1>5. ASSUME NEW a \in Agents, Start(a) PROVE NumbersInv'
    BY <1>5 DEF Start, Goto, chat, MessagesOK, TabsInv, AgentsInv, ControlInv
<1>6. ASSUME NEW a \in Agents, Query(a) PROVE NumbersInv'
    BY <1>6 DEF Query, Goto, chat, MessagesOK, TabsInv, AgentsInv, ControlInv
<1>7. ASSUME NEW a \in Agents, NEW c \in Convs, ClaimWins(a, c) PROVE NumbersInv'
    BY <1>7 DEF ClaimWins, Goto, MessagesOK, TabsInv, AgentsInv, ControlInv
<1>8. ASSUME NEW a \in Agents, NEW c \in Convs, ClaimLoses(a, c) PROVE NumbersInv'
    BY <1>8 DEF ClaimLoses, Goto, chat, MessagesOK, TabsInv, AgentsInv, ControlInv
<1>9. ASSUME NEW a \in Agents, Read(a) PROVE NumbersInv'
  <2>1. /\ pc[a] = "read" /\ pc' = [pc EXCEPT ![a] = "reserve"]
        /\ prompt' = [prompt EXCEPT ![a] = DOMAIN messages[conv[a]]]
        /\ UNCHANGED <<count, messages, sending, conv, aseq>>
      BY <1>9 DEF Read, ReadAll, Goto, chat
  <2>2. DOMAIN messages[conv[a]] \subseteq 0..(count[conv[a]] - 1)
      BY <2>1 DEF MessagesOK, ControlInv, Engaged
  <2>3. MessagesOK' /\ TabsInv'
      BY <2>1 DEF MessagesOK, TabsInv
  <2>4. AgentsInv'
      BY <2>1, <2>2 DEF AgentsInv, ControlInv
  <2> QED
      BY <2>1, <2>3, <2>4
<1>10. ASSUME NEW a \in Agents, Reserve(a) PROVE NumbersInv'
  <2> DEFINE c == conv[a]
  <2>1. /\ c \in Convs /\ count[c] \in Nat
        /\ count' = [count EXCEPT ![c] = @ + 1]
        /\ aseq' = [aseq EXCEPT ![a] = count[c]]
        /\ pc' = [pc EXCEPT ![a] = "put"] /\ pc[a] = "reserve"
        /\ UNCHANGED <<messages, sending, conv, prompt>>
      BY <1>10 DEF Reserve, Count, Goto, ControlInv, Engaged
  <2>2. MessagesOK'
      BY <2>1 DEF MessagesOK, ControlInv
  <2>3. TabsInv'
      BY <2>1 DEF TabsInv, ControlInv, Idle
  <2>4. \A b \in Agents \ {a} : Engaged(b) => conv[b] # c
      BY <2>1 DEF ControlInv, OneAgentPerConversation, Engaged
  <2>5. \A t \in Tabs : sending[t] # [conv |-> c, seq |-> count[c]]
      BY <2>1 DEF TabsInv, Idle
  <2>6. count[c] \notin DOMAIN messages[c]
      BY <2>1 DEF MessagesOK
  <2>7. AgentsInv'
      BY <2>1, <2>4, <2>5, <2>6 DEF AgentsInv, ControlInv, Engaged
  <2> QED
      BY <2>1, <2>2, <2>3, <2>7
<1>11. ASSUME NEW a \in Agents, PutAnswer(a) PROVE NumbersInv'
  <2> DEFINE c == conv[a]
             k == aseq[a]
  <2>1. /\ c \in Convs /\ k \in Nat /\ k = count[c] - 1
        /\ prompt[a] \subseteq 0..(k - 1)
        /\ k \notin DOMAIN messages[c]
        /\ \A t \in Tabs : sending[t] # [conv |-> c, seq |-> k]
      BY <1>11 DEF PutAnswer, AgentsInv, ControlInv, Engaged, AnswerIsLast, Answering
  <2>2. /\ messages' = [d \in Convs |-> messages'[d]]
        /\ \A d \in Convs \ {c} : messages'[d] = messages[d]
        /\ DOMAIN messages'[c] = DOMAIN messages[c] \cup {k}
        /\ messages'[c][k] = Answer(prompt[a])
        /\ \A i \in DOMAIN messages[c] : messages'[c][i] = messages[c][i]
      BY <1>11, <2>1, PutEffect DEF PutAnswer, MessagesOK
  <2>3. /\ pc' = [pc EXCEPT ![a] = "stream"] /\ pc[a] = "put"
        /\ UNCHANGED <<count, sending, conv, prompt, aseq>>
      BY <1>11 DEF PutAnswer, Goto
  <2>4. Answer(prompt[a]) \in Message /\ Answer(prompt[a]).saw = prompt[a]
        /\ ~Answer(prompt[a]).done
      BY <2>1 DEF Answer, Message
  <2>5. MessagesOK'
      BY <2>1, <2>2, <2>3, <2>4 DEF MessagesOK, ControlInv
  <2>6. TabsInv'
      BY <2>1, <2>2, <2>3 DEF TabsInv, Idle
  <2>7. \A b \in Agents \ {a} : Engaged(b) => conv[b] # c
      BY <2>3 DEF ControlInv, OneAgentPerConversation, Engaged
  <2>8. AgentsInv'
      BY <2>1, <2>2, <2>3, <2>4, <2>7 DEF AgentsInv, ControlInv, Engaged
  <2> QED
      BY <2>3, <2>5, <2>6, <2>8
<1>12. ASSUME NEW a \in Agents, pc[a] \in {"stream", "finish"}
       PROVE  TheAnswer(a) \in Message /\ (~TheAnswer(a).done)
  <2>1. conv[a] \in Convs
      BY <1>12 DEF ControlInv, Engaged
  <2>2. aseq[a] \in DOMAIN messages[conv[a]] /\ ~messages[conv[a]][aseq[a]].done
      BY <1>12 DEF AgentsInv
  <2> QED
      BY <2>1, <2>2 DEF TheAnswer, MessagesOK
<1>13. ASSUME NEW a \in Agents, Chunk(a) PROVE NumbersInv'
  <2> DEFINE m == [TheAnswer(a) EXCEPT !.text = TRUE]
  <2>1. m \in Message /\ m.saw = TheAnswer(a).saw /\ ~m.done /\ SetAnswer(a, m)
      BY <1>12, <1>13 DEF Chunk, Message
  <2> QED
      BY <1>13, <2>1, AnswerChanges DEF Chunk, agent, ControlInv
<1>14. ASSUME NEW a \in Agents, StreamEnds(a) PROVE NumbersInv'
    BY <1>14 DEF StreamEnds, Goto, chat, MessagesOK, TabsInv, AgentsInv, ControlInv
<1>15. ASSUME NEW a \in Agents, StreamFails(a) PROVE NumbersInv'
  <2> DEFINE m == [TheAnswer(a) EXCEPT !.text = TRUE]
  <2>1. m \in Message /\ m.saw = TheAnswer(a).saw /\ ~m.done /\ SetAnswer(a, m)
      BY <1>12, <1>15 DEF StreamFails, Message
  <2> QED
      BY <1>15, <2>1, AnswerChanges DEF StreamFails, Goto, ControlInv, PCs
<1>16. ASSUME NEW a \in Agents, Finish(a) PROVE NumbersInv'
  <2> DEFINE m == [TheAnswer(a) EXCEPT !.done = TRUE]
  <2>1. m \in Message /\ m.saw = TheAnswer(a).saw /\ SetAnswer(a, m)
      BY <1>12, <1>16 DEF Finish, Message
  <2> QED
      BY <1>16, <2>1, AnswerChanges DEF Finish, Goto, ControlInv, PCs
<1>17. ASSUME NEW a \in Agents, Reopen(a) PROVE NumbersInv'
    BY <1>17 DEF Reopen, Forget, Goto, MessagesOK, TabsInv, AgentsInv, ControlInv
<1>18. ASSUME NEW a \in Agents, Crash(a) PROVE NumbersInv'
    BY <1>18 DEF Crash, Forget, Goto, chat, MessagesOK, TabsInv, AgentsInv, ControlInv
<1>19. CASE UNCHANGED vars
    BY <1>19 DEF vars, chat, agent, MessagesOK, TabsInv, AgentsInv
<1> QED
    BY <1>1, <1>2, <1>3, <1>4, <1>5, <1>6, <1>7, <1>8, <1>9, <1>10, <1>11,
       <1>13, <1>14, <1>15, <1>16, <1>17, <1>18, <1>19
    DEF Next, AgentStep, PollNothing

LEMMA NumbersAlways == Spec => [](ControlInv /\ NumbersInv)
  BY InitControl, StepControl, InitNumbers, StepNumbers, PTL DEF Spec

\* Type correctness, with every message below the counter and every answer made
\* from messages before it.
THEOREM TypeCorrect == Spec => []TypeOK
<1>1. ControlInv /\ NumbersInv => TypeOK
  <2> SUFFICES ASSUME ControlInv, NumbersInv PROVE TypeOK
      OBVIOUS
  <2>1. \A t \in Tabs : sending[t] = Idle \/ sending[t] \in [conv : Convs, seq : Nat]
      BY DEF NumbersInv, TabsInv
  <2> QED
      BY <2>1 DEF TypeOK, ControlInv, NumbersInv, MessagesOK
<1> QED
    BY <1>1, NumbersAlways, PTL

\* A message that is done is never overwritten and no message disappears: the only
\* steps that put a message either hold a number nobody else has, or change an
\* answer that is not done.
MessageStays(c, i) == /\ i \in DOMAIN messages'[c]
                      /\ messages[c][i].done => messages'[c][i] = messages[c][i]

LEMMA PutKeeps ==
    ASSUME NumbersInv, NEW d \in Convs, NEW k, NEW m, PutMessage(d, k, m),
           k \in DOMAIN messages[d] => ~messages[d][k].done
    PROVE  \A c \in Convs : \A i \in DOMAIN messages[c] : MessageStays(c, i)
<1>1. /\ \A c \in Convs \ {d} : messages'[c] = messages[c]
      /\ DOMAIN messages'[d] = DOMAIN messages[d] \cup {k}
      /\ \A i \in DOMAIN messages[d] \ {k} : messages'[d][i] = messages[d][i]
    BY PutEffect DEF NumbersInv, MessagesOK
<1> QED
    BY <1>1 DEF MessageStays

THEOREM NoMessageLost == Spec => MessagesStay
<1>1. ControlInv /\ NumbersInv /\ [Next]_vars =>
        [\A c \in Convs : \A i \in DOMAIN messages[c] : MessageStays(c, i)]_vars
  <2> SUFFICES ASSUME ControlInv, NumbersInv, Next
               PROVE  \A c \in Convs : \A i \in DOMAIN messages[c] : MessageStays(c, i)
      OBVIOUS
  <2>1. CASE UNCHANGED messages
      BY <2>1 DEF MessageStays
  <2>2. ASSUME NEW t \in Tabs, Put(t)
        PROVE  \A c \in Convs : \A i \in DOMAIN messages[c] : MessageStays(c, i)
    <3>1. /\ sending[t].conv \in Convs
          /\ sending[t].seq \notin DOMAIN messages[sending[t].conv]
        BY <2>2 DEF Put, NumbersInv, TabsInv
    <3> QED
        BY <2>2, <3>1, PutKeeps DEF Put
  <2>3. ASSUME NEW a \in Agents, PutAnswer(a)
        PROVE  \A c \in Convs : \A i \in DOMAIN messages[c] : MessageStays(c, i)
    <3>1. conv[a] \in Convs /\ aseq[a] \notin DOMAIN messages[conv[a]]
        BY <2>3 DEF PutAnswer, ControlInv, Engaged, NumbersInv, AgentsInv
    <3> QED
        BY <2>3, <3>1, PutKeeps DEF PutAnswer
  <2>4. ASSUME NEW a \in Agents, Chunk(a) \/ StreamFails(a) \/ Finish(a)
        PROVE  \A c \in Convs : \A i \in DOMAIN messages[c] : MessageStays(c, i)
    <3>1. conv[a] \in Convs /\ ~messages[conv[a]][aseq[a]].done
        BY <2>4 DEF Chunk, StreamFails, Finish, ControlInv, Engaged, NumbersInv, AgentsInv
    <3>2. PICK m : PutMessage(conv[a], aseq[a], m)
        BY <2>4 DEF Chunk, StreamFails, Finish, SetAnswer
    <3> QED
        BY <3>1, <3>2, PutKeeps
  <2> QED
      BY <2>1, <2>2, <2>3, <2>4 DEF Next, AgentStep, PollNothing, Create, Announce,
         PutFails, Start, Query, Read, Reserve, StreamEnds, Reopen, ClaimWins,
         ClaimLoses, Crash, chat, vars
<1> QED
    BY <1>1, NumbersAlways, PTL DEF Spec, MessagesStay, MessageStays

-----------------------------------------------------------------------------
(* What is not finished.                                                   *)

\* An answer that is not done is being written by an agent, or its agent was
\* killed and the conversation is stuck with it.
UnfinishedInv ==
    \A c \in Convs : \A i \in DOMAIN messages[c] : ~messages[c][i].done =>
        \/ c \in orphans
        \/ \E a \in Agents : conv[a] = c /\ aseq[a] = i /\ pc[a] \in {"stream", "finish"}

\* Steps that write no message: who writes an answer goes on with it, or is killed.
LEMMA UnfinishedQuiet ==
    ASSUME UnfinishedInv, UNCHANGED messages, orphans \subseteq orphans',
           \A a \in Agents : pc[a] \in {"stream", "finish"} =>
              \/ conv'[a] = conv[a] /\ aseq'[a] = aseq[a] /\ pc'[a] \in {"stream", "finish"}
              \/ conv[a] \in orphans'
    PROVE  UnfinishedInv'
  BY DEF UnfinishedInv

LEMMA AnswerDone ==
    ASSUME ControlInv, NumbersInv, NEW a \in Agents, pc[a] = "finish"
    PROVE  [TheAnswer(a) EXCEPT !.done = TRUE].done
<1>1. conv[a] \in Convs /\ aseq[a] \in DOMAIN messages[conv[a]]
    BY DEF ControlInv, Engaged, NumbersInv, AgentsInv
<1>2. TheAnswer(a) \in Message
    BY <1>1 DEF TheAnswer, NumbersInv, MessagesOK
<1> QED
    BY <1>2 DEF Message

LEMMA StepUnfinished == ControlInv /\ NumbersInv /\ UnfinishedInv /\ [Next]_vars => UnfinishedInv'
<1> SUFFICES ASSUME ControlInv, NumbersInv, UnfinishedInv, [Next]_vars PROVE UnfinishedInv'
    OBVIOUS
<1>1. ASSUME NEW c \in Convs, Create(c) PROVE UnfinishedInv'
    BY <1>1, UnfinishedQuiet DEF Create, agent
<1>2. ASSUME NEW t \in Tabs, NEW c \in Convs, Announce(t, c) PROVE UnfinishedInv'
    BY <1>2, UnfinishedQuiet DEF Announce, agent
<1>3. ASSUME NEW t \in Tabs, Put(t) PROVE UnfinishedInv'
  <2>1. /\ sending[t].conv \in Convs
        /\ sending[t].seq \notin DOMAIN messages[sending[t].conv]
      BY <1>3 DEF Put, NumbersInv, TabsInv
  <2>2. /\ \A d \in Convs \ {sending[t].conv} : messages'[d] = messages[d]
        /\ DOMAIN messages'[sending[t].conv] = DOMAIN messages[sending[t].conv] \cup {sending[t].seq}
        /\ messages'[sending[t].conv][sending[t].seq].done
        /\ \A i \in DOMAIN messages[sending[t].conv] :
              messages'[sending[t].conv][i] = messages[sending[t].conv][i]
      BY <1>3, <2>1, PutEffect DEF Put, NumbersInv, MessagesOK, User
  <2>3. UNCHANGED <<pc, conv, aseq, orphans>>
      BY <1>3 DEF Put, agent
  <2> QED
      BY <2>1, <2>2, <2>3 DEF UnfinishedInv
<1>4. ASSUME NEW t \in Tabs, PutFails(t) PROVE UnfinishedInv'
    BY <1>4, UnfinishedQuiet DEF PutFails, agent, chat
<1>5. ASSUME NEW a \in Agents, Start(a) \/ Query(a) \/ Read(a) \/ Reserve(a) \/ StreamEnds(a)
      PROVE  UnfinishedInv'
    BY <1>5, UnfinishedQuiet DEF Start, Query, Read, Reserve, StreamEnds, Goto, chat, ControlInv
<1>6. ASSUME NEW a \in Agents, NEW c \in Convs, ClaimWins(a, c) \/ ClaimLoses(a, c)
      PROVE  UnfinishedInv'
    BY <1>6, UnfinishedQuiet DEF ClaimWins, ClaimLoses, Goto, chat, ControlInv
<1>7. ASSUME NEW a \in Agents, PutAnswer(a) PROVE UnfinishedInv'
  <2>1. conv[a] \in Convs /\ aseq[a] \notin DOMAIN messages[conv[a]]
      BY <1>7 DEF PutAnswer, ControlInv, Engaged, NumbersInv, AgentsInv
  <2>2. /\ \A d \in Convs \ {conv[a]} : messages'[d] = messages[d]
        /\ DOMAIN messages'[conv[a]] = DOMAIN messages[conv[a]] \cup {aseq[a]}
        /\ \A i \in DOMAIN messages[conv[a]] : messages'[conv[a]][i] = messages[conv[a]][i]
      BY <1>7, <2>1, PutEffect DEF PutAnswer, NumbersInv, MessagesOK
  <2>3. pc[a] = "put" /\ pc' = [pc EXCEPT ![a] = "stream"] /\ UNCHANGED <<conv, aseq, orphans>>
      BY <1>7 DEF PutAnswer, Goto
  <2> QED
      BY <2>1, <2>2, <2>3 DEF UnfinishedInv, ControlInv
<1>8. ASSUME NEW a \in Agents, Chunk(a) \/ StreamFails(a) \/ Finish(a) PROVE UnfinishedInv'
  <2>1. pc[a] \in {"stream", "finish"}
      BY <1>8 DEF Chunk, StreamFails, Finish
  <2>2. conv[a] \in Convs /\ aseq[a] \in DOMAIN messages[conv[a]]
      BY <2>1 DEF ControlInv, Engaged, NumbersInv, AgentsInv
  <2>3. PICK m : /\ PutMessage(conv[a], aseq[a], m)
                 /\ m.done \/ ~Finish(a)
      BY <1>8, AnswerDone DEF Chunk, StreamFails, Finish, SetAnswer
  <2>4. /\ \A d \in Convs \ {conv[a]} : messages'[d] = messages[d]
        /\ DOMAIN messages'[conv[a]] = DOMAIN messages[conv[a]]
        /\ messages'[conv[a]][aseq[a]] = m
        /\ \A i \in DOMAIN messages[conv[a]] \ {aseq[a]} :
              messages'[conv[a]][i] = messages[conv[a]][i]
    <3>1. DOMAIN messages'[conv[a]] = DOMAIN messages[conv[a]] \cup {aseq[a]}
        BY <2>2, <2>3, PutEffect DEF NumbersInv, MessagesOK
    <3>2. DOMAIN messages'[conv[a]] = DOMAIN messages[conv[a]]
        BY <2>2, <3>1
    <3> QED
        BY <2>2, <2>3, <3>2, PutEffect DEF NumbersInv, MessagesOK
  <2>5. /\ UNCHANGED <<conv, aseq, orphans>>
        /\ \A b \in Agents \ {a} : pc'[b] = pc[b]
        /\ pc'[a] \in {"stream", "finish"} \/ Finish(a)
      BY <1>8 DEF Chunk, StreamFails, Finish, Goto, agent, ControlInv
  <2>6. \A b \in Agents \ {a} : pc[b] \in {"stream", "finish"} => conv[b] # conv[a]
      BY <2>1 DEF ControlInv, OneAgentPerConversation, Engaged
  <2> QED
      BY <2>2, <2>3, <2>4, <2>5, <2>6 DEF UnfinishedInv
<1>9. ASSUME NEW a \in Agents, Reopen(a) PROVE UnfinishedInv'
    BY <1>9, UnfinishedQuiet DEF Reopen, Forget, Goto, ControlInv
<1>10. ASSUME NEW a \in Agents, Crash(a) PROVE UnfinishedInv'
  <2>1. /\ \A b \in Agents \ {a} : pc'[b] = pc[b] /\ conv'[b] = conv[b] /\ aseq'[b] = aseq[b]
        /\ orphans' = orphans \cup ({conv[a]} \ {NoConv})
        /\ UNCHANGED messages
      BY <1>10 DEF Crash, Forget, Goto, chat, ControlInv
  <2>2. pc[a] \in {"stream", "finish"} => conv[a] \in orphans'
      BY <2>1 DEF ControlInv, Engaged
  <2> QED
      BY <2>1, <2>2, UnfinishedQuiet
<1>11. CASE UNCHANGED vars
    BY <1>11, UnfinishedQuiet DEF vars, chat, agent
<1> QED
    BY <1>1, <1>2, <1>3, <1>4, <1>5, <1>6, <1>7, <1>8, <1>9, <1>10, <1>11
    DEF Next, AgentStep, PollNothing

LEMMA InitUnfinished == Init => UnfinishedInv
  BY DEF Init, UnfinishedInv

\* When a user can write again, every answer is done: nothing else than a killed
\* agent leaves one unfinished, and its conversation then stays closed.
THEOREM NothingHalfWritten == Spec => []OpenIsSettled
<1>1. ControlInv /\ UnfinishedInv => OpenIsSettled
    BY DEF ControlInv, UnfinishedInv, OpenIsSettled, OneAgentPerConversation, Engaged
<1> QED
    BY <1>1, InitUnfinished, StepUnfinished, NumbersAlways, PTL DEF Spec

-----------------------------------------------------------------------------
(* The bus implements the abstract conversations.                          *)

Turns == [a \in Agents |-> Turn(a)]

\* What is not done is an answer.
RolesInv == \A c \in Convs : \A i \in DOMAIN messages[c] :
               ~messages[c][i].done => messages[c][i].role = "assistant"

\* An agent at its answer holds it, unfinished, and it is an assistant's.
LEMMA AnswerIs ==
    ASSUME ControlInv, NumbersInv, RolesInv, NEW a \in Agents, pc[a] \in {"stream", "finish"}
    PROVE  /\ conv[a] \in Convs /\ aseq[a] \in DOMAIN messages[conv[a]]
           /\ TheAnswer(a) \in Message
           /\ TheAnswer(a).role = "assistant" /\ ~TheAnswer(a).done
<1>1. conv[a] \in Convs /\ aseq[a] \in DOMAIN messages[conv[a]] /\ ~TheAnswer(a).done
    BY DEF ControlInv, Engaged, NumbersInv, AgentsInv, TheAnswer
<1> QED
    BY <1>1 DEF TheAnswer, NumbersInv, MessagesOK, RolesInv

\* A message that is put is written to the abstract log.
LEMMA PutIsWrite ==
    ASSUME NumbersInv, NEW c \in Convs, NEW k, NEW m, PutMessage(c, k, m)
    PROVE  Lifecycle!Write(c, k, Shown(m))
<1>1. /\ messages' = [d \in Convs |-> messages'[d]]
      /\ \A d \in Convs \ {c} : messages'[d] = messages[d]
      /\ DOMAIN messages'[c] = DOMAIN messages[c] \cup {k}
      /\ messages'[c][k] = m
      /\ \A i \in DOMAIN messages[c] \ {k} : messages'[c][i] = messages[c][i]
    BY PutEffect DEF NumbersInv, MessagesOK
<1> DEFINE L(i) == IF i = k THEN Shown(m) ELSE Log[c][i]
           E == [i \in DOMAIN Log[c] \cup {k} |-> L(i)]
<1>2. Log'[c] = E
  <2>1. Log'[c] = [i \in DOMAIN messages[c] \cup {k} |-> Shown(messages'[c][i])]
      BY <1>1 DEF Log
  <2>2. DOMAIN Log[c] = DOMAIN messages[c]
      BY DEF Log
  <2>3. \A i \in DOMAIN messages[c] \cup {k} : Shown(messages'[c][i]) = L(i)
      BY <1>1 DEF Log
  <2> QED
      BY <2>1, <2>2, <2>3
<1>3. \A d \in Convs \ {c} : Log'[d] = Log[d]
    BY <1>1 DEF Log
<1>4. Log' = [Log EXCEPT ![c] = E]
    BY <1>2, <1>3 DEF Log
<1> QED
    BY <1>4 DEF Lifecycle!Write

\* Writing what is there already changes nothing in the abstract log.
LEMMA SameShown ==
    ASSUME NumbersInv, NEW c \in Convs, NEW k \in DOMAIN messages[c], NEW m,
           PutMessage(c, k, m), Shown(m) = Shown(messages[c][k])
    PROVE  UNCHANGED Log
<1>1. /\ \A d \in Convs \ {c} : messages'[d] = messages[d]
      /\ DOMAIN messages'[c] = DOMAIN messages[c]
      /\ \A i \in DOMAIN messages[c] : Shown(messages'[c][i]) = Shown(messages[c][i])
  <2>1. /\ \A d \in Convs \ {c} : messages'[d] = messages[d]
        /\ DOMAIN messages'[c] = DOMAIN messages[c] \cup {k}
        /\ messages'[c][k] = m
        /\ \A i \in DOMAIN messages[c] \ {k} : messages'[c][i] = messages[c][i]
      BY PutEffect DEF NumbersInv, MessagesOK
  <2>2. DOMAIN messages'[c] = DOMAIN messages[c]
      BY <2>1
  <2> QED
      BY <2>1, <2>2
<1>2. \A d \in Convs : Log'[d] = Log[d]
    BY <1>1 DEF Log
<1> QED
    BY <1>2 DEF Log

\* A step of one agent leaves the turns of the others alone.
LEMMA OthersTurns ==
    ASSUME NEW a \in Agents,
           \A b \in Agents \ {a} : pc'[b] = pc[b] /\ conv'[b] = conv[b] /\ aseq'[b] = aseq[b]
    PROVE  Turns' = [Turns EXCEPT ![a] = Turn(a)']
<1>1. \A b \in Agents \ {a} : Turn(b)' = Turn(b)
    BY DEF Turn, Stage
<1> QED
    BY <1>1 DEF Turns

LEMMA InitRoles == Init => RolesInv
  BY DEF Init, RolesInv

LEMMA RolesStay ==
    ASSUME NumbersInv, RolesInv, NEW c \in Convs, NEW k, NEW m, PutMessage(c, k, m),
           m.done \/ m.role = "assistant"
    PROVE  RolesInv'
<1>1. /\ \A d \in Convs \ {c} : messages'[d] = messages[d]
      /\ DOMAIN messages'[c] = DOMAIN messages[c] \cup {k}
      /\ messages'[c][k] = m
      /\ \A i \in DOMAIN messages[c] \ {k} : messages'[c][i] = messages[c][i]
    BY PutEffect DEF NumbersInv, MessagesOK
<1> QED
    BY <1>1 DEF RolesInv

LEMMA StepRoles == ControlInv /\ NumbersInv /\ RolesInv /\ [Next]_vars => RolesInv'
<1> SUFFICES ASSUME ControlInv, NumbersInv, RolesInv, [Next]_vars PROVE RolesInv'
    OBVIOUS
<1>1. CASE UNCHANGED messages
    BY <1>1 DEF RolesInv
<1>2. ASSUME NEW t \in Tabs, Put(t) PROVE RolesInv'
    BY <1>2, RolesStay DEF Put, NumbersInv, TabsInv, User
<1>3. ASSUME NEW a \in Agents, PutAnswer(a) PROVE RolesInv'
    BY <1>3, RolesStay DEF PutAnswer, ControlInv, Engaged, Answer
<1>4. ASSUME NEW a \in Agents, Chunk(a) \/ StreamFails(a) \/ Finish(a) PROVE RolesInv'
  <2>1. /\ conv[a] \in Convs /\ TheAnswer(a) \in Message /\ TheAnswer(a).role = "assistant"
      BY <1>4, AnswerIs DEF Chunk, StreamFails, Finish
  <2>2. PICK m : PutMessage(conv[a], aseq[a], m) /\ m.role = "assistant"
      BY <1>4, <2>1 DEF Chunk, StreamFails, Finish, SetAnswer, Message
  <2> QED
      BY <2>1, <2>2, RolesStay
<1> QED
    BY <1>1, <1>2, <1>3, <1>4 DEF Next, AgentStep, PollNothing, Create, Announce,
       PutFails, Start, Query, Read, Reserve, StreamEnds, Reopen, ClaimWins,
       ClaimLoses, Crash, chat, vars

LEMMA InitRefines == Init => Lifecycle!Init
<1> SUFFICES ASSUME Init PROVE Lifecycle!Init
    OBVIOUS
<1>1. Owed = [c \in Convs |-> {}]
    BY ChatAssumption DEF Init, Owed, Idle
<1>2. Log = [c \in Convs |-> [i \in {} |-> Lifecycle!Said]]
    BY DEF Init, Log
<1>3. [a \in Agents |-> Turn(a)] = [a \in Agents |-> Lifecycle!NoTurn]
    BY DEF Init, Turn, Stage, Lifecycle!NoTurn
<1> QED
    BY <1>1, <1>2, <1>3 DEF Init, Lifecycle!Init

LEMMA OwedIs ==
  /\ Owed = [d \in Convs |-> Owed[d]]
  /\ \A d \in Convs : \A x : x \in Owed[d] <=> \E u \in Tabs : sending[u].conv = d /\ sending[u].seq = x
  BY DEF Owed

LEMMA OwedIsNext ==
  /\ Owed' = [d \in Convs |-> Owed'[d]]
  /\ \A d \in Convs : \A x : x \in Owed'[d] <=> \E u \in Tabs : sending'[u].conv = d /\ sending'[u].seq = x
  BY DEF Owed

\* The numbers that are announced: one more, or one less.
LEMMA OwedGrows ==
    ASSUME NEW t \in Tabs, NEW c \in Convs, NEW k, sending[t] = Idle,
           sending = [u \in Tabs |-> sending[u]],
           sending' = [sending EXCEPT ![t] = [conv |-> c, seq |-> k]]
    PROVE  Owed' = [Owed EXCEPT ![c] = @ \cup {k}]
<1>1. Idle.conv \notin Convs
    BY ChatAssumption DEF Idle
<1>2. \A u \in Tabs : sending'[u] = IF u = t THEN [conv |-> c, seq |-> k] ELSE sending[u]
    OBVIOUS
<1>3. \A d \in Convs \ {c} : Owed'[d] = Owed[d]
  <2> SUFFICES ASSUME NEW d \in Convs \ {c}, NEW x PROVE x \in Owed'[d] <=> x \in Owed[d]
      OBVIOUS
  <2>1. \A u \in Tabs : sending'[u].conv = d /\ sending'[u].seq = x
                          <=> sending[u].conv = d /\ sending[u].seq = x
      BY <1>1, <1>2
  <2> QED
      BY <2>1, OwedIs, OwedIsNext
<1>4. Owed'[c] = Owed[c] \cup {k}
  <2> SUFFICES ASSUME NEW x PROVE x \in Owed'[c] <=> x \in Owed[c] \/ x = k
      OBVIOUS
  <2>1. \A u \in Tabs \ {t} : sending'[u] = sending[u]
      BY <1>2
  <2>2. sending'[t].conv = c /\ sending'[t].seq = k /\ sending[t].conv # c
      BY <1>1, <1>2
  <2> QED
      BY <2>1, <2>2, OwedIs, OwedIsNext
<1> QED
    BY <1>3, <1>4, OwedIs, OwedIsNext

LEMMA OwedShrinks ==
    ASSUME NumbersInv, NEW t \in Tabs, sending[t] # Idle, sending' = [sending EXCEPT ![t] = Idle]
    PROVE  /\ sending[t].conv \in Convs /\ sending[t].seq \in Owed[sending[t].conv]
           /\ Owed' = [Owed EXCEPT ![sending[t].conv] = @ \ {sending[t].seq}]
<1> DEFINE c == sending[t].conv
           k == sending[t].seq
<1>1. /\ c \in Convs /\ sending = [u \in Tabs |-> sending[u]]
      /\ \A u \in Tabs \ {t} : sending[u].conv = c => sending[u].seq # k
  <2>1. /\ sending \in [Tabs -> [conv : Convs, seq : Nat] \cup {Idle}]
        /\ \A u \in Tabs \ {t} : sending[u] # sending[t]
      BY DEF NumbersInv, TabsInv
  <2>2. sending[t] = [conv |-> c, seq |-> k] /\ c \in Convs
      BY <2>1
  <2>3. \A u \in Tabs : sending[u].conv = c => sending[u] = [conv |-> c, seq |-> sending[u].seq]
      BY <2>1, <2>2, ChatAssumption DEF Idle
  <2> QED
      BY <2>1, <2>2, <2>3
<1>2. Idle.conv \notin Convs
    BY ChatAssumption DEF Idle
<1>3. \A u \in Tabs : sending'[u] = IF u = t THEN Idle ELSE sending[u]
    BY <1>1
<1>4. \A d \in Convs \ {c} : Owed'[d] = Owed[d]
  <2> SUFFICES ASSUME NEW d \in Convs \ {c}, NEW x PROVE x \in Owed'[d] <=> x \in Owed[d]
      OBVIOUS
  <2>1. \A u \in Tabs : sending'[u].conv = d /\ sending'[u].seq = x
                          <=> sending[u].conv = d /\ sending[u].seq = x
      BY <1>2, <1>3
  <2> QED
      BY <2>1, OwedIs, OwedIsNext
<1>5. Owed'[c] = Owed[c] \ {k}
  <2> SUFFICES ASSUME NEW x PROVE x \in Owed'[c] <=> x \in Owed[c] /\ x # k
      OBVIOUS
  <2>1. \A u \in Tabs : sending'[u].conv = c /\ sending'[u].seq = x
                          <=> u # t /\ sending[u].conv = c /\ sending[u].seq = x
      BY <1>1, <1>2, <1>3
  <2>2. \A u \in Tabs : sending[u].conv = c /\ sending[u].seq = x => (u # t <=> x # k)
      BY <1>1
  <2>3. x \in Owed'[c] <=> \E u \in Tabs : u # t /\ sending[u].conv = c /\ sending[u].seq = x
      BY <1>1, <2>1, OwedIsNext
  <2>4. x \in Owed[c] <=> \E u \in Tabs : sending[u].conv = c /\ sending[u].seq = x
      BY <1>1, OwedIs
  <2> QED
      BY <2>2, <2>3, <2>4
<1>6. k \in Owed[c]
    BY <1>1, OwedIs
<1>7. Owed' = [Owed EXCEPT ![c] = @ \ {k}]
    BY <1>1, <1>4, <1>5, OwedIs, OwedIsNext
<1> QED
    BY <1>1, <1>6, <1>7

\* Who takes, starts, ends and gives back a turn.
LEMMA StepRefines ==
  ControlInv /\ NumbersInv /\ RolesInv /\ [Next]_vars => [Lifecycle!Next]_(Lifecycle!vars)
<1> SUFFICES ASSUME ControlInv, NumbersInv, RolesInv, [Next]_vars,
                    ~UNCHANGED <<status, Owed, Log, Turns>>
             PROVE  Lifecycle!Next
    BY DEF Lifecycle!vars, Turns
<1>a. UNCHANGED messages => UNCHANGED Log
    BY DEF Log
<1>b. UNCHANGED sending => UNCHANGED Owed
    BY DEF Owed
<1>c. UNCHANGED <<pc, conv, aseq>> => UNCHANGED Turns
    BY DEF Turns, Turn, Stage
<1>d. /\ status \in [Convs -> Statuses] /\ count \in [Convs -> Nat]
      /\ pc \in [Agents -> PCs] /\ conv \in [Agents -> Convs \cup {NoConv}]
      /\ aseq \in [Agents -> Nat]
      /\ \A a \in Agents : conv[a] # NoConv <=> Engaged(a)
    BY DEF ControlInv
<1>e. \A c \in Convs : \A k \in DOMAIN Log[c] \cup Owed[c] : k \in 0..(count[c] - 1)
  <2> SUFFICES ASSUME NEW c \in Convs, NEW k \in DOMAIN Log[c] \cup Owed[c]
               PROVE  k \in 0..(count[c] - 1)
      OBVIOUS
  <2>1. CASE k \in DOMAIN Log[c]
      BY <2>1 DEF Log, NumbersInv, MessagesOK
  <2>2. CASE k \in Owed[c]
    <3>1. PICK t \in Tabs : sending[t].conv = c /\ sending[t].seq = k
        BY <2>2, OwedIs
    <3>2. sending[t] \in [conv : Convs, seq : Nat] /\ k < count[c]
        BY <3>1, ChatAssumption DEF NumbersInv, TabsInv, Idle
    <3> QED
        BY <1>d, <3>1, <3>2
  <2> QED
      BY <2>1, <2>2
<1>f. \A a \in Agents : /\ Turns[a] = Turn(a)
                        /\ Turn(a).conv = conv[a] /\ Turn(a).at = Stage(a)
    BY DEF Turns, Turn
<1>1. ASSUME NEW c \in Convs, Create(c) PROVE Lifecycle!Create(c)
    BY <1>1, <1>a, <1>b, <1>c DEF Create, agent, Lifecycle!Create, Turns
<1>2. ASSUME NEW t \in Tabs, NEW c \in Convs, Announce(t, c) PROVE Lifecycle!Announce(c)
  <2>1. /\ status[c] \in {"open", "awaiting_agent"}
        /\ status' = [status EXCEPT ![c] = "awaiting_agent"]
      BY <1>2, <1>d DEF Announce, Statuses
  <2>2. UNCHANGED <<Log, Turns>>
      BY <1>2, <1>a, <1>c DEF Announce, agent
  <2>3. Owed' = [Owed EXCEPT ![c] = @ \cup {count[c]}]
      BY <1>2, OwedGrows DEF Announce, NumbersInv, TabsInv
  <2>4. count[c] \in Owed'[c]
      BY <2>3, OwedIs
  <2>5. Lifecycle!Last(c, count[c])
      BY <1>d, <1>e DEF Lifecycle!Last
  <2> QED
      BY <2>1, <2>2, <2>3, <2>4, <2>5 DEF Lifecycle!Announce, Turns
<1>3. ASSUME NEW t \in Tabs, Put(t) PROVE \E c \in Convs : Lifecycle!Arrive(c)
  <2> DEFINE c == sending[t].conv
             k == sending[t].seq
  <2>1. /\ c \in Convs /\ k \in Owed[c]
        /\ Owed' = [Owed EXCEPT ![c] = @ \ {k}]
      BY <1>3, OwedShrinks DEF Put
  <2>2. k \notin DOMAIN Log[c]
    <3>1. k \notin DOMAIN messages[c]
        BY <1>3 DEF Put, NumbersInv, TabsInv
    <3> QED
        BY <2>1, <3>1 DEF Log
  <2>3. Lifecycle!Write(c, k, Lifecycle!Said)
    <3>1. Shown(User) = Lifecycle!Said
        BY DEF Shown, User, Lifecycle!Said
    <3> QED
        BY <1>3, <2>1, <3>1, PutIsWrite DEF Put
  <2>4. UNCHANGED <<status, Turns>>
      BY <1>3, <1>c DEF Put, agent
  <2> QED
      BY <2>1, <2>2, <2>3, <2>4 DEF Lifecycle!Arrive, Turns
<1>4. ASSUME NEW t \in Tabs, PutFails(t) PROVE \E c \in Convs : Lifecycle!Lose(c)
  <2>1. UNCHANGED <<status, Log, Turns>>
      BY <1>4, <1>a, <1>c DEF PutFails, chat, agent
  <2>2. /\ sending[t].conv \in Convs /\ sending[t].seq \in Owed[sending[t].conv]
        /\ Owed' = [Owed EXCEPT ![sending[t].conv] = @ \ {sending[t].seq}]
      BY <1>4, OwedShrinks DEF PutFails
  <2> QED
      BY <2>1, <2>2 DEF Lifecycle!Lose, Turns
\* The steps of an agent that the abstract conversations do not have.
<1>5. ASSUME NEW a \in Agents,
             Start(a) \/ Query(a) \/ Read(a) \/ Reserve(a) \/ StreamEnds(a)
               \/ \E c \in Convs : ClaimLoses(a, c)
      PROVE  FALSE
  <2>1. UNCHANGED <<status, Owed, Log>>
      BY <1>5, <1>a, <1>b DEF Start, Query, Read, Reserve, StreamEnds, ClaimLoses, chat
  <2>2. /\ \A b \in Agents \ {a} : pc'[b] = pc[b] /\ conv'[b] = conv[b] /\ aseq'[b] = aseq[b]
        /\ UNCHANGED conv /\ Stage(a)' = Stage(a)
        /\ aseq'[a] = aseq[a] \/ Stage(a) = "claimed"
      BY <1>5, <1>d DEF Start, Query, Read, Reserve, StreamEnds, ClaimLoses, Goto, Stage
  <2>3. Turn(a)' = Turn(a)
      BY <2>2 DEF Turn
  <2>4. UNCHANGED Turns
      BY <2>2, <2>3, OthersTurns DEF Turns
  <2> QED
      BY <2>1, <2>4
<1>6. ASSUME NEW a \in Agents, NEW c \in Convs, ClaimWins(a, c) PROVE Lifecycle!Claim(a, c)
  <2>1. /\ status[c] = "awaiting_agent"
        /\ status' = [status EXCEPT ![c] = "streaming"]
        /\ UNCHANGED <<Owed, Log>>
      BY <1>6, <1>a, <1>b DEF ClaimWins, Claimable
  <2>2. Turn(a) = Lifecycle!NoTurn
      BY <1>6, <1>d DEF ClaimWins, Engaged, Turn, Stage, Lifecycle!NoTurn
  <2>3. Turn(a)' = Lifecycle!Turn(c, "claimed", 0)
      BY <1>6, <1>d DEF ClaimWins, Goto, Turn, Stage, Lifecycle!Turn
  <2>4. Turns' = [Turns EXCEPT ![a] = Turn(a)']
      BY <1>6, <1>d, OthersTurns DEF ClaimWins, Goto
  <2> QED
      BY <1>f, <2>1, <2>2, <2>3, <2>4 DEF Lifecycle!Claim, Turns
<1>7. ASSUME NEW a \in Agents, PutAnswer(a) PROVE Lifecycle!Begin(a)
  <2> DEFINE c == conv[a]
             k == aseq[a]
  <2>1. /\ pc[a] = "put" /\ c \in Convs /\ k = count[c] - 1 /\ k \in Nat
        /\ k \notin DOMAIN messages[c]
        /\ \A t \in Tabs : sending[t] # [conv |-> c, seq |-> k]
      BY <1>7, <1>d DEF PutAnswer, Engaged, ControlInv, AnswerIsLast, Answering, NumbersInv, AgentsInv
  <2>2. Turn(a).at = "claimed" /\ Turn(a).conv = c
      BY <2>1, <1>f DEF Stage
  <2>3. Lifecycle!Write(c, k, Lifecycle!Given(FALSE))
    <3>1. Shown(Answer(prompt[a])) = Lifecycle!Given(FALSE)
        BY DEF Shown, Answer, Lifecycle!Given
    <3> QED
        BY <1>7, <2>1, <3>1, PutIsWrite DEF PutAnswer
  <2>4. k \in DOMAIN Log'[c]
    <3>1. k \in DOMAIN messages'[c]
        BY <1>7, <2>1, PutEffect DEF PutAnswer, NumbersInv, MessagesOK
    <3> QED
        BY <2>1, <3>1 DEF Log
  <2>5. Lifecycle!Last(c, k)
    <3>1. k \notin DOMAIN Log[c]
        BY <2>1 DEF Log
    <3>2. k \notin Owed[c]
      <4> SUFFICES ASSUME NEW t \in Tabs, sending[t].conv = c, sending[t].seq = k PROVE FALSE
          BY <2>1, OwedIs
      <4>1. sending[t] \in [conv : Convs, seq : Nat]
          BY <2>1, ChatAssumption DEF NumbersInv, TabsInv, Idle
      <4> QED
          BY <2>1, <4>1
    <3> SUFFICES ASSUME NEW i \in DOMAIN Log[c] \cup Owed[c] PROVE i < k
        BY DEF Lifecycle!Last
    <3> QED
        BY <1>d, <1>e, <2>1, <3>1, <3>2
  <2>6. Turn(a)' = Lifecycle!Turn(c, "answering", k)
      BY <1>7, <1>d DEF PutAnswer, Goto, Turn, Stage, Lifecycle!Turn
  <2>7. Turns' = [Turns EXCEPT ![a] = Turn(a)']
      BY <1>7, <1>d, OthersTurns DEF PutAnswer, Goto
  <2>8. UNCHANGED <<status, Owed>>
      BY <1>7, <1>b DEF PutAnswer
  <2> QED
      BY <1>f, <2>2, <2>3, <2>4, <2>5, <2>6, <2>7, <2>8 DEF Lifecycle!Begin, Turns
<1>8. ASSUME NEW a \in Agents, Chunk(a) \/ StreamFails(a) PROVE FALSE
  <2>1. pc[a] = "stream"
      BY <1>8 DEF Chunk, StreamFails
  <2>2. /\ conv[a] \in Convs /\ aseq[a] \in DOMAIN messages[conv[a]]
        /\ TheAnswer(a) \in Message
      BY <2>1, AnswerIs
  <2>3. Shown([TheAnswer(a) EXCEPT !.text = TRUE]) = Shown(messages[conv[a]][aseq[a]])
      BY <2>2 DEF Shown, Message, TheAnswer
  <2>4. UNCHANGED Log
      BY <1>8, <2>2, <2>3, SameShown DEF Chunk, StreamFails, SetAnswer
  <2>5. UNCHANGED <<status, Owed>>
      BY <1>8, <1>b DEF Chunk, StreamFails
  <2>6. Turn(a)' = Turn(a)
      BY <1>8, <2>1, <1>d DEF Chunk, StreamFails, Goto, agent, Turn, Stage
  <2>7. UNCHANGED Turns
    <3>1. \A b \in Agents \ {a} : pc'[b] = pc[b] /\ conv'[b] = conv[b] /\ aseq'[b] = aseq[b]
        BY <1>8, <1>d DEF Chunk, StreamFails, Goto, agent
    <3> QED
        BY <2>6, <3>1, OthersTurns DEF Turns
  <2> QED
      BY <2>4, <2>5, <2>7
<1>9. ASSUME NEW a \in Agents, Finish(a) PROVE Lifecycle!Finish(a)
  <2>1. /\ pc[a] = "finish" /\ conv[a] \in Convs
        /\ TheAnswer(a) \in Message /\ TheAnswer(a).role = "assistant"
      BY <1>9, AnswerIs DEF Finish
  <2>2. Shown([TheAnswer(a) EXCEPT !.done = TRUE]) = Lifecycle!Given(TRUE)
      BY <2>1 DEF Shown, Message, Lifecycle!Given
  <2>3. Lifecycle!Write(conv[a], aseq[a], Lifecycle!Given(TRUE))
      BY <1>9, <2>1, <2>2, PutIsWrite DEF Finish, SetAnswer
  <2>4. UNCHANGED <<status, Owed>>
      BY <1>9, <1>b DEF Finish
  <2>5. Turn(a) = Lifecycle!Turn(conv[a], "answering", aseq[a])
      BY <2>1 DEF Turn, Stage, Lifecycle!Turn
  <2>6. Turn(a)' = [Turn(a) EXCEPT !.at = "answered"]
      BY <1>9, <1>d, <2>1 DEF Finish, Goto, Turn, Stage
  <2>7. Turns' = [Turns EXCEPT ![a] = Turn(a)']
      BY <1>9, <1>d, OthersTurns DEF Finish, Goto
  <2>8. Turns' = [Turns EXCEPT ![a].at = "answered"]
      BY <1>f, <2>6, <2>7
  <2>9. /\ Turns[a].at = "answering"
        /\ Turns[a].conv = conv[a] /\ Turns[a].seq = aseq[a]
      BY <1>f, <2>5 DEF Lifecycle!Turn
  <2> QED
      BY <2>3, <2>4, <2>8, <2>9 DEF Lifecycle!Finish, Turns
<1>10. ASSUME NEW a \in Agents, Reopen(a) PROVE Lifecycle!Reopen(a)
  <2>1. pc[a] = "reopen" /\ Turn(a).at = "answered" /\ Turn(a).conv = conv[a]
      BY <1>10, <1>f DEF Reopen, Stage
  <2>2. /\ status' = [status EXCEPT ![conv[a]] = "open"]
        /\ UNCHANGED <<Owed, Log>>
      BY <1>10, <1>a, <1>b DEF Reopen
  <2>3. Turn(a)' = Lifecycle!NoTurn
      BY <1>10, <1>d DEF Reopen, Forget, Goto, Turn, Stage, Lifecycle!NoTurn
  <2>4. Turns' = [Turns EXCEPT ![a] = Turn(a)']
      BY <1>10, <1>d, OthersTurns DEF Reopen, Forget, Goto
  <2> QED
      BY <1>f, <2>1, <2>2, <2>3, <2>4 DEF Lifecycle!Reopen, Turns
<1>11. ASSUME NEW a \in Agents, Crash(a) PROVE Lifecycle!Abandon(a)
  <2>1. UNCHANGED <<status, Owed, Log>>
      BY <1>11, <1>a, <1>b DEF Crash, chat
  <2>2. Turn(a)' = Lifecycle!NoTurn
      BY <1>11, <1>d DEF Crash, Forget, Goto, Turn, Stage, Lifecycle!NoTurn
  <2>3. Turns' = [Turns EXCEPT ![a] = Lifecycle!NoTurn]
      BY <1>11, <1>d, <2>2, OthersTurns DEF Crash, Forget, Goto
  <2>4. Turns[a] # Lifecycle!NoTurn
    <3>1. Turns[a] = Lifecycle!NoTurn => Turns' = Turns
        BY <2>3 DEF Turns
    <3> QED
        BY <2>1, <3>1
  <2> QED
      BY <2>1, <2>3, <2>4 DEF Lifecycle!Abandon, Turns
<1>12. ~UNCHANGED vars
    BY <1>a, <1>b, <1>c DEF vars, chat, agent
<1> QED
    BY <1>1, <1>2, <1>3, <1>4, <1>5, <1>6, <1>7, <1>8, <1>9, <1>10, <1>11, <1>12
    DEF Next, AgentStep, PollNothing, Lifecycle!Next

\* The bus of production implements the conversations that ChatStore promises, although
\* a claim is a query and then updates, a message and an answer are started by two
\* writes, and any agent may be killed between any two of them.
THEOREM BusImplementsLifecycle == Spec => ImplementsLifecycle
<1>1. ControlInv /\ NumbersInv /\ RolesInv /\ [Next]_vars => [Lifecycle!Next]_(Lifecycle!vars)
    BY StepRefines
<1> QED
    BY <1>1, InitRefines, InitRoles, StepRoles, NumbersAlways, PTL
    DEF Spec, ImplementsLifecycle, Lifecycle!Spec
=============================================================================
