--------------------------- MODULE ChatLifecycle ---------------------------
(***************************************************************************)
(* What the conversations promise to users and to agents (the ChatStore    *)
(* protocol of src/src/app/store/chat_store.py, its claim and status       *)
(* machine): messages have numbers and stay, a conversation that waits is  *)
(* taken by one agent, who gives it one answer, after every message that   *)
(* was announced, and only then hands it back.  Every operation is one     *)
(* step, as each of them is one transaction or statement of                *)
(* SqliteChatStore; a message is announced and arrives in two, which that  *)
(* store takes at once.  ChatBus, the bus of production, is shown to       *)
(* implement it.                                                           *)
(***************************************************************************)
EXTENDS Integers

CONSTANTS Convs,    \* the conversations
          Agents,   \* those who answer
          NoConv    \* not a conversation

VARIABLES status,   \* per conversation: status, "none" before it is created
          owed,     \* per conversation: numbers of messages announced, not there
          log,      \* per conversation: the messages by number
          turn      \* per agent: the conversation it answers, if any

vars == <<status, owed, log, turn>>

Said == [role |-> "user", done |-> TRUE]
Given(d) == [role |-> "assistant", done |-> d]

NoTurn == [conv |-> NoConv, at |-> "idle", seq |-> 0]
Turn(c, at, i) == [conv |-> c, at |-> at, seq |-> i]

\* i comes after all that is there or to come.
Last(c, i) == \A k \in DOMAIN log[c] \cup owed[c] : k < i

Write(c, i, m) ==
    log' = [log EXCEPT ![c] = [k \in DOMAIN log[c] \cup {i} |->
                                  IF k = i THEN m ELSE log[c][k]]]

Init == /\ status = [c \in Convs |-> "none"]
        /\ owed = [c \in Convs |-> {}]
        /\ log = [c \in Convs |-> [i \in {} |-> Said]]
        /\ turn = [a \in Agents |-> NoTurn]

Create(c) == /\ status[c] = "none"
             /\ status' = [status EXCEPT ![c] = "open"]
             /\ UNCHANGED <<owed, log, turn>>

\* append_user_message: refused while an agent has the conversation.
Announce(c) == /\ status[c] \in {"open", "awaiting_agent"}
               /\ status' = [status EXCEPT ![c] = "awaiting_agent"]
               /\ \E i \in owed'[c] : /\ Last(c, i)
                                      /\ owed' = [owed EXCEPT ![c] = @ \cup {i}]
               /\ UNCHANGED <<log, turn>>

\* The message is there, under a number that nobody else has had ...
Arrive(c) == \E i \in owed[c] \ DOMAIN log[c] :
               /\ owed' = [owed EXCEPT ![c] = @ \ {i}]
               /\ Write(c, i, Said)
               /\ UNCHANGED <<status, turn>>

\* ... or never will be.
Lose(c) == \E i \in owed[c] :
               /\ owed' = [owed EXCEPT ![c] = @ \ {i}]
               /\ UNCHANGED <<status, log, turn>>

\* claim_conversation: one agent takes a conversation that waits.
Claim(a, c) == /\ turn[a] = NoTurn
               /\ status[c] = "awaiting_agent"
               /\ status' = [status EXCEPT ![c] = "streaming"]
               /\ turn' = [turn EXCEPT ![a] = Turn(c, "claimed", 0)]
               /\ UNCHANGED <<owed, log>>

\* start_assistant_message: one answer in a turn, after every message.
Begin(a) == /\ turn[a].at = "claimed"
            /\ LET c == turn[a].conv
               IN  \E i \in DOMAIN log'[c] :
                     /\ Last(c, i)
                     /\ Write(c, i, Given(FALSE))
                     /\ turn' = [turn EXCEPT ![a] = Turn(c, "answering", i)]
            /\ UNCHANGED <<status, owed>>

\* finish_turn: the answer is complete ...
Finish(a) == /\ turn[a].at = "answering"
             /\ Write(turn[a].conv, turn[a].seq, Given(TRUE))
             /\ turn' = [turn EXCEPT ![a].at = "answered"]
             /\ UNCHANGED <<status, owed>>

\* ... and the user may write again.
Reopen(a) == /\ turn[a].at = "answered"
             /\ status' = [status EXCEPT ![turn[a].conv] = "open"]
             /\ turn' = [turn EXCEPT ![a] = NoTurn]
             /\ UNCHANGED <<owed, log>>

\* The agent is gone: its conversation stays as it is.
Abandon(a) == /\ turn[a] # NoTurn
              /\ turn' = [turn EXCEPT ![a] = NoTurn]
              /\ UNCHANGED <<status, owed, log>>

Next == \/ \E c \in Convs : \/ Create(c) \/ Announce(c) \/ Arrive(c) \/ Lose(c)
                            \/ \E a \in Agents : Claim(a, c)
        \/ \E a \in Agents : Begin(a) \/ Finish(a) \/ Reopen(a) \/ Abandon(a)

Spec == Init /\ [][Next]_vars
=============================================================================
