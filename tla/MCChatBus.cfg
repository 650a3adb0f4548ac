CONSTANTS
  Convs = {c1, c2}
  Tabs = {t1, t2}
  Agents = {a1, a2}
  NoConv = NoConv
  MaxSends = 2
  MaxCrashes = 1
SPECIFICATION Spec
INVARIANTS
  TypeOK
  OneAgentPerConversation
  OpenIsSettled
PROPERTIES
  MessagesStay
  WaitingIsAnswered
  ImplementsLifecycle
