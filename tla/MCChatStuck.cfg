CONSTANTS
  Convs = {c1}
  Tabs = {t1, t2}
  Agents = {a1}
  NoConv = NoConv
  MaxSends = 2
  MaxCrashes = 1
SPECIFICATION Spec
PROPERTY StreamingEnds
