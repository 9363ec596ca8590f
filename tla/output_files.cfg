SPECIFICATION Spec
CONSTANTS
  Worker = {w1, w2}
  Path = {p1, p2}
  Body = {b1, b2}
  Temp = {t1, t2, t3}
  Chunks = 2
  MaxCalls = 3
  MaxKills = 1
  Absent = Absent
  NoCall = NoCall
INVARIANTS
  NoPartialFile
  TempsAccounted
PROPERTY ImplementsStore
