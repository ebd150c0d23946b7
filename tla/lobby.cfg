SPECIFICATION Spec
CONSTANTS
  Clients = {c1, c2}
  Teams = {t1}
  Nobody = t0
  Castles = {k1, k2}
  None = None
  MaxMembers = 2
  LinkSize = 2
  Listeners = {l1, l2, l3}
  BufferSize = 2
  RecvMax = 1
INVARIANTS
  TypeOK
  PlayersAreCounted
  InStep
  SkippedAtMostRemoved
PROPERTIES
  
  KeepsBeingShown
CHECK_DEADLOCK FALSE
