\* Two clients at the same time and one name to sign up for.
CONSTANTS
  Clients = {c1, c2}
  Names = {"hai"}
  Passwords = {"secret", "sesame"}
  Short = {}
  Kept <- MCKept
  InitialDatabase <- NoLines
  MAX_TRIES = 2
  MAX_FILES = 2
  Blank = Blank
  Garbage = Garbage
  Empty = Empty
  None = None
  MaxLines = 2
SYMMETRY Symmetry
SPECIFICATION BoundedSpec
INVARIANTS
  TypeOK
  TakeTurns
  UserIsAnAccount
  CountsDoNotLeak
PROPERTIES
  KeepsGate
