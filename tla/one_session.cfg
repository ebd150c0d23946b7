\* One client at a time, the code's limit of five tries, and every input.
CONSTANTS
  Clients = {c1}
  Names = {"hai", "phong"}
  Passwords = {"secret", "a", "a(bcdef", "(bcdef"}
  Short = {"a"}
  Kept <- MCKept
  InitialDatabase <- OneLine
  MAX_TRIES = 5
  MAX_FILES = 2
  Blank = Blank
  Garbage = Garbage
  Empty = Empty
  None = None
  MaxLines = 3
SPECIFICATION CountedSpec
INVARIANTS
  OneLinePerName
PROPERTIES
  BlockedAtTheLast
