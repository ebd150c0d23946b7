\* Two clients sign up for the same name.
CONSTANTS
  Clients = {c1, c2}
  Names = {"hai"}
  Passwords = {"secret", "sesame"}
  Short = {}
  Kept <- MCKept
  InitialDatabase <- NoLines
  MAX_TRIES = 2
  MAX_FILES = 2
  Blank = Blank
  Garbage = Garbage
  Empty = Empty
  None = None
  MaxLines = 2
SPECIFICATION CountedSpec
INVARIANTS
  OneLinePerName
