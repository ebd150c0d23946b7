\* Openings of a game and one exchange of free moves after each.
CONSTANTS
  Book <- Openings
  Typos <- MCTypos
SPECIFICATION Spec
INVARIANTS
  TypeOK
  BoardsAgree
  KingsKnown
  RightsLost
  
  StuckOnlyWithoutMove
PROPERTIES
  WinIsEarned
  TakesOnePieceEach
\* the user may stop playing
CHECK_DEADLOCK FALSE
