\* The openings of chess_game.
CONSTANTS
  Book <- Openings
  Typos <- MCTypos
SPECIFICATION Spec
INVARIANTS
  WarningIsCheck
CHECK_DEADLOCK FALSE
