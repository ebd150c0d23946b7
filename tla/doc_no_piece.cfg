\* The openings of chess_game: in one the client takes every piece.
CONSTANTS
  Book <- Openings
  Typos <- MCTypos
SPECIFICATION Spec
INVARIANTS
  NoPieceLoses
CHECK_DEADLOCK FALSE
