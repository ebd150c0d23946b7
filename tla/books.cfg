\* Gold, walls, mines and attack items: one team's books, overlapping ticks.
CONSTANTS
  Teams = {"red"}
  Players = {"red"}
  TeamOf <- MCTeamOf
  NumCastles = 1
  NumFields = 1
  TickThreads = {k1, k2}
  MaxDialogs = 1
  Questions <- MCQuestions
  Answers = {1, 2}
  Key <- MCKey
  CastleQuestion <- MCCastleQuestion
  FieldQuestion <- MCFieldQuestion
  AttackItems = {"balista", "cannon"}
  DefenceItems = {"fence", "legend"}
  ItemValue <- MCItemValue
  Price <- PriceList
  Value <- WoodAndGold
  InitialStock <- WoodAndIron
  BLOCK_TIME = 1
  GOLD_DELAY = 1
  MINE_DELAY = 1
  None = None
  MaxStock = 3
SYMMETRY Symmetry
SPECIFICATION BoundedSpec
\* The bound on resources, not the server, stops the ticks.
CHECK_DEADLOCK FALSE
INVARIANTS
  HandlerFactsHold
PROPERTIES
  KeepsBooks
