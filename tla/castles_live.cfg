\* Liveness: one castle, two teams, overlapping ticks; nothing costs or yields anything.
CONSTANTS
  Teams = {"red", "blue"}
  Players = {"red", "blue"}
  TeamOf <- MCTeamOf
  NumCastles = 1
  NumFields = 0
  TickThreads = {k1, k2}
  MaxDialogs = 1
  Questions <- MCQuestions
  Answers = {1, 2}
  Key <- MCKey
  CastleQuestion <- MCCastleQuestion
  FieldQuestion <- MCFieldQuestion
  AttackItems = {"balista"}
  DefenceItems = {"legend"}
  ItemValue <- MCItemValue
  Price <- FreeOfCharge
  Value <- Nothing
  InitialStock <- Nothing
  BLOCK_TIME = 1
  GOLD_DELAY = 0
  MINE_DELAY = 1
  None = None
  MaxStock = 1
SPECIFICATION FairSpec
PROPERTIES
  EveryBlockEnds
  EveryHandlerReturns
  
