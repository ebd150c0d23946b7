\* One castle, two teams, overlapping ticks; nothing costs or yields anything.
CONSTANTS
  Teams = {"red", "blue"}
  Players = {"red", "blue"}
  TeamOf <- MCTeamOf
  NumCastles = 1
  NumFields = 0
  TickThreads = {k1, k2}
  MaxDialogs = 2
  Questions <- MCQuestions
  Answers = {1, 2}
  Key <- MCKey
  CastleQuestion <- MCCastleQuestion
  FieldQuestion <- MCFieldQuestion
  AttackItems = {"balista"}
  DefenceItems = {"fence", "legend"}
  ItemValue <- MCItemValue
  Price <- FreeOfCharge
  Value <- Nothing
  InitialStock <- Nothing
  BLOCK_TIME = 1
  GOLD_DELAY = 1
  MINE_DELAY = 1
  None = None
  MaxStock = 1
SYMMETRY Symmetry
SPECIFICATION Spec
INVARIANTS
  TypeOK
  HandlerFactsHold
  PayeeExists
  TimeLeftMeansBlocked
  BlockIsBounded
PROPERTIES
  ExhaustedCastleStays
  
