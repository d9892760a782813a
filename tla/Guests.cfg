SPECIFICATION Spec
CONSTANTS
  ada = ada
  Members = {ada}
  Nobody = Nobody
  MaxRounds = 1
  MaxOrders = 2
  Budget = 1
  MaxAsks = 1
  MaxCodes = 2
  MaxInvites = 1
  CodeTries = 2
  curry = curry
  base = base
  gravy = gravy
  fish = fish
  Dishes = {curry, base, gravy}
  Stock = {fish}
  Allergens = {fish}
  Addons = {gravy}
  Depth = 2
  NoItem = NoItem
  MaxEdits = 3
CHECK_DEADLOCK FALSE
INVARIANTS RoundIsShown CodeTriesHold DrawnIsDeclared SetupSurvives
PROPERTIES HeldRoundsGoOut
