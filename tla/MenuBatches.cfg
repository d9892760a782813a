SPECIFICATION MenuSpec
CONSTANTS
  curry = curry
  base = base
  gravy = gravy
  fish = fish
  Dishes = {curry, base}
  Stock = {fish}
  Allergens = {fish}
  Addons = {}
  Depth = 12
  NoItem = NoItem
  MaxEdits = 3
CHECK_DEADLOCK FALSE
INVARIANTS EveryUserSaysSo
