CONSTANTS
  c1 = c1
  c2 = c2
  Char = {c1, c2}
  None = None
  crystal = crystal
  herb = herb
  ring = ring
  Kind = {crystal, herb, ring}
  Gil = Gil
  Nothing = Nothing
  Rare = {ring}
  Stack <- MCStack
  Crystal = crystal
  Ingredients <- MCIngredients
  Results <- MCResults
  BagSize = 2
  Start <- MCStart
  TradeSlots = 2
  Prices = {1}
  Fee = 1
  Tax = 5000
  Limit = 1
  MaxRows = 2
  MaxTurns = 3
  MaxCount = 2
  Trouble = {}
SPECIFICATION Spec
INVARIANT TypeOK
INVARIANT NothingDoubled
INVARIANT ReserveIsHeld
INVARIANT TradeAgreed
INVARIANT RareOnce
CHECK_DEADLOCK FALSE
