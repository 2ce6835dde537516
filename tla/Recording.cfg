SPECIFICATION MCSpec
CONSTANTS
  t1 = t1  t2 = t2  t3 = t3
  Takes = {t1, t2, t3}
  MaxEdits = 1
INVARIANTS TakesOwned SavedHasFiles
PROPERTY SessionEnds
CHECK_DEADLOCK FALSE
