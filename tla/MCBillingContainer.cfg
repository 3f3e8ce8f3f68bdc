SPECIFICATION Spec
CONSTANTS
  c1 = c1
  c2 = c2
  Ccgs = {c1, c2}
  Threads = {t1, t2}
  Scale = 10
  Budget = 9
  Limits <- MCLimits
  LastDay = 4
  EndDay = 3
  Coef = 5
  Bids <- BidSet
  Sources <- SourceSet
  MaxBids = 3
  MaxStats = 1
SYMMETRY ThreadSymmetry
INVARIANTS
  BudgetInv
  AnswersAgree
  DaysChained
