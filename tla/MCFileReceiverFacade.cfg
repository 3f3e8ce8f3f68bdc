CONSTANTS
  Receivers = {r1, r2}
  Consumers = {c1, c2}
  Adders = {a1}
  Names = {1, 2}
  MaxRevert = 1
  NoOne = NoOne
SPECIFICATION FacadeFairSpec
CHECK_DEADLOCK FALSE
INVARIANTS
  FacadeInv
PROPERTIES
  FacadeLive
