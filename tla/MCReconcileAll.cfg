SPECIFICATION Spec
CONSTANTS
  Coins = {c1, c2}
  Peers = {p1, p2}
  Size = 2
SYMMETRY Symmetry
INVARIANT FreedSafely
PROPERTY TokenKept
CHECK_DEADLOCK FALSE
