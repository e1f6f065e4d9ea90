CHECK_DEADLOCK FALSE
SPECIFICATION FairSpec
CONSTANTS
  Slots = {s1, s2}
  Workers = {w1, w2}
  Background = {b1}
  Sessions = {x1, x2}
  Nobody = Nobody
INVARIANTS
  SlotPlaced
  NoUseAfterDestroy
PROPERTIES
  NoHandOverAfterShutdown
  ShutdownEnds
  RetryMade
