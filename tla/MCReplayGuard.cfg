SPECIFICATION Spec
SYMMETRY Symmetry
CONSTANTS
  PublisherIds = {p1, p2}
  EpochIds = {1}
  CounterMax = 4
  WindowSize = 3
INVARIANTS
  TypeOK
  NoDoubleAccept
  WindowExact
  RejectsOnlyWithCause
PROPERTIES
  MaxNeverDecreases
  ImplementsSlidingWindow
