CONSTANTS
  Items = {a, b, c, d, e, f}
  Priorities = {1, 2, 3}
  NoItem = NoItem
SYMMETRY Symmetry
SPECIFICATION PQSpec
INVARIANTS
  PQTypeOK
  IndexTracksPosition
  HeapOrdered
  PeakIsLeast
PROPERTIES
  ImplementsMinQueue
