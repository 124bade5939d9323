\* Two requests of one client at a time, over two windows.
SPECIFICATION Spec
CONSTANTS
  w1 = w1
  w2 = w2
  Workers <- TwoWorkers
  MaxRequests = 1
  Window = 2
  MaxTime = 3
  NoTTL = NoTTL
SYMMETRY Symmetry
INVARIANTS TypeOK LogBounded RejectedOnlyWhenBusy
PROPERTIES StaysCounted
