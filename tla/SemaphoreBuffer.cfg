\* One producer and two consumers on two buffers of two places.
SPECIFICATION Spec
CONSTANTS
  Producer = {p1}
  Consumer = {c1, c2}
  Buffers = 2
  Capacity = 2
  Value = {1, 2}
INVARIANTS BuffersConsistent
PROPERTIES BuffersAreChannels ItemsKeepFlowing
CHECK_DEADLOCK FALSE
