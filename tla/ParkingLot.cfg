\* One VIP car and two normal ones; the capacity changes between 0 and 3, also by -1.
SPECIFICATION Spec
CONSTANTS
  Vip = {vip}
  Normal = {car1, car2}
  InitialCapacity = 1
  MaxRequest = 3
INVARIANTS LotConsistent GateNotSleptAt
PROPERTY VipServed
CHECK_DEADLOCK FALSE
