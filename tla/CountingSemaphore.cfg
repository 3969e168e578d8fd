\* Three threads on one semaphore of at most two permits.
SPECIFICATION Spec
CONSTANTS
  Thread = {t1, t2, t3}
  InitialPermits = 1
  MaxRelease = 2
  MaxCount = 2
INVARIANTS TypeOK NoLostWakeup
PROPERTY Implements
