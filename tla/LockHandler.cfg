\* Two requests that may lock a master and a clone, in either order.
SPECIFICATION Spec
CONSTANTS
  Request = {r1, r2}
  LockFile = {master, clone}
  MaxObjects = 3
  MaxAttempts = 2
  None = None
INVARIANTS
  TypeOK
  Exclusion
  LocksMatchObjects
  NoSelfDeadlock
PROPERTIES
  EveryWaitEnds
  ImplementsRWLock
