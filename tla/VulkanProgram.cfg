SPECIFICATION Spec
CONSTANTS
  Commands <- Surface
  Builds <- MCBuilds
  Words <- MCWords
  Programs <- MCPrograms
  Numbers <- MCNumbers
  W64 = 8
  W32 = 4
  W16 = 2
  MaxHeld = 6
INVARIANTS
  TypeOK
  HandlesArrive
  DriverReached
  NumbersArrive
  TokensNameObjects
CHECK_DEADLOCK FALSE
