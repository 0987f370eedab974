\* Every pair of drivers, and other drivers on any of the three numbers.
SPECIFICATION Spec
CONSTANTS
  DynamicMajors = {240, 241}
  Others = {240, 241, 269}
  MaxDrivers = 2
INVARIANTS
  TypeOK
  NothingLeft
  DeviceOnOwnNumber
  OpenFileIsServed
  OthersSurvive
PROPERTY
  OwnersGiveBack
CHECK_DEADLOCK FALSE
