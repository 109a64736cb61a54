CONSTANTS
  s1 = s1
  lb1 = lb1
  app1 = app1
  app2 = app2
  Sources <- MCSources
  LBs <- MCLBs
  Apps <- MCApps
  Length = 3
  SmallChannelSize = 2
SPECIFICATION Spec
INVARIANTS
  TypeOK
  NoDrop
  AllWorkInCurrentMs
  NoNegativeWaitGroup
  StopIsClean
PROPERTIES
  ImplementsLockstep
  Terminates
