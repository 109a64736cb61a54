CONSTANTS
  c1 = c1
  c2 = c2
  Calls <- MCCalls
  Full = 5
  MemoryLimit = 3
  NetworkLimit = 4
  CPUPerLocalWork = {2}
  MemoryPerCall = {2}
  MemoryPerQueuedCall = {2}
  NetworkPerCall = {2}
  NetworkPerReply = {2}
  CPUDecayRate = 1
  MemoryDecayRate = 1
  NetworkDecayRate = 1
  MemoryRecoveryMs = 2
  NumStages = 1
  RemoteCalls <- NoRemoteCalls
  LocalWork = {1, 4}
  MsUnits = 2
  NetworkDelay = 1
  BufferSize = 1
  CPULimit = 3
  CPURejectLimit = 5
  CPUDelayFactor = 1
SPECIFICATION CSpec
PROPERTIES
  NoWorkSurvivesOOM
