CONSTANTS
  s1 = s1
  a1 = a1
  source = source
  app = app
  LB = LB
  Requests <- MCRequests
  Clients <- MCClients
  AppClients <- MCApps
  Caller <- MCCaller
  SourceClient = source
  PoolSize = 2
  ReplyChSize = 1
  MaxReplies <- MCReplies
  MsUnits = 3
  Gaps = {1, 4}
SPECIFICATION TDrainSpec
PROPERTIES
  QueuedIsRetried
