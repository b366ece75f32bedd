SPECIFICATION PromptSpec
CONSTANTS
  r1 = r1
  r2 = r2
  r3 = r3
  client = client
  subscriber = subscriber
  form = form
  guess = guess
  Requests = {r1, r2, r3}
  TicksPerSecond = 2
  IpRequests = 1
  IpWindow = 1
  EndpointRequests = 1
  EndpointWindow = 2
  TrustedProxyHops = 1
  ProxyAddress <- MCProxy
  Written <- MCWritten
  SeenAddress <- MCSeenAddress
  SourceOf <- MCSourceOf
  Endpoints = {form}
  EndpointOf <- MCEndpointOf
  Patience = 4
  MaxClock = 10
CHECK_DEADLOCK FALSE
INVARIANTS
  WithinBudget
  RefusedOnlyWhenSpent
  RetryAfterHonest
PROPERTIES
  SweepSparesOpenWindows
