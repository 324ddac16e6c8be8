CONSTANTS
  author = author
  muse = muse
  Agents = {author, muse}
  Readiness <- Scores
  Consumers = {muse}
  Targets = {muse}
  Nobody = Nobody
  Caps = {1, 2}
  Permits = 1
  Horizon = 1
  FailBase = 1
  FailCap = 2
  IdleBase = 1
  IdleCap = 1
  MaxRun = 1
  MaxAge = 6
  MaxEvents = 2
  agent1 = agent1
  agent2 = agent2
  worker1 = worker1
  worker2 = worker2
  Clients = {agent1, agent2, worker1, worker2}
  Sizes = {1, 3}
  RecoverAfter = 2
  MaxFaults = 2
  MaxResizes = 2
SPECIFICATION MCSpec
INVARIANTS TicksObey NoIdleCapacity
PROPERTIES  Recovers
