SPECIFICATION EitherSpec
CONSTANTS
  Requests = {r1}
  Boot = boot
  Clients = {k1}
  QueueSize = 1
  MaxInstances = 2
  MaxEvents = 1
  bank = bank
  market = market
  hook = hook
  plug = plug
  t1 = t1
  t2 = t2
  m1 = m1
INVARIANTS PluginLives
PROPERTIES SyncsReturn ClientsReturn RequestsReturn RunReturns
CHECK_DEADLOCK FALSE
