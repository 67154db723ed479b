SPECIFICATION AllSpec
CONSTANTS
  Parts = {"schedules"}
  w1 = w1 
  w2 = w2
  p1 = p1
  c1 = c1
  q1 = q1
  bank = bank
  market = market
  hook = hook
  plug = plug
  t1 = t1
  t2 = t2
  m1 = m1
  Types = {bank, market, hook, plug}
  KindOf <- Kinds
  Timed = {bank, plug}
  Credentialed = {bank}
  Builtin <- MainBuilds
  Runners = {t1, t2}
  Plugins = {m1}
  MaxPollers = 5
  MaxLogs = 2
  ta = ta
  tb = tb
  acc1 = acc1
  acc2 = acc2
  e1 = e1
  e2 = e2
INVARIANTS RemovedIsSilent
CHECK_DEADLOCK FALSE
