SPECIFICATION Spec
CONSTANTS
  hand = hand
  synced = synced
  m1 = m1
  s1 = s1
  plug = plug
  c1 = c1
  c2 = c2
  user = user
  auto = auto
  ManualAccounts = {hand}
  SyncedAccounts = {synced}
  ManualTxns = {m1}
  SyncedTxns = {s1}
  SourceOf <- MCSourceOf
  PluginSources = {plug}
  Balances = {0}
  Cores = {c1, c2}
  Keys = {1}
  Vals <- MCVals
  EnabledChoices = {TRUE, FALSE}
  NoVal = NoVal
  MaxCount = 1
  Kinds = {"refund", "split"}
  MaxEdges = 1
  RuleIds = {1}
  RuleBodies <- MCRuleBodies
  Runners = {"r1"}
  Overlap = TRUE
  MaxCommits = 3
PROPERTIES RevertKeepsEdits
