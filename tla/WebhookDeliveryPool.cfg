\* Two workers, a queue of one, three events, two attempts, a webhook created, edited
\* and deleted at any time.
CONSTANTS
  Workers = {w1, w2}
  QueueSize = 1
  MaxAttempts = 2
  Hooks = {1}
  Types = {"a", "b"}
  Subscriptions = {{}, {"a"}}
  MaxEvents = 3
SPECIFICATION Spec
INVARIANTS TypeOK SuccessesAreReal
PROPERTIES AttemptsAreTold DeliveryKeepsConfig JobsEnd
CHECK_DEADLOCK FALSE
