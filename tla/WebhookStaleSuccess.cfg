\* One worker, two events in the queue.
CONSTANTS
  Workers = {w1}
  QueueSize = 2
  MaxAttempts = 2
  Hooks = {1}
  Types = {"a", "b"}
  Subscriptions = {{}, {"a"}}
  MaxEvents = 2
SPECIFICATION Spec
PROPERTIES SuccessTimePreserved
CHECK_DEADLOCK FALSE
